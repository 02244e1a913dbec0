----------------------------- MODULE ClientSync -----------------------------
(***************************************************************************)
(* That a peer at rest has on disk what its table says (Converged): proofs,*)
(* for any sets of files, directories and packets and any number of        *)
(* downloads and edits.  A file that was never fetched follows the user's  *)
(* edits through the events the monitor has yet to handle; one that is     *)
(* fetched follows the downloads of its entry.                             *)
(***************************************************************************)
EXTENDS ClientTable

\* the exceptions of Converged that are about a file
Spared(f) ==
  \/ Hit(f, {"exposed", "masked", "lost", "cut", "skipped", "scanned"})
  \/ Conflict(f)
  \/ Edited(f) /\ Hit(f, {"removed"})

\* the entry of an event of f that the monitor is about to put into the table
Noted(f) == opc = "table" /\ Mte.name = f /\ Mte.op # FILE_DELETE

\* the versions of f that the table has, or is about to get from the monitor
Versions(f) ==
  {ent[i].timestamp : i \in Matches(f)} \cup (IF Noted(f) THEN {Mte.timestamp} ELSE {})

\* the table will forget f; it will have the version of f that is on disk
Dropping(f) ==
  \/ Awaited(f, {"delete"})
  \/ opc = "table" /\ Mte.name = f /\ Mte.op = FILE_DELETE
Rising(f) ==
  /\ disk[f].content # Absent
  /\ Awaited(f, {"create", "modify"}) \/ (Noted(f) /\ Mte.timestamp = disk[f].content)

\* a download of entry i that has not come to its good end
Under(i) == \E k \in Task : dfe[k] = i /\ dpc[k] \notin Over

\* Before sync_files, what the monitor knows of is in a directory it watches.
Early ==
  pc \in Booting =>
    /\ \A q \in {events, batch} : \A i \in DOMAIN q :
         q[i].kind # "self" /\ (q[i].name \in File => mask[In[q[i].name]] = "default")
    /\ \A f \in File : Versions(f) # {} => mask[In[f]] = "default"

\* A version that is being fetched is the one the table has, or another
\* download of the entry has yet to begin or has failed.
Current ==
  \A k \in Task : dpc[k] = "fetch" /\ dfe[k] \in live =>
    \/ dver[k] = ent[dfe[k]].timestamp \/ Spared(NameOf(k))
    \/ \E j \in Task : dfe[j] = dfe[k] /\ dpc[j] \notin Over \cup {"fetch"}

\* what holds of a version t of a file f that was never fetched
Followed(f, t) ==
  /\ disk[f].content = Absent \/ t <= disk[f].content
  /\ t = disk[f].content \/ Dropping(f) \/ Rising(f)

\* A file that was never fetched: no version is newer than the file on disk, and
\* an event of what is missing in the table is still to be handled.
Local ==
  \A f \in File : ~Fetched(f) =>
    /\ disk[f].content = disk[f].mtime /\ disk[f].mtime <= Now + edits
    /\ \A t \in Versions(f) : t <= Now + edits /\ (Followed(f, t) \/ Spared(f))

\* A file that is fetched: what the table says is there, or is under way.
Remote ==
  \A f \in File : Fetched(f) =>
    \/ Spared(f)
    \/ \A i \in Matches(f) : disk[f].content = ent[i].timestamp \/ Dropping(f) \/ Under(i)

\* The inductive invariant of this module.
SyncInv ==
  /\ TableInv /\ OneEntryPerName
  /\ Monitoring /\ Early /\ Sole /\ Gone /\ Current /\ Local /\ Remote

-----------------------------------------------------------------------------
\* Exceptions are never taken back.
LEMMA SparedKept ==
  ASSUME Types, [Next]_vars, NEW f
  PROVE  (Edited(f) => Edited(f)') /\ (Spared(f) => Spared(f)')
<1>1. race \subseteq race' /\ held \subseteq held' /\ edits' \in Nat /\ edits <= edits' /\ edits \in Nat
  BY HistoryKept, BoundAssumption DEF Types, HistOK
<1>2. \A v \in Now + 1 .. Now + edits : v \in Now + 1 .. Now + edits'
  <2>1. Now \in Nat /\ edits \in Nat /\ edits' \in Nat /\ edits <= edits'
    BY <1>1, BoundAssumption, Zenon
  <2> QED
    BY <2>1, Wider, Zenon
<1>3. Edited(f) => Edited(f)'
  BY <1>1, <1>2, Zenon DEF Edited
<1>4. Fetched(f) => Fetched(f)'
  BY ExcusesKept, Zenon
<1> QED
  BY <1>1, <1>3, <1>4, Zenon DEF Spared, Conflict, Hit

-----------------------------------------------------------------------------
(* Before sync_files.                                                      *)

\* No directory stops reporting.
LEMMA BootMask ==
  ASSUME Types, Boot, Monitoring, Early, [Next]_vars, pc' \in Booting, NEW d \in Dir, mask[d] = "default"
  PROVE  mask'[d] = "default"
<1>a. pc \in Booting /\ mask \in [Dir -> {"none", "default", "blocked", "lost"}]
  BY BootSteps, Zenon DEF Types, SysOK
<1>b. CASE UNCHANGED mask
  BY <1>b, Zenon
<1>1. CASE WatchTargets
  BY <1>1, Zenon DEF WatchTargets, MonitorAt, Monitoring
<1>2. CASE handle_event
  <2>1. batch # << >> /\ batch \in Seq(EventRecord)
    BY <1>2, Zenon DEF handle_event, MonitorAt, Types, ObsOK
  <2>2. 1 \in DOMAIN batch /\ Head(batch) = batch[1]
    BY <2>1, First, Zenon
  <2>3. Head(batch).kind # "self"
    BY <1>a, <2>2, Zenon DEF Early
  <2> QED
    BY <1>2, <2>3, Zenon DEF handle_event
<1>3. CASE StatEvent
  BY <1>a, <1>3, Zenon DEF StatEvent
<1>4. CASE MonitorStep /\ ~WatchTargets /\ ~handle_event /\ ~StatEvent
  BY <1>b, <1>4, Zenon DEF MonitorStep, pthread_wait_notify, ReadEvents, LookAtEvent, TableEvent,
     MonitorUseAfterFree, SendUpdate, sysVars
<1> QED
  BY <1>b, <1>1, <1>2, <1>3, <1>4, BootSteps, Zenon DEF UserStep, UserEdit, UserDelete, UserMkdir, sysVars

\* What the table has, or is about to get, when no download has begun.
LEMMA BootVersions ==
  ASSUME Types, Boot, Boot', Early, OneEntryPerName, [Next]_vars, pc' \in Booting,
         NEW f \in File, Versions(f)' # {}
  PROVE  mask[In[f]] = "default"
<1>a. pc \in Booting /\ pc # "scan"
  BY BootSteps, Zenon DEF Booting
<1>1. ASSUME NEW j \in live', ent'[j].name = f
      PROVE  mask[In[f]] = "default"
  <2>1. CASE j \in live /\ ent[j].name = f
    <3>1. ent[j].timestamp \in Versions(f)
      BY <2>1, Zenon DEF Versions, Matches
    <3> QED
      BY <1>a, <3>1, Zenon DEF Early
  <2>2. ~Spawn(j)
    <3>1. \A k \in Task : dpc'[k] = "idle"
      BY Zenon DEF Boot, Booting
    <3> QED
      BY <3>1, SpawnFetched, Zenon
  <2>3. ~Scan
    BY <1>a, Zenon DEF Scan, Goto
  <2>4. CASE TableEvent /\ Mte.name = f /\ Mte.op # FILE_DELETE
    <3>1. Noted(f)
      BY <2>4, Zenon DEF Noted, TableEvent, MonitorAt
    <3>2. Mte.timestamp \in Versions(f)
      BY <3>1, Zenon DEF Versions
    <3> QED
      BY <1>a, <3>2, Zenon DEF Early
  <2> QED
    BY <1>1, <2>1, <2>2, <2>3, <2>4, EntryStep, Zenon
<1>2. CASE Noted(f)'
  <2>1. opc' = "table" /\ Mte'.name = f /\ Mte'.op # FILE_DELETE
    BY <1>2, Zenon DEF Noted
  <2>2. CASE UNCHANGED obsVars
    <3>1. Noted(f)
      BY <2>1, <2>2, Zenon DEF Noted, Mte, obsVars
    <3>2. Mte.timestamp \in Versions(f)
      BY <3>1, Zenon DEF Versions
    <3> QED
      BY <1>a, <3>2, Zenon DEF Early
  <2>3. CASE StatEvent
    <3>1. batch # << >> /\ batch \in Seq(EventRecord) /\ Mte' = EventEntry(Head(batch))
      BY <2>3, StatEntry, Zenon DEF Types, ObsOK
    <3>2. 1 \in DOMAIN batch /\ Head(batch) = batch[1]
      BY <3>1, First, Zenon
    <3>3. batch[1].name = f
      BY <2>1, <3>1, <3>2, Zenon DEF EventEntry
    <3> QED
      BY <1>a, <3>2, <3>3, Zenon DEF Early
  <2> QED
    BY <2>1, <2>2, <2>3, AtTable, Zenon
<1>3. (\E j \in live' : ent'[j].name = f) \/ Noted(f)'
  BY Zenon DEF Versions, Matches
<1> QED
  BY <1>1, <1>2, <1>3, Zenon

\* Before sync_files, what the monitor knows of stays in directories that report.
LEMMA EarlyStep ==
  ASSUME Types, Boot, Boot', Monitoring, Early, OneEntryPerName, [Next]_vars
  PROVE  Early'
<1>1. ASSUME pc' \in Booting
      PROVE  pc \in Booting
  BY <1>1, BootSteps, Zenon
<1>a. \A f \in File : In[f] \in Dir
  BY InAssumption, Zenon DEF Name
<1>2. ASSUME pc' \in Booting, NEW q \in {events', batch'}, NEW i \in DOMAIN q
      PROVE  q[i].kind # "self" /\ (q[i].name \in File => mask'[In[q[i].name]] = "default")
  <2>1. Heard(q[i])
    <3>1. CASE Queued(q[i])
      BY <1>1, <1>2, <3>1, Zenon DEF Queued, Heard, Early
    <3> QED
      BY <1>2, <3>1, BootEvents, Zenon
  <2> QED
    BY <1>2, <1>a, <2>1, BootMask, Zenon DEF Heard
<1>3. ASSUME pc' \in Booting, NEW f \in File, Versions(f)' # {}
      PROVE  mask'[In[f]] = "default"
  BY <1>3, <1>a, BootVersions, BootMask, Zenon
<1> QED
  BY <1>2, <1>3, Zenon DEF Early

-----------------------------------------------------------------------------
(* Downloads.                                                              *)

\* What the monitor saw change, and was fetched as well, is an exception.
LEMMA TouchedSpared ==
  ASSUME NEW f, Touched(f), Fetched(f)
  PROVE  Spared(f)
BY Zenon DEF Touched, Spared, Conflict, Hit

\* The version of an entry rises under a download only if another one follows.
LEMMA CurrentStep ==
  ASSUME Types, Boot, OutHeld, OneEntryPerName, Sole, Current, [Next]_vars
  PROVE  Current'
<1>a. /\ KeepNames /\ race \subseteq race' /\ Grown /\ live \subseteq DOMAIN ent
      /\ dfe \in [Task -> 0 .. Len(ent)] /\ dver \in [Task -> Nat]
  BY NamesKept, RacesKept, GrownStep, Zenon DEF Types, TabOK, DlOK
<1>1. ASSUME NEW k \in Task, dpc'[k] = "fetch", dfe'[k] \in live', NEW g, g = NameOf(k)'
      PROVE  \/ dver'[k] = ent'[dfe'[k]].timestamp \/ Spared(g)'
             \/ \E j \in Task : dfe'[j] = dfe'[k] /\ dpc'[j] \notin Over \cup {"fetch"}
  <2>1. CASE dpc[k] # "fetch"
    <3>1. OpenFile(k)
      <4>1. ~FetchFile(k)
        BY <2>1, Zenon DEF FetchFile, Step
      <4>2. ~OpenDirectory(k)
        BY <1>1, Zenon DEF OpenDirectory, Step, Verdict, Types, DlOK
      <4>3. ~Block(k)
        BY <1>1, Zenon DEF Block, Step, Types, DlOK
      <4> QED
        BY <1>1, <2>1, <4>1, <4>2, <4>3, Moves, ZenonT(30) DEF Over, Writing
    <3>2. UNCHANGED <<ent, dfe>> /\ dver' = [dver EXCEPT ![k] = ent[dfe[k]].timestamp]
      BY <3>1, Zenon DEF OpenFile, tabVars
    <3> QED
      BY <1>a, <3>2, Zenon
  <2>2. CASE dpc[k] = "fetch"
    <3> DEFINE f == NameOf(k)
               i == dfe[k]
    <3>0. dpc[k] # "idle"
      BY <2>2, Zenon
    <3>1. f \in File /\ i \in DOMAIN ent /\ NameOf(k)' = f /\ dfe'[k] = i /\ ent'[i].name = f
      BY <1>a, <2>2, <3>0, NameType, Zenon DEF KeepNames, Grown, NameOf, Types, DlOK
    <3>2. dver'[k] = dver[k]
      <4>1. ~OpenFile(k) /\ ~OpenDirectory(k) /\ ~Block(k)
        BY <2>2, Zenon DEF OpenFile, OpenDirectory, Block, Step
      <4>2. FetchFile(k) => UNCHANGED dver
        BY Zenon DEF FetchFile
      <4> QED
        BY <2>2, <4>1, <4>2, Moves, ZenonT(30) DEF Over, Writing
    <3>3. Fetched(f)
      BY <3>0, Zenon DEF Fetched
    <3> HIDE DEF f
    <3>4. CASE Spared(f)
      <4>1. Spared(g)
        BY <1>1, <3>1, <3>4, Zenon
      <4> QED
        BY <4>1, SparedKept, Zenon
    <3>5. CASE Spawn(i)
      BY <1>1, <3>1, <3>5, SpawnFetched, Zenon DEF Over
    <3>6. ~Scan
      BY <2>2, Zenon DEF Scan, Goto, Boot
    <3>7. CASE TableEvent /\ Mte.name = f /\ Mte.op # FILE_DELETE
      <4>1. Spared(f)
        BY <3>1, <3>3, <3>7, MonitorTouched, TouchedSpared, Zenon
      <4> QED
        BY <3>4, <4>1, Zenon
    <3>8. CASE i \in live /\ ent'[i].timestamp = ent[i].timestamp
      <4>1. CASE dver[k] = ent[i].timestamp
        BY <3>1, <3>2, <3>8, <4>1, Zenon
      <4>2. ASSUME NEW j \in Task, dfe[j] = i, dpc[j] \notin Over \cup {"fetch"}
            PROVE  Spared(f) \/ (dfe'[j] = i /\ dpc'[j] \notin Over \cup {"fetch"})
        <5>1. NameOf(j) = f /\ j # k
          BY <2>2, <4>2, Zenon DEF NameOf, f
        <5>2. CASE OpenFile(j)
          <6>1. dpc[j] \in Writing /\ dpc[k] \in Writing
            BY <2>2, <5>2, Zenon DEF OpenFile, Step, Writing
          <6>2. <<"exposed", f>> \in race
            BY <5>1, <6>1, Zenon DEF Sole, f
          <6> QED
            BY <6>2, Zenon DEF Spared, Hit
        <5> QED
          BY <3>1, <4>2, <5>1, <5>2, NotBegun, Zenon
      <4> QED
        BY <2>2, <3>1, <3>4, <3>8, <4>1, <4>2, Zenon DEF Current, f
    <3>9. \/ i \in live /\ ent'[i].timestamp = ent[i].timestamp
          \/ Spawn(i) \/ Scan \/ (TableEvent /\ Mte.name = f /\ Mte.op # FILE_DELETE)
      BY <1>1, <3>1, EntryStep, Zenon
    <3> QED
      BY <3>5, <3>6, <3>7, <3>8, <3>9, Zenon
  <2> QED
    BY <2>1, <2>2, Zenon
<1> QED
  BY <1>1, Zenon DEF Current, Spared, Conflict, Fetched, Edited, Hit

-----------------------------------------------------------------------------
(* What the monitor has yet to do for a file.                              *)

\* Versions are timestamps.
LEMMA VersionNat ==
  ASSUME Types, NEW f, NEW t \in Versions(f)
  PROVE  t \in Nat
<1>1. CASE \E i \in Matches(f) : t = ent[i].timestamp
  <2>1. PICK i \in live : t = ent[i].timestamp
    BY <1>1, Zenon DEF Matches
  <2>2. ent[i] \in FileEntry
    BY <2>1, Element, Zenon DEF Types, TabOK
  <2> QED
    BY <2>1, <2>2, Zenon DEF FileEntry
<1>2. CASE Noted(f) /\ t = Mte.timestamp
  <2>1. otab \in Seq(TransEntry) /\ otab # << >>
    BY <1>2, Zenon DEF Noted, Types, ObsOK
  <2>2. Mte \in TransEntry
    BY <2>1 DEF Mte
  <2> QED
    BY <1>2, <2>2, Zenon DEF TransEntry
<1> QED
  BY <1>1, <1>2, Zenon DEF Versions

\* Where the monitor is not at the table, versions are those of the entries.
LEMMA NotNoted ==
  ASSUME NEW f, opc' = "look", NEW t \in Versions(f)'
  PROVE  \E j \in live' : ent'[j].name = f /\ t = ent'[j].timestamp
BY Zenon DEF Versions, Matches, Noted

\* A deletion that was seen is handled: the table forgets the file.
LEMMA DropStep ==
  ASSUME Types, Monitoring, OneEntryPerName, [Next]_vars, NEW f, Dropping(f)
  PROVE  Dropping(f)' \/ Spared(f)' \/ Versions(f)' = {}
<1>1. CASE Awaited(f, {"delete"})
  <2>1. CASE StatEvent /\ Head(batch).name = f /\ Head(batch).kind \in {"delete"}
    <3>1. Mte' = EventEntry(Head(batch)) /\ opc' = "table"
      BY <2>1, StatEntry, Zenon
    <3>2. EventOp(Head(batch)) = FILE_DELETE
      BY <2>1, Zenon DEF EventOp
    <3>3. Mte'.name = f /\ Mte'.op = FILE_DELETE
      BY <2>1, <3>1, <3>2, Zenon DEF EventEntry
    <3> QED
      BY <3>1, <3>3, Zenon DEF Dropping
  <2>2. CASE Awaited(f, {"delete"})'
    BY <2>2, Zenon DEF Dropping
  <2>3. CASE <<"skipped", f>> \in race'
    BY <2>3, Zenon DEF Spared, Hit
  <2> QED
    BY <1>1, <2>1, <2>2, <2>3, AwaitedStep, Zenon
<1>2. CASE opc = "table" /\ Mte.name = f /\ Mte.op = FILE_DELETE
  <2>1. CASE UNCHANGED obsVars
    BY <1>2, <2>1, Zenon DEF Dropping, Mte, obsVars
  <2>2. CASE TableEvent
    <3>1. opc' = "look"
      BY <2>2, Zenon DEF TableEvent, MonitorAt
    <3>2. ASSUME NEW t \in Versions(f)'
          PROVE  Spared(f)'
      <4>1. PICK j \in live' : ent'[j].name = f
        BY <3>1, <3>2, NotNoted, Zenon
      <4>2. Hit(f, {"cut", "scanned"})'
        BY <1>2, <2>2, <4>1, TableHandled, Zenon
      <4> QED
        BY <4>2, Zenon DEF Spared, Hit
    <3> QED
      BY <3>2, Zenon
  <2> QED
    BY <1>2, <2>1, <2>2, AtTable, Zenon
<1> QED
  BY <1>1, <1>2, Zenon DEF Dropping

\* A change that was seen is handled: the version on disk goes into the table.
LEMMA RiseStep ==
  ASSUME Types, Monitoring, OneEntryPerName, [Next]_vars, NEW f \in File, Rising(f),
         disk'[f].content = disk[f].content, disk[f].mtime = disk[f].content
  PROVE  \/ Rising(f)' \/ Spared(f)'
         \/ TableEvent /\ opc' = "look" /\ Mte.name = f /\ Mte.timestamp = disk[f].content
<1>a. disk[f].content # Absent /\ disk'[f].content # Absent
  BY Zenon DEF Rising
<1>1. CASE Awaited(f, {"create", "modify"})
  <2>1. CASE StatEvent /\ Head(batch).name = f /\ Head(batch).kind \in {"create", "modify"}
    <3>1. Mte' = EventEntry(Head(batch)) /\ opc' = "table"
      BY <2>1, StatEntry, Zenon
    <3>2. EventOp(Head(batch)) # FILE_DELETE
      BY <2>1, Zenon DEF EventOp, FILE_DELETE, FILE_ADD, FILE_MODIFY
    <3>3. Exists(f)
      BY <1>a, DirAssumption, Zenon DEF Exists
    <3>4. Mte'.name = f /\ Mte'.op # FILE_DELETE /\ Mte'.timestamp = disk[f].mtime
      BY <2>1, <3>1, <3>2, <3>3, Zenon DEF EventEntry
    <3> QED
      BY <1>a, <3>1, <3>4, Zenon DEF Rising, Noted
  <2>2. CASE Awaited(f, {"create", "modify"})'
    BY <1>a, <2>2, Zenon DEF Rising
  <2>3. CASE <<"skipped", f>> \in race'
    BY <2>3, Zenon DEF Spared, Hit
  <2> QED
    BY <1>1, <2>1, <2>2, <2>3, AwaitedStep, Zenon
<1>2. CASE Noted(f) /\ Mte.timestamp = disk[f].content
  <2>1. CASE UNCHANGED obsVars
    BY <1>a, <1>2, <2>1, Zenon DEF Rising, Noted, Mte, obsVars
  <2>2. CASE TableEvent
    BY <1>2, <2>2, Zenon DEF Noted, TableEvent, MonitorAt
  <2> QED
    BY <1>2, <2>1, <2>2, AtTable, Zenon DEF Noted
<1> QED
  BY <1>1, <1>2, Zenon DEF Rising

\* A version of a file that is not fetched is the one on disk when it is new.
LEMMA VersionsStep ==
  ASSUME Types, OneEntryPerName, [Next]_vars, NEW f \in File, NEW t \in Versions(f)'
  PROVE  \/ t \in Versions(f) \/ Fetched(f)'
         \/ Exists(f) /\ t = disk[f].mtime
         \/ ~Exists(f) /\ t = 0
<1>1. ASSUME NEW j \in live', ent'[j].name = f, t = ent'[j].timestamp
      PROVE  t \in Versions(f) \/ Fetched(f)' \/ (Exists(f) /\ t = disk[f].mtime)
  <2>1. CASE j \in live /\ ent'[j].timestamp = ent[j].timestamp /\ ent[j].name = f
    BY <1>1, <2>1, Zenon DEF Versions, Matches
  <2>2. CASE Spawn(j)
    <3>1. PICK k \in Task : dpc'[k] = "name" /\ dfe'[k] = j
      BY <2>2, SpawnFetched, Zenon
    <3> QED
      BY <1>1, <3>1, Zenon DEF Fetched, NameOf
  <2>3. CASE Scan /\ Exists(f) /\ ent'[j].timestamp = disk[f].mtime
    BY <1>1, <2>3, Zenon
  <2>4. CASE TableEvent /\ Mte.name = f /\ Mte.op # FILE_DELETE /\ ent'[j].timestamp = Mte.timestamp
    <3>1. Noted(f)
      BY <2>4, Zenon DEF Noted, TableEvent, MonitorAt
    <3> QED
      BY <1>1, <2>4, <3>1, Zenon DEF Versions
  <2> QED
    BY <1>1, <2>1, <2>2, <2>3, <2>4, EntryStep, Zenon
<1>2. CASE Noted(f)' /\ t = Mte'.timestamp
  <2>1. CASE UNCHANGED obsVars
    <3>1. Noted(f) /\ t = Mte.timestamp
      BY <1>2, <2>1, Zenon DEF Noted, Mte, obsVars
    <3> QED
      BY <3>1, Zenon DEF Versions
  <2>2. CASE StatEvent
    <3>1. Mte' = EventEntry(Head(batch)) /\ Mte'.name = f /\ Mte'.op # FILE_DELETE
      BY <1>2, <2>2, StatEntry, Zenon DEF Noted
    <3>2. Head(batch).name = f /\ EventOp(Head(batch)) # FILE_DELETE
      BY <3>1, Zenon DEF EventEntry
    <3>3. t = IF ~Exists(f) THEN 0 ELSE disk[f].mtime
      BY <1>2, <3>1, <3>2, Zenon DEF EventEntry
    <3> QED
      BY <3>3, Zenon
  <2> QED
    BY <1>2, <2>1, <2>2, AtTable, Zenon DEF Noted
<1>3. \/ \E j \in live' : ent'[j].name = f /\ t = ent'[j].timestamp
      \/ Noted(f)' /\ t = Mte'.timestamp
  BY Zenon DEF Versions, Matches
<1> QED
  BY <1>1, <1>2, <1>3, Zenon

-----------------------------------------------------------------------------
(* Files that were never fetched.                                          *)

\* What the user does to a file is reported, or it is lost.
LEMMA Reported ==
  ASSUME Types, NEW f \in File, pc \in Booting => mask[In[f]] = "default",
         NEW kind, NEW by, events' = Emitted(In[f], f, kind, by), Lost(f) \subseteq race'
  PROVE  (\E i \in DOMAIN events' : events'[i].name = f /\ events'[i].kind = kind) \/ Spared(f)'
<1>1. CASE mask[In[f]] = "default"
  <2>1. mask[In[f]] = "default" =>
          \E i \in DOMAIN events' : events'[i].name = f /\ events'[i].kind = kind
    BY EmittedStay
  <2> QED
    BY <1>1, <2>1, Zenon
<1>2. CASE mask[In[f]] # "default"
  <2>1. <<"lost", f>> \in race'
    BY <1>2, Zenon DEF Lost, Booting
  <2> QED
    BY <2>1, Zenon DEF Spared, Hit
<1> QED
  BY <1>1, <1>2, Zenon

\* An edit is newer than what was there before.
LEMMA Above ==
  ASSUME NEW n \in Nat, NEW e \in Nat, NEW t \in Nat, t <= n + e
  PROVE  /\ t <= n + e + 1 /\ n + e + 1 # 0 /\ n + e + 1 \in Nat
         /\ \A x \in Nat : e <= x => t <= n + x
OBVIOUS

\* A file that is not fetched after a step was not fetched before; then its
\* modification time is its version.
LEMMA NotFetched ==
  ASSUME Types, Local, [Next]_vars, NEW f \in File, ~Fetched(f)'
  PROVE  /\ ~Fetched(f) /\ disk[f].content = disk[f].mtime /\ disk[f].mtime \in Nat
         /\ disk[f].mtime <= Now + edits /\ edits \in Nat /\ edits' \in Nat /\ edits <= edits'
<1>1. ~Fetched(f)
  BY ExcusesKept, Zenon
<1>2. disk[f] \in OnDiskFile /\ edits \in Nat
  BY BoundAssumption DEF Types, SysOK, HistOK
<1>3. disk[f].mtime \in Nat
  BY <1>2, Zenon DEF OnDiskFile
<1> QED
  BY <1>1, <1>2, <1>3, HistoryKept, Zenon DEF Local

\* The versions after a step are not newer than the last edit.
LEMMA VersionsOld ==
  ASSUME Types, OneEntryPerName, Local, [Next]_vars, NEW f \in File, ~Fetched(f)',
         NEW t \in Versions(f)'
  PROVE  /\ t \in Nat /\ t <= Now + edits /\ t <= Now + edits'
         /\ t \in Versions(f) \/ t = disk[f].content
<1>1. /\ ~Fetched(f) /\ disk[f].content = disk[f].mtime /\ disk[f].mtime \in Nat
      /\ disk[f].mtime <= Now + edits /\ edits \in Nat /\ edits' \in Nat /\ edits <= edits'
  BY NotFetched, Zenon
<1>2. CASE t \in Versions(f)
  <2>1. t \in Nat /\ t <= Now + edits
    BY <1>1, <1>2, VersionNat, Zenon DEF Local
  <2> QED
    BY <1>1, <1>2, <2>1, Above, BoundAssumption, Zenon
<1>3. CASE t \notin Versions(f)
  <2>1. t = disk[f].content
    <3>1. (Exists(f) /\ t = disk[f].mtime) \/ (~Exists(f) /\ t = 0)
      BY <1>3, VersionsStep, Zenon
    <3>2. ~Exists(f) => disk[f].content = 0
      BY DirAssumption, Zenon DEF Exists, Absent
    <3> QED
      BY <1>1, <3>1, <3>2, Zenon
  <2>2. t \in Nat /\ t <= Now + edits
    BY <1>1, <2>1, Zenon
  <2> QED
    BY <1>1, <2>1, <2>2, Above, BoundAssumption, Zenon
<1> QED
  BY <1>2, <1>3, Zenon

\* A file that a step leaves as it is on disk.
LEMMA LocalKept ==
  ASSUME Types, Monitoring, OneEntryPerName, Local, [Next]_vars, NEW f \in File, ~Fetched(f)',
         disk'[f].content = disk[f].content, NEW t \in Versions(f)'
  PROVE  Followed(f, t)' \/ Spared(f)'
<1> DEFINE c == disk[f].content
<1>1. /\ ~Fetched(f) /\ c = disk[f].mtime /\ c \in Nat
  BY NotFetched, Zenon
<1>2. t \in Nat /\ (t \in Versions(f) \/ t = c)
  BY VersionsOld, Zenon
<1>3. CASE t = c
  <2>1. t <= c
    BY <1>1, <1>3
  <2> QED
    BY <1>3, <2>1, Zenon DEF Followed
<1>4. CASE t \in Versions(f) /\ Spared(f)
  BY <1>4, SparedKept, Zenon
<1>5. CASE t \in Versions(f) /\ Followed(f, t) /\ t # c
  <2>1. c = Absent \/ t <= c
    BY <1>5, Zenon DEF Followed
  <2>2. CASE Dropping(f)
    <3>1. Dropping(f)' \/ Spared(f)'
      BY <2>2, DropStep, Zenon
    <3> QED
      BY <2>1, <3>1, Zenon DEF Followed
  <2>3. CASE Rising(f)
    <3>1. CASE TableEvent /\ opc' = "look" /\ Mte.name = f /\ Mte.timestamp = c
      <4>1. PICK j \in live' : ent'[j].name = f /\ t = ent'[j].timestamp
        BY <3>1, Zenon DEF Versions, Matches, Noted
      <4>2. Hit(f, {"cut", "scanned"})' \/ t >= c
        <5>1. Hit(f, {"cut", "scanned"})' \/ ent'[j].timestamp >= Mte.timestamp
          BY <3>1, <4>1, TableHandled, Zenon
        <5> QED
          BY <3>1, <4>1, <5>1, Zenon
      <4>3. c # Absent
        BY <2>3, Zenon DEF Rising
      <4>4. ~(t >= c)
        BY <1>1, <1>2, <1>5, <2>1, <4>3
      <4> QED
        BY <4>2, <4>4, Zenon DEF Spared, Hit
    <3>2. Rising(f)' \/ Spared(f)' \/ (TableEvent /\ opc' = "look" /\ Mte.name = f /\ Mte.timestamp = c)
      BY <1>1, <2>3, RiseStep, Zenon
    <3> QED
      BY <2>1, <3>1, <3>2, Zenon DEF Followed
  <2> QED
    BY <1>5, <2>2, <2>3, Zenon DEF Followed
<1> QED
  BY <1>1, <1>2, <1>3, <1>4, <1>5, Zenon DEF Local

\* What the user does leaves the table and the monitor alone.
LEMMA UserVersions ==
  ASSUME NEW f, UserEdit(f) \/ UserDelete(f) \/ RemoveFile \/ RemoveDirectory
  PROVE  Versions(f)' = Versions(f) /\ UNCHANGED <<live, ent, otab, opc>>
<1>1. UNCHANGED <<live, ent, otab, opc>>
  BY Zenon DEF UserEdit, UserDelete, RemoveFile, RemoveDirectory, tabVars, obsVars
<1> QED
  BY <1>1, Zenon DEF Versions, Matches, Noted, Mte

\* The user writes a file: the event is newer than every version.
LEMMA LocalEdit ==
  ASSUME Types, Early, OneEntryPerName, Local, [Next]_vars, NEW f \in File, ~Fetched(f)',
         UserEdit(f), NEW t \in Versions(f)'
  PROVE  Followed(f, t)' \/ Spared(f)'
<1>1. t \in Nat /\ t <= Now + edits /\ edits \in Nat
  BY VersionsOld, NotFetched, Zenon
<1>2. disk'[f].content = Now + edits + 1
  BY Zenon DEF UserEdit, Types, SysOK
<1>3. t <= disk'[f].content /\ disk'[f].content # Absent
  BY <1>1, <1>2, Above, BoundAssumption, Zenon DEF Absent
<1>4. pc \in Booting => mask[In[f]] = "default"
  BY UserVersions, Zenon DEF Early
<1>5. PICK kind \in {"create", "modify"} :
        \/ \E i \in DOMAIN events' : events'[i].name = f /\ events'[i].kind = kind
        \/ Spared(f)'
  <2>1. \E kind \in {"create", "modify"} : events' = Emitted(In[f], f, kind, "user")
    BY Zenon DEF UserEdit
  <2>2. PICK kind \in {"create", "modify"} : events' = Emitted(In[f], f, kind, "user")
    BY <2>1, Zenon
  <2>3. Lost(f) \subseteq race'
    BY Zenon DEF UserEdit
  <2>4. (\E i \in DOMAIN events' : events'[i].name = f /\ events'[i].kind = kind) \/ Spared(f)'
    BY <1>4, <2>2, <2>3, Reported
  <2> QED
    BY <2>2, <2>4, Zenon
<1>6. Awaited(f, {"create", "modify"})' \/ Spared(f)'
  BY <1>5, Zenon DEF Awaited
<1> QED
  BY <1>3, <1>6, Zenon DEF Followed, Rising

\* The user deletes a file.
LEMMA DeleteSeen ==
  ASSUME Types, NEW f \in File, UserDelete(f), pc \in Booting => mask[In[f]] = "default"
  PROVE  Dropping(f)' \/ Spared(f)'
<1>1. events' = Emitted(In[f], f, "delete", "user") /\ Lost(f) \subseteq race'
  BY Zenon DEF UserDelete
<1>2. (\E i \in DOMAIN events' : events'[i].name = f /\ events'[i].kind = "delete") \/ Spared(f)'
  BY <1>1, Reported
<1> QED
  BY <1>2, Zenon DEF Dropping, Awaited

\* The peer deletes a file with its directory.
LEMMA RemoveSeen ==
  ASSUME Types, NEW f \in File, RemoveDirectory, In[f] = Te.name, Exists(f)
  PROVE  Dropping(f)' \/ Spared(f)'
<1>1. CASE mask[Te.name] = "default"
  <2>1. InQueue(f, "delete")'
    BY <1>1, RemovedStay, Zenon
  <2> QED
    BY <2>1, Zenon DEF InQueue, Dropping, Awaited
<1>2. CASE mask[Te.name] # "default"
  <2>1. <<"lost", f>> \in race'
    BY <1>2, Zenon DEF RemoveDirectory
  <2> QED
    BY <2>1, Zenon DEF Spared, Hit
<1> QED
  BY <1>1, <1>2, Zenon

\* The peer deletes a file that the tracker says is deleted: it is not in the
\* table, or the user has edited it meanwhile.
LEMMA FileRemoved ==
  ASSUME Types, OutHeld, Gone, [Next]_vars, RemoveFile, NEW f \in File, Te.name = f
  PROVE  Versions(f)' = {} \/ Spared(f)'
<1>1. pc = "remove" /\ <<"removed", f>> \in race'
  BY Zenon DEF RemoveFile, Goto
<1>2. CASE Touched(f)
  <2>1. Edited(f)' \/ Spared(f)'
    BY <1>2, SparedKept, Zenon DEF Touched, Spared, Hit
  <2> QED
    BY <1>1, <2>1, Zenon DEF Spared, Hit
<1>3. CASE Hit(f, {"cut", "scanned"})
  <2>1. Spared(f)
    BY <1>3, Zenon DEF Spared, Hit
  <2> QED
    BY <2>1, SparedKept, Zenon
<1>4. CASE Noted(f)
  <2>1. otab \in Seq(TransEntry) /\ otab # << >>
    BY <1>4, Zenon DEF Noted, Types, ObsOK
  <2>2. Len(otab) \in DOMAIN otab
    BY <2>1
  <2>3. Touched(f)
    BY <1>4, <2>2, Zenon DEF OutHeld, Noted, Mte
  <2> QED
    BY <1>2, <2>3, Zenon
<1>5. CASE Matches(f) = {} /\ ~Noted(f)
  <2>1. Versions(f) = {}
    BY <1>5, Zenon DEF Versions
  <2> QED
    BY <2>1, UserVersions, Zenon
<1> QED
  BY <1>1, <1>2, <1>3, <1>4, <1>5, Zenon DEF Gone

\* A file that is not there has no version and no time.
LEMMA Empty ==
  ASSUME NEW n \in Nat, NEW e \in Nat, NEW x, x = [content |-> Absent, mtime |-> 0]
  PROVE  x.content = Absent /\ x.mtime = 0 /\ x.mtime <= n + e
BY DEF Absent

\* Files that were never fetched follow the user.
LEMMA LocalStep ==
  ASSUME Types, OutHeld, OneEntryPerName, Monitoring, Early, Gone, Local, [Next]_vars
  PROVE  Local'
<1>1. ASSUME NEW f \in File, ~Fetched(f)'
      PROVE  /\ disk'[f].content = disk'[f].mtime /\ disk'[f].mtime <= Now + edits'
             /\ \A t \in Versions(f)' : t <= Now + edits' /\ (Followed(f, t)' \/ Spared(f)')
  <2> DEFINE empty == [content |-> Absent, mtime |-> 0]
  <2>1. /\ ~Fetched(f) /\ disk[f].content = disk[f].mtime /\ disk[f].mtime \in Nat
        /\ disk[f].mtime <= Now + edits /\ edits \in Nat /\ edits' \in Nat /\ edits <= edits'
    BY <1>1, NotFetched, Zenon
  <2>2. \A t \in Versions(f)' : t <= Now + edits'
    BY <1>1, VersionsOld, Zenon
  <2>3. disk \in [File -> OnDiskFile]
    BY Zenon DEF Types, SysOK
  <2>4. CASE disk'[f] = disk[f]
    <3>1. disk'[f].mtime <= Now + edits'
      BY <2>1, <2>4, Above, BoundAssumption, Zenon
    <3>2. \A t \in Versions(f)' : Followed(f, t)' \/ Spared(f)'
      BY <1>1, <2>4, LocalKept, Zenon
    <3> QED
      BY <2>1, <2>2, <2>4, <3>1, <3>2, Zenon
  <2>5. CASE UserEdit(f)
    <3>1. disk'[f] = [content |-> Now + edits + 1, mtime |-> Now + edits + 1] /\ edits' = edits + 1
      BY <2>3, <2>5, Zenon DEF UserEdit
    <3>2. disk'[f].content = disk'[f].mtime /\ disk'[f].mtime <= Now + edits'
      BY <2>1, <3>1, BoundAssumption
    <3>3. \A t \in Versions(f)' : Followed(f, t)' \/ Spared(f)'
      BY <1>1, <2>5, LocalEdit, Zenon
    <3> QED
      BY <2>2, <3>2, <3>3, Zenon
  <2>6. ASSUME disk'[f] = empty, Dropping(f)' \/ Spared(f)' \/ Versions(f)' = {}
        PROVE  /\ disk'[f].content = disk'[f].mtime /\ disk'[f].mtime <= Now + edits'
               /\ \A t \in Versions(f)' : t <= Now + edits' /\ (Followed(f, t)' \/ Spared(f)')
    <3>1. disk'[f].content = Absent /\ disk'[f].mtime = 0 /\ disk'[f].mtime <= Now + edits'
      BY <2>1, <2>6, Empty, BoundAssumption, Zenon
    <3> QED
      BY <2>2, <2>6, <3>1, Zenon DEF Followed, Absent
  <2>7. CASE UserDelete(f)
    <3>1. disk'[f] = empty
      BY <2>3, <2>7, Zenon DEF UserDelete
    <3>2. CASE Versions(f) = {}
      <4>1. Versions(f)' = {}
        BY <2>7, <3>2, UserVersions, Zenon
      <4> QED
        BY <2>6, <3>1, <4>1, Zenon
    <3>3. CASE Versions(f) # {}
      <4>1. pc \in Booting => mask[In[f]] = "default"
        BY <3>3, Zenon DEF Early
      <4>2. Dropping(f)' \/ Spared(f)'
        BY <2>7, <4>1, DeleteSeen, Zenon
      <4> QED
        BY <2>6, <3>1, <4>2, Zenon
    <3> QED
      BY <3>2, <3>3, Zenon
  <2>8. CASE RemoveFile /\ Te.name = f
    <3>1. disk'[f] = empty
      BY <2>3, <2>8, Zenon DEF RemoveFile
    <3>2. Versions(f)' = {} \/ Spared(f)'
      BY <2>8, FileRemoved, Zenon
    <3> QED
      BY <2>6, <3>1, <3>2, Zenon
  <2>9. CASE RemoveDirectory /\ Te.name = In[f]
    <3>1. disk'[f] = empty
      BY <2>9, Zenon DEF RemoveDirectory
    <3>2. CASE Exists(f)
      <4>1. Dropping(f)' \/ Spared(f)'
        BY <2>9, <3>2, RemoveSeen, Zenon
      <4> QED
        BY <2>6, <3>1, <4>1, Zenon
    <3>3. CASE ~Exists(f)
      <4>1. disk[f].content = Absent
        BY <3>3, DirAssumption, Zenon DEF Exists
      <4>2. disk'[f].content = Absent /\ disk'[f].mtime = 0 /\ disk'[f].mtime <= Now + edits'
        BY <2>1, <3>1, Empty, BoundAssumption, Zenon
      <4>3. \A t \in Versions(f)' : Followed(f, t)' \/ Spared(f)'
        BY <1>1, <4>1, <4>2, LocalKept, Zenon
      <4> QED
        BY <2>2, <4>1, <4>2, <4>3, Zenon DEF Absent
    <3> QED
      BY <3>2, <3>3, Zenon
  <2>10. ASSUME NEW k \in Task, OpenFile(k) \/ FetchFile(k) \/ StampFile(k), NameOf(k) = f
         PROVE  Fetched(f)
    <3>1. dpc[k] # "idle"
      BY <2>10, Zenon DEF OpenFile, FetchFile, StampFile, Step
    <3> QED
      BY <2>10, <3>1, Zenon DEF Fetched
  <2> QED
    BY <2>1, <2>4, <2>5, <2>7, <2>8, <2>9, <2>10, DiskOf, Zenon
<1> QED
  BY <1>1, Zenon DEF Local

-----------------------------------------------------------------------------
(* Files that are fetched.                                                 *)

\* The first download of a file is one of the entry that the table has for it.
LEMMA FirstFetch ==
  ASSUME Types, OneEntryPerName', [Next]_vars, NEW f \in File, ~Fetched(f), Fetched(f)',
         NEW i \in live', ent'[i].name = f
  PROVE  Under(i)' \/ Spared(f)'
<1>1. PICK k \in Task : dpc'[k] # "idle" /\ ent'[dfe'[k]].name = f
  BY Zenon DEF Fetched, NameOf
<1>2. dpc[k] = "idle"
  <2>1. dpc[k] # "idle" => ent[dfe[k]].name = f
    BY <1>1, NamesKept, Zenon DEF KeepNames, NameOf
  <2> QED
    BY <2>1, Zenon DEF Fetched, NameOf
<1>3. dpc'[k] = "name" /\ dfe'[k] \in live'
  BY <1>1, <1>2, Started, Zenon
<1>4. dfe'[k] = i \/ Hit(f, {"cut", "scanned"})'
  BY <1>1, <1>3, Zenon DEF OneEntryPerName, Hit
<1> QED
  BY <1>3, <1>4, Zenon DEF Under, Over, Spared, Hit

\* A download that is under way stays so until the file has the version of the
\* entry.
LEMMA UnderStep ==
  ASSUME Types, Current, [Next]_vars, NEW f \in File, NEW i \in live, ent[i].name = f, Under(i)
  PROVE  Under(i)' \/ Spared(f)' \/ disk'[f].content = ent[i].timestamp
<1>a. disk \in [File -> OnDiskFile] /\ dpc \in [Task -> Places]
  BY Zenon DEF Types, SysOK, DlOK
<1>1. ASSUME NEW k \in Task, dfe[k] = i, dpc[k] \notin Over \cup {"fetch"}
      PROVE  Under(i)'
  <2>1. NameOf(k) \in File
    BY <1>1, Zenon DEF NameOf
  <2>2. dfe'[k] = i /\ (OpenFile(k) \/ dpc'[k] \notin Over)
    BY <1>1, <2>1, NotBegun, Zenon
  <2>3. OpenFile(k) => dpc'[k] \in {"fetch", "fail"}
    <3>1. Verdict(-1) = "fail"
      BY DEF Verdict
    <3> QED
      BY <1>a, <3>1, Zenon DEF OpenFile, Step
  <2> QED
    BY <2>2, <2>3, Zenon DEF Under, Over
<1>2. ASSUME NEW k \in Task, dfe[k] = i, dpc[k] = "fetch"
      PROVE  Under(i)' \/ Spared(f)' \/ disk'[f].content = ent[i].timestamp
  <2>1. NameOf(k) = f /\ dfe'[k] = i
    BY <1>2, NamesKept, Zenon DEF KeepNames, NameOf
  <2>2. CASE FetchFile(k)
    <3>1. CASE disk' = [disk EXCEPT ![f].content = dver[k]]
      <4>1. disk'[f].content = dver[k]
        BY <1>a, <3>1 DEF OnDiskFile
      <4>2. CASE dver[k] = ent[i].timestamp
        BY <4>1, <4>2, Zenon
      <4>3. CASE Spared(f)
        BY <4>3, SparedKept, Zenon
      <4> QED
        BY <1>1, <1>2, <2>1, <4>2, <4>3, Zenon DEF Current
    <3>2. CASE <<"masked", f>> \in race'
      BY <3>2, Zenon DEF Spared, Hit
    <3>3. CASE \E to \in {Verdict(-1), "hung"} : Step(k, "fetch", to)
      <4>1. dpc'[k] \in {"fail", "hung"}
        BY <1>a, <3>3 DEF Step, Verdict
      <4> QED
        BY <2>1, <4>1, Zenon DEF Under, Over
    <3> QED
      BY <2>1, <2>2, <3>1, <3>2, <3>3, Zenon DEF FetchFile
  <2>3. CASE dpc'[k] = dpc[k]
    BY <1>2, <2>1, <2>3, Zenon DEF Under, Over
  <2> QED
    BY <1>2, <2>2, <2>3, Moves, Zenon DEF OpenFile, OpenDirectory, Block, Step, Over, Writing
<1> QED
  BY <1>1, <1>2, Zenon DEF Under

\* The version that an edit makes is one of the edits.
LEMMA EditRange ==
  ASSUME NEW n \in Nat, NEW e \in Nat, NEW x, x = e + 1
  PROVE  n + e + 1 \in n + 1 .. n + x
OBVIOUS

\* A fetched file that has the version of its entry keeps it, or a deletion of it
\* is to be handled, or a download of it is under way.
LEMMA SettledStep ==
  ASSUME TableInv, OneEntryPerName, Gone, Current, [Next]_vars,
         NEW f \in File, Fetched(f), NEW i \in live, ent[i].name = f, Matches(f)' # {},
         disk[f].content = ent[i].timestamp
  PROVE  disk'[f].content = ent[i].timestamp \/ Dropping(f)' \/ Under(i)' \/ Spared(f)'
<1>a. Types /\ Boot /\ OutHeld /\ disk \in [File -> OnDiskFile] /\ dpc \in [Task -> Places]
  BY Zenon DEF TableInv, Types, SysOK, DlOK
<1>b. pc \notin Booting
  BY <1>a, Zenon DEF Boot, Fetched, Booting
<1>c. Versions(f)' # {}
  BY Zenon DEF Versions
<1>1. CASE UserEdit(f)
  <2>1. edits \in Nat /\ edits' = edits + 1 /\ <<f, Now + edits + 1>> \in held'
    BY <1>1, <1>a, BoundAssumption DEF UserEdit, Types, HistOK
  <2>2. Now + edits + 1 \in Now + 1 .. Now + edits'
    BY <2>1, EditRange, BoundAssumption, Zenon
  <2>3. Edited(f)' /\ Fetched(f)'
    BY <1>a, <2>1, <2>2, ExcusesKept, Zenon DEF Edited
  <2> QED
    BY <2>3, Zenon DEF Spared, Conflict
<1>2. CASE UserDelete(f)
  BY <1>2, <1>a, <1>b, DeleteSeen, Zenon
<1>3. CASE RemoveFile /\ Te.name = f
  BY <1>3, <1>a, <1>c, FileRemoved, Zenon
<1>4. CASE RemoveDirectory /\ Te.name = In[f]
  <2>1. CASE Exists(f)
    BY <1>4, <1>a, <2>1, RemoveSeen, Zenon
  <2>2. CASE ~Exists(f)
    <3>1. disk[f].content = Absent
      BY <2>2, DirAssumption, Zenon DEF Exists
    <3>2. disk'[f] = [content |-> Absent, mtime |-> 0]
      BY <1>4, Zenon DEF RemoveDirectory
    <3>3. disk'[f].content = Absent
      BY <3>2, Empty, BoundAssumption, Zenon
    <3> QED
      BY <3>1, <3>3, Zenon
  <2> QED
    BY <2>1, <2>2, Zenon
<1>5. ASSUME NEW k \in Task, OpenFile(k) \/ FetchFile(k) \/ StampFile(k), NameOf(k) = f
      PROVE  disk'[f].content = ent[i].timestamp \/ Under(i)' \/ Spared(f)'
  <2>1. dfe[k] \in live /\ dpc[k] # "idle"
    BY <1>5, Zenon DEF OpenFile, FetchFile, StampFile, Step
  <2>2. CASE Hit(f, {"cut", "scanned"})
    <3>1. Spared(f)
      BY <2>2, Zenon DEF Spared, Hit
    <3> QED
      BY <1>a, <3>1, SparedKept, Zenon
  <2>3. CASE dfe[k] = i /\ dpc[k] \notin Over
    BY <1>a, <2>3, UnderStep, Zenon DEF Under
  <2>4. CASE StampFile(k)
    <3>1. disk' = disk \/ disk' = [disk EXCEPT ![f].mtime = ent[dfe[k]].timestamp]
      BY <1>5, <2>4, Zenon DEF StampFile
    <3>2. disk'[f].content = disk[f].content
      BY <1>a, <3>1 DEF OnDiskFile
    <3> QED
      BY <3>2, Zenon
  <2>5. OpenFile(k) \/ FetchFile(k) => dpc[k] \notin Over
    BY Zenon DEF OpenFile, FetchFile, Step, Over
  <2>6. dfe[k] = i \/ Hit(f, {"cut", "scanned"})
    BY <1>5, <2>1, Zenon DEF OneEntryPerName, NameOf
  <2> QED
    BY <1>5, <2>2, <2>3, <2>4, <2>5, <2>6, Zenon
<1>6. CASE disk'[f] = disk[f]
  BY <1>6, Zenon
<1> QED
  BY <1>a, <1>1, <1>2, <1>3, <1>4, <1>5, <1>6, DiskOf, Zenon

\* Files that are fetched follow their downloads.
LEMMA RemoteStep ==
  ASSUME TableInv, OneEntryPerName, OneEntryPerName', Monitoring, Gone, Current, Remote, [Next]_vars
  PROVE  Remote'
<1>a. Types /\ Boot /\ OutHeld
  BY Zenon DEF TableInv
<1>1. ASSUME NEW f \in File, Fetched(f)', ~Spared(f)', NEW i \in live', ent'[i].name = f
      PROVE  disk'[f].content = ent'[i].timestamp \/ Dropping(f)' \/ Under(i)'
  <2>1. CASE ~Fetched(f)
    BY <1>1, <1>a, <2>1, FirstFetch, Zenon
  <2>2. CASE Fetched(f)
    <3>a. ~Spared(f) /\ i \in Matches(f)'
      BY <1>1, <1>a, SparedKept, Zenon DEF Matches
    <3>1. CASE i \in live /\ ent'[i].timestamp = ent[i].timestamp /\ ent[i].name = f
      <4>1. CASE disk[f].content = ent[i].timestamp
        BY <1>1, <2>2, <3>a, <3>1, <4>1, SettledStep, Zenon
      <4>2. CASE Dropping(f)
        <5>1. Versions(f)' # {}
          BY <3>a, Zenon DEF Versions
        <5> QED
          BY <1>1, <1>a, <4>2, <5>1, DropStep, Zenon
      <4>3. CASE Under(i)
        BY <1>1, <1>a, <3>1, <4>3, UnderStep, Zenon
      <4> QED
        BY <2>2, <3>a, <3>1, <4>1, <4>2, <4>3, Zenon DEF Remote, Matches
    <3>2. CASE Spawn(i)
      <4>1. PICK k \in Task : dpc'[k] = "name" /\ dfe'[k] = i
        BY <1>a, <3>2, SpawnFetched, Zenon
      <4> QED
        BY <4>1, Zenon DEF Under, Over
    <3>3. CASE Scan
      <4>1. pc = "scan"
        BY <3>3, Zenon DEF Scan, Goto
      <4> QED
        BY <1>a, <2>2, <4>1, Zenon DEF Boot, Fetched
    <3>4. CASE TableEvent /\ Mte.name = f /\ Mte.op # FILE_DELETE
      <4>1. otab \in Seq(TransEntry) /\ otab # << >>
        BY <1>a, <3>4, Zenon DEF TableEvent, MonitorAt, Types, ObsOK
      <4>2. Len(otab) \in DOMAIN otab
        BY <4>1
      <4>3. Touched(f)
        BY <1>a, <3>4, <4>2, Zenon DEF OutHeld, Mte
      <4> QED
        BY <2>2, <3>a, <4>3, TouchedSpared, Zenon
    <3> QED
      BY <1>1, <1>a, <3>1, <3>2, <3>3, <3>4, EntryStep, Zenon
  <2> QED
    BY <2>1, <2>2, Zenon
<1> QED
  BY <1>1, Zenon DEF Remote, Matches

-----------------------------------------------------------------------------
(* The invariant.                                                          *)

\* It holds at the start: the table is empty, and no file is from the future.
LEMMA SyncInvInit == Init => SyncInv
<1> SUFFICES ASSUME Init
             PROVE  SyncInv
  BY Zenon
<1>a. live = {} /\ events = << >> /\ batch = << >> /\ opc = "watch" /\ pc = "winit" /\ ent = << >>
      /\ \A k \in Task : dpc[k] = "idle"
  BY Zenon DEF Init
<1>b. DOMAIN events = {} /\ DOMAIN batch = {}
  BY <1>a
<1>c. \A f : Matches(f) = {} /\ Versions(f) = {} /\ ~Fetched(f)
  BY <1>a, Zenon DEF Matches, Versions, Noted, Fetched
<1>1. TableInv
  BY TableInvInit, Zenon
<1>2. OneEntryPerName
  BY <1>a, Zenon DEF OneEntryPerName
<1>3. Monitoring
  <2>1. \A d \in Dir : mask[d] # "default"
    BY Zenon DEF Init
  <2> QED
    BY <1>a, <2>1, Zenon DEF Monitoring
<1>4. Early
  BY <1>b, <1>c, Zenon DEF Early
<1>5. Sole /\ Gone /\ Current /\ Remote
  BY <1>a, <1>c, Zenon DEF Sole, Gone, Current, Remote, Writing
<1>6. Local
  <2>1. ASSUME NEW f \in File
        PROVE  disk[f].content = disk[f].mtime /\ disk[f].mtime <= Now + edits
    <3>1. disk[f] = [content |-> OnDisk[f], mtime |-> OnDisk[f]]
      BY Zenon DEF Init
    <3>2. edits \in Nat /\ OnDisk[f] \in Nat /\ OnDisk[f] <= Now
      BY <1>1, DiskAssumption, TimeAssumption, BoundAssumption DEF TableInv, Types, HistOK
    <3>3. disk[f].content = OnDisk[f] /\ disk[f].mtime = OnDisk[f]
      BY <3>1
    <3>4. OnDisk[f] <= Now + edits
      BY <3>2, BoundAssumption
    <3> QED
      BY <3>3, <3>4, Zenon
  <2> QED
    BY <1>c, <2>1, Zenon DEF Local
<1> QED
  BY <1>1, <1>2, <1>3, <1>4, <1>5, <1>6, Zenon DEF SyncInv

\* Every step keeps it.
LEMMA SyncInvStep == SyncInv /\ [Next]_vars => SyncInv'
<1> SUFFICES ASSUME SyncInv, [Next]_vars
             PROVE  SyncInv'
  BY Zenon
<1>1. /\ TableInv /\ OneEntryPerName /\ Monitoring /\ Early /\ Sole /\ Gone /\ Current /\ Local /\ Remote
      /\ Types /\ Boot /\ Locks /\ Masks /\ OutHeld
  BY Zenon DEF SyncInv, TableInv
<1>2. TableInv' /\ Boot'
  BY <1>1, TableInvStep, Zenon DEF TableInv
<1>3. OneEntryPerName'
  BY <1>1, OneEntryStep, Zenon
<1>4. Monitoring' /\ Early'
  BY <1>1, <1>2, MonitoringStep, EarlyStep, Zenon
<1>5. Sole' /\ Gone' /\ Current'
  BY <1>1, SoleStep, GoneStep, CurrentStep, Zenon
<1>6. Local'
  BY <1>1, LocalStep, Zenon
<1>7. Remote'
  BY <1>1, <1>3, RemoteStep, Zenon
<1> QED
  BY <1>2, <1>3, <1>4, <1>5, <1>6, <1>7, Zenon DEF SyncInv

\* At rest nothing is left to be handled: no event, no entry at the table, no
\* download under way but the ones that failed.
LEMMA SyncConverged == SyncInv => Converged
<1> SUFFICES ASSUME SyncInv, Quiet, NEW i \in live, ent[i].name \in File
             PROVE  \/ disk[ent[i].name].content = ent[i].timestamp \/ Spared(ent[i].name)
                    \/ \E k \in Task : dfe[k] = i /\ dpc[k] = "failed"
  BY Zenon DEF Converged, Spared, Hit
<1> DEFINE f == ent[i].name
<1>1. opc = "read" /\ events = << >> /\ \A k \in Task : dpc[k] \in {"idle", "done", "failed"}
  BY Zenon DEF Quiet
<1>2. batch = << >>
  BY <1>1, Zenon DEF SyncInv, Monitoring
<1>3. DOMAIN events = {} /\ DOMAIN batch = {}
  BY <1>1, <1>2
<1>4. ~Dropping(f) /\ ~Rising(f)
  BY <1>1, <1>3, Zenon DEF Dropping, Rising, Awaited, Noted
<1>5. i \in Matches(f) /\ ent[i].timestamp \in Versions(f)
  BY Zenon DEF Matches, Versions
<1>6. CASE Fetched(f)
  <2>1. Under(i) => \E k \in Task : dfe[k] = i /\ dpc[k] = "failed"
    BY <1>1, Zenon DEF Under, Over
  <2> QED
    BY <1>4, <1>5, <1>6, <2>1, Zenon DEF SyncInv, Remote
<1>7. CASE ~Fetched(f)
  BY <1>4, <1>5, <1>7, Zenon DEF SyncInv, Local, Followed
<1> QED
  BY <1>6, <1>7, Zenon

\* Once the receiver, the monitor and the downloads have come to rest, a file on
\* disk is the version that the table has for it, whatever order broadcasts,
\* events and downloads came in, with the exceptions of Converged.
THEOREM ClientConverged == Spec => []Converged
BY SyncInvInit, SyncInvStep, SyncConverged, PTL DEF Spec

=============================================================================
