------------------------------- MODULE Client -------------------------------
(***************************************************************************)
(* One peer (client/start.c, client/file_monitor.c): the thread of         *)
(* client_start, which becomes ttop_receiver_task once the peer has synced *)
(* (the two never run side by side over the tables), file_monitor_task,    *)
(* and one ptop_download_task per file to fetch, over the file table, the  *)
(* table of monitored directories and the kernel's inotify queue.          *)
(*                                                                         *)
(* A step is what a thread does under one mutex, or one system call, with  *)
(* the local work around it.  The entries of the file table and the        *)
(* targets of the monitor are modelled with their identity, because        *)
(* threads keep pointers to both; using one that was freed, or a NULL      *)
(* target, is undefined and ends in proc = "ub".                           *)
(*                                                                         *)
(* Versions of a file are timestamps.  do_download is abstracted to its    *)
(* outcomes, which module Download studies.  The user edits and deletes    *)
(* files of the directories at any moment.  The tracker's packets are a    *)
(* script.  race is a history variable: it names the races of the code by  *)
(* which a file can come to harm, and each file they hit.                  *)
(***************************************************************************)
EXTENDS FileTable, Integers, Sequences, FiniteSets

CONSTANTS
  File,       \* regular files
  Dir, Root,  \* directories: the target directory and its subdirectories
  In,         \* the directory that each file and subdirectory is in
  Ip, Me,     \* the addresses of the peers, and my_ip
  Scripts,    \* records [packets, edits]: packets [type, tft] of the tracker, in
              \* their order, and how many edits the user makes meanwhile
  OnDisk,     \* the version of each file on disk at the start, 0 for none
  DirsOnDisk, \* the directories there are at the start
  Now,        \* the time of the first local edit, later than all versions
  Editable,   \* the files that the user touches
  MaxEdit,    \* bound: local edits, deletions and new directories
  MaxTask     \* bound: download threads

Name == File \cup (Dir \ {Root})
Task == 1 .. MaxTask
Nobody == 0
Receiver == MaxTask + 1
Absent == 0
Partial == -1

ASSUME DirAssumption == Root \in Dir /\ File \cap Dir = {} /\ Root \in DirsOnDisk
ASSUME InAssumption == In \in [Name -> Dir] /\ \A d \in Dir \ {Root} : In[d] = Root
ASSUME DiskAssumption == OnDisk \in [File -> Nat] /\ DirsOnDisk \subseteq Dir
ASSUME BoundAssumption == MaxTask \in Nat /\ MaxEdit \in Nat /\ Now \in Nat

\* no file on disk at the start is from the future
ASSUME TimeAssumption == \A f \in File : OnDisk[f] <= Now

\* the entries of a trans_file_table, and the packets of the tracker
TransEntry == [op : OpType, name : Name, timestamp : Nat, owners : SUBSET Ip]
TtopPacket == [type : STRING, tft : Seq(TransEntry)]

ASSUME FileAssumption == IsFiniteSet(File) /\ Editable \subseteq File /\ Me \in Ip
ASSUME ScriptAssumption ==
  \A s \in Scripts : s.packets \in Seq(TtopPacket) /\ s.edits \in 0 .. MaxEdit

VARIABLES
  ent,     \* every file entry ever allocated: [name, timestamp, owners]
  live,    \* the entries (indices of ent) linked in the file table
  cut,     \* the entries whose name is cut short by get_file_target
  tgt,     \* the monitor target of each directory: its generation, or 0
  gen,     \* how many targets a directory has had
  tmx,     \* who holds the mutex of a directory's target
  mMutex,  \* who holds m_table.mutex across steps
  disk,    \* the files: version of the content, and modification time
  dirs,    \* the directories
  mask,    \* the inotify watch of a directory: "none", "default", "blocked"
  events,  \* the inotify queue
  pc,      \* where client_start / ttop_receiver_task stands
  status,  \* targ.wait.status
  todo,    \* the names to scan, then the entries of the packet to apply
  fe, rtg, \* its locals: an entry, and the target it has blocked
  sub,     \* local target of file_monitor_rmdir
  opc,     \* where file_monitor_task stands
  batch,   \* the events it has read
  otab,    \* tft, the table it will send
  dpc,     \* where each ptop_download_task stands
  dfe,     \* its argument
  dtg,     \* its local target
  dver,    \* the version it is fetching
  in,      \* packets of the tracker not yet received
  told,    \* what this peer has told the tracker in PEER_FILE_UPDATEs
  held,    \* history: the versions that were whole on this disk
  race,    \* history: <<cause, name>>
  edits,   \* counts the local edits up to MaxEdit
  proc     \* "up", "exit" or "ub"

tabVars == <<ent, live, cut>>
monVars == <<tgt, gen, tmx, mMutex>>
sysVars == <<disk, dirs, mask, events>>
rcvVars == <<pc, status, todo, fe, rtg, sub, in>>
obsVars == <<opc, batch, otab>>
dlVars  == <<dpc, dfe, dtg, dver>>
histVars == <<told, held, race>>
vars == <<tabVars, monVars, sysVars, rcvVars, obsVars, dlVars, histVars, edits, proc>>

Init ==
  /\ ent = << >> /\ live = {} /\ cut = {}
  /\ tgt = [d \in Dir |-> 0] /\ gen = tgt
  /\ tmx = [d \in Dir |-> Nobody] /\ mMutex = Nobody
  /\ disk = [f \in File |-> [content |-> OnDisk[f], mtime |-> OnDisk[f]]]
  /\ dirs = DirsOnDisk
  /\ mask = [d \in Dir |-> "none"] /\ events = << >>
  /\ pc = "winit" /\ status = "none" /\ todo = << >>
  /\ fe = 0 /\ rtg = 0 /\ sub = 0
  /\ \E s \in Scripts : in = s.packets /\ edits = MaxEdit - s.edits
  /\ opc = "watch" /\ batch = << >> /\ otab = << >>
  /\ dpc = [k \in Task |-> "idle"] /\ dfe = [k \in Task |-> 0]
  /\ dtg = dfe /\ dver = dfe
  /\ told = {} /\ race = {} /\ proc = "up"
  /\ held = {<<f, OnDisk[f]>> : f \in {g \in File : OnDisk[g] # Absent}}

Up == proc = "up"
Undefined == proc' = "ub"
Exists(n) == IF n \in Dir THEN n \in dirs ELSE disk[n].content # Absent

-----------------------------------------------------------------------------
(* The file table, with entries that have an identity.                     *)

\* __file_table_search: the newest entry of the bucket whose name reads n
Matches(n) == {i \in live : ent[i].name = n}
Search(n, i) ==
  LET found == Matches(n) \ cut
  IN  \/ found = {} /\ i = 0
      \/ i \in found /\ \A j \in found : j <= i

\* a search passes over an entry that is there, its name being cut
Missed(n) == IF Matches(n) \cap cut # {} THEN {<<"cut", n>>} ELSE {}

NewEntry(te) == [name |-> te.name, timestamp |-> te.timestamp, owners |-> te.owners]

\* mutant: an entry that is there is freed and made anew
AddEntry_anew(te, i) ==
  \E found \in 0 .. Len(ent) :
    /\ Search(te.name, found) /\ i = Len(ent) + 1
    /\ ent' = Append(ent, NewEntry(te)) /\ live' = (live \ {found}) \cup {i}

\* mutant: no search
AddEntry_twice(te, i) ==
  i = Len(ent) + 1 /\ ent' = Append(ent, NewEntry(te)) /\ live' = live \cup {i}

\* file_table_add(&ft, te) returns entry i
AddEntry(te, i) ==
  \E found \in 0 .. Len(ent) :
    /\ Search(te.name, found)
    /\ \/ /\ found = 0 /\ i = Len(ent) + 1
          /\ ent' = Append(ent, NewEntry(te)) /\ live' = live \cup {i}
       \/ /\ found # 0 /\ i = found
          /\ ent' = [ent EXCEPT ![i].timestamp = file_entry_update(ent[i], te).timestamp,
                                ![i].owners = file_entry_update(ent[i], te).owners]
          /\ UNCHANGED live

\* file_table_update(&ft, te): an entry that is not found is logged
UpdateEntry(te) ==
  \E found \in 0 .. Len(ent) :
    /\ Search(te.name, found)
    /\ IF found = 0 THEN UNCHANGED ent
       ELSE ent' = [ent EXCEPT ![found].timestamp = file_entry_update(ent[found], te).timestamp,
                               ![found].owners = file_entry_update(ent[found], te).owners]
    /\ UNCHANGED live

\* file_table_delete(&ft, te) frees the entry
DeleteEntry(n) ==
  \E found \in 0 .. Len(ent) :
    /\ Search(n, found)
    /\ live' = live \ {found}
    /\ UNCHANGED ent

-----------------------------------------------------------------------------
(* The monitor's table and the kernel behind it.                           *)

\* the queue once something happened to n in directory d
Emitted(d, n, kind, by) ==
  IF mask[d] = "default"
  THEN Append(events, [dir |-> d, tid |-> tgt[d], name |-> n, kind |-> kind, by |-> by])
  ELSE events

\* inotify_add_watch on a path that is gone fails: target->wd becomes -1
Watched(d, m) == [mask EXCEPT ![d] = IF d \in dirs THEN m ELSE "lost"]

\* the downloads that a change of d's watch to the default mask lays open
Writing == {"open", "fetch"}
NameOf(k) == ent[dfe[k]].name
Exposed(D) == {<<"exposed", NameOf(k)>> :
                 k \in {j \in Task : dpc[j] \in Writing /\ In[NameOf(j)] \in D}}

\* mutant: a new target passes for the one before it
TargetAdd_again(d) == tgt' = [tgt EXCEPT ![d] = gen[d] + 1] /\ UNCHANGED gen

\* watch_target_add on a directory that exists: its target, old or new
TargetAdd(d) ==
  /\ tgt' = [tgt EXCEPT ![d] = IF @ = 0 THEN gen[d] + 1 ELSE @]
  /\ gen' = [gen EXCEPT ![d] = IF tgt[d] = 0 THEN @ + 1 ELSE @]

\* __unwatch_and_free_target: a target with wd = -1 writes outside targets[]
FreeTarget(d) ==
  /\ tgt' = [tgt EXCEPT ![d] = 0]
  /\ tmx' = [tmx EXCEPT ![d] = Nobody]
  /\ mask' = [mask EXCEPT ![d] = "none"]
  /\ proc' = IF mask[d] = "lost" THEN "ub" ELSE proc
  /\ UNCHANGED <<gen, mMutex>>

\* mutants: no mutex is taken; the watch keeps reporting
BlockTarget_nolock(d, t, who) ==
  /\ tgt[d] = t
  /\ tmx' = [tmx EXCEPT ![d] = who]
  /\ mask' = Watched(d, "blocked")
  /\ UNCHANGED <<tgt, gen, mMutex, disk, dirs, events>>
BlockTarget_nomask(d, t, who) ==
  /\ tgt[d] = t /\ tmx[d] = Nobody
  /\ tmx' = [tmx EXCEPT ![d] = who]
  /\ UNCHANGED <<tgt, gen, mMutex, disk, dirs, events, mask>>

\* the end of file_monitor_block for a target t of d found earlier
BlockTarget(d, t, who) ==
  /\ tgt[d] = t /\ tmx[d] = Nobody
  /\ tmx' = [tmx EXCEPT ![d] = who]
  /\ mask' = Watched(d, "blocked")
  /\ UNCHANGED <<tgt, gen, mMutex, disk, dirs, events>>

\* file_monitor_unblock
UnblockTarget(d, t) ==
  /\ tgt[d] = t
  /\ tmx' = [tmx EXCEPT ![d] = Nobody]
  /\ mask' = Watched(d, "default")
  /\ UNCHANGED <<tgt, gen, mMutex, disk, dirs, events>>

-----------------------------------------------------------------------------
(* ptop_download_task, thread k.                                           *)

Step(k, from, to) == Up /\ dpc[k] = from /\ dpc' = [dpc EXCEPT ![k] = to]

\* mutant: what failed is announced as well
Verdict_ignored(ret) == "stamp"

\* only ret = 0 is stamped and announced
Verdict(ret) == IF ret = 0 THEN "stamp" ELSE "fail"

\* a thread reads memory that was freed
UseAfterFree(k) ==
  /\ Up /\ Undefined
  /\ \/ dpc[k] \in {"name", "mkdir", "open", "fetch", "stamp", "notify"} /\ dfe[k] \notin live
     \/ dpc[k] \in {"lock", "unblock", "fail"} /\ tgt[In[NameOf(k)]] # dtg[k]
  /\ UNCHANGED <<tabVars, monVars, sysVars, rcvVars, obsVars, dlVars, histVars, edits>>

\* get_file_target cuts fe->name at its last '/' under m_table.mutex ...
CutName(k) ==
  /\ Step(k, "name", "found")
  /\ dfe[k] \in live /\ mMutex = Nobody
  /\ mMutex' = k /\ cut' = cut \cup {dfe[k]}
  /\ UNCHANGED <<ent, live, tgt, gen, tmx, sysVars, rcvVars, obsVars, dfe, dtg, dver,
                 histVars, edits, proc>>

\* ... looks for the directory's target, and puts the '/' back
FindTarget(k) ==
  LET t == tgt[In[NameOf(k)]]
  IN  /\ Step(k, "found", IF t = 0 THEN "mkdir" ELSE "lock")
      /\ mMutex' = Nobody /\ cut' = cut \ {dfe[k]}
      /\ dtg' = [dtg EXCEPT ![k] = t]
      /\ UNCHANGED <<ent, live, tgt, gen, tmx, sysVars, rcvVars, obsVars, dfe, dver,
                     histVars, edits, proc>>

\* file_monitor_block makes the directory: the parent's watch is blocked for
\* the mkdir and then set back to the default, whoever holds its mutex
MakeDirectory(k) ==
  LET d == In[NameOf(k)]
      found == d # Root /\ tgt[Root] # 0
  IN  /\ Step(k, "mkdir", IF found THEN "lock" ELSE "failed")
      /\ dfe[k] \in live /\ mMutex = Nobody
      /\ IF found
         THEN /\ dirs' = dirs \cup {d}
              /\ mask' = [mask EXCEPT ![Root] = "default", ![d] = "default"]
              /\ TargetAdd(d) /\ dtg' = [dtg EXCEPT ![k] = tgt'[d]]
              /\ race' = race \cup Exposed({Root, d})
         ELSE UNCHANGED <<dirs, mask, tgt, gen, dtg, race>>
      /\ UNCHANGED <<tabVars, tmx, mMutex, disk, events, rcvVars, obsVars, dfe, dver,
                     told, held, edits, proc>>

Block(k) ==
  /\ Step(k, "lock", "open")
  /\ BlockTarget(In[NameOf(k)], dtg[k], k)
  /\ UNCHANGED <<tabVars, rcvVars, obsVars, dfe, dtg, dver, histVars, edits, proc>>

\* do_download opens the file with O_CREAT | O_TRUNC; no owner, no download
OpenFile(k) ==
  LET f == NameOf(k)
      opened == In[f] \in dirs
  IN  /\ dfe[k] \in live /\ f \in File
      /\ Step(k, "open", IF opened /\ ent[dfe[k]].owners # {} THEN "fetch" ELSE Verdict(-1))
      /\ dver' = [dver EXCEPT ![k] = ent[dfe[k]].timestamp]
      /\ IF opened
         THEN /\ disk' = [disk EXCEPT ![f] = [content |-> Partial, mtime |-> Now]]
              /\ events' = Emitted(In[f], f, IF Exists(f) THEN "modify" ELSE "create", "peer")
         ELSE UNCHANGED <<disk, events>>
      /\ UNCHANGED <<tabVars, monVars, dirs, mask, rcvVars, obsVars, dfe, dtg,
                     histVars, edits, proc>>

\* file_monitor_mkdir for an entry that is a directory
OpenDirectory(k) ==
  LET d == NameOf(k)
  IN  /\ dfe[k] \in live /\ d \in Dir /\ mMutex = Nobody
      /\ Step(k, "open", Verdict(IF d \in dirs THEN -1 ELSE 0))
      /\ IF d \in dirs THEN UNCHANGED <<dirs, mask, events, tgt, gen, race>>
         ELSE /\ dirs' = dirs \cup {d} /\ mask' = [mask EXCEPT ![d] = "default"]
              /\ events' = Emitted(Root, d, "create", "peer")
              /\ TargetAdd(d) /\ race' = race \cup Exposed({d})
      /\ UNCHANGED <<tabVars, tmx, mMutex, disk, rcvVars, obsVars, dfe, dtg, dver,
                     told, held, edits, proc>>

\* the rest of do_download: all pieces, a failure, a failure that it reports
\* as success (Download!AnnouncedAllPieces), or a wait without end
FetchFile(k) ==
  LET f == NameOf(k)
  IN  /\ dfe[k] \in live
      /\ \/ /\ Step(k, "fetch", Verdict(0)) /\ Exists(f)
            /\ disk' = [disk EXCEPT ![f].content = dver[k]]
            /\ held' = held \cup {<<f, dver[k]>>}
            /\ UNCHANGED race
         \/ /\ Step(k, "fetch", Verdict(0))
            /\ race' = race \cup {<<"masked", f>>}
            /\ UNCHANGED <<disk, held>>
         \/ /\ \E to \in {Verdict(-1), "hung"} : Step(k, "fetch", to)
            /\ UNCHANGED <<disk, held, race>>
      /\ events' = IF Exists(f) THEN Emitted(In[f], f, "modify", "peer") ELSE events
      /\ UNCHANGED <<tabVars, monVars, dirs, mask, rcvVars, obsVars, dfe, dtg, dver,
                     told, edits, proc>>

\* file_change_modtime(sys_name, fe->timestamp)
StampFile(k) ==
  LET f == NameOf(k)
  IN  /\ Step(k, "stamp", "notify") /\ dfe[k] \in live
      /\ disk' = IF f \in File /\ Exists(f)
                 THEN [disk EXCEPT ![f].mtime = ent[dfe[k]].timestamp] ELSE disk
      /\ UNCHANGED <<tabVars, monVars, dirs, mask, events, rcvVars, obsVars, dfe, dtg, dver,
                     histVars, edits, proc>>

notify_tracker_add_me(k) ==
  /\ Step(k, "notify", "unblock") /\ dfe[k] \in live
  /\ told' = told \cup {[op |-> FILE_MODIFY, name |-> NameOf(k),
                         timestamp |-> ent[dfe[k]].timestamp]}
  /\ UNCHANGED <<tabVars, monVars, sysVars, rcvVars, obsVars, dfe, dtg, dver,
                 held, race, edits, proc>>

\* file_monitor_unblock, after success or failure
Unblock(k) ==
  /\ \/ Step(k, "unblock", "done")
     \/ Step(k, "fail", "failed")
  /\ UnblockTarget(In[NameOf(k)], dtg[k])
  /\ UNCHANGED <<tabVars, rcvVars, obsVars, dfe, dtg, dver, histVars, edits, proc>>

-----------------------------------------------------------------------------
(* client_start: waiting for the monitor, and sync_files.                  *)

Goto(from, to) == Up /\ pc = from /\ pc' = to

\* pthread_wait_init, after the monitor's thread was created
pthread_wait_init ==
  /\ Goto("winit", "waitFor") /\ status' = "THREAD_FAILED"
  /\ UNCHANGED <<tabVars, monVars, sysVars, todo, fe, rtg, sub, in, obsVars, dlVars,
                 histVars, edits, proc>>

\* pthread_wait_for goes to sleep, whether or not the monitor has notified
pthread_wait_for ==
  /\ Goto("waitFor", "waiting")
  /\ UNCHANGED <<tabVars, monVars, sysVars, status, todo, fe, rtg, sub, in, obsVars, dlVars,
                 histVars, edits, proc>>

\* awake: give up, or start sync_files with an empty table
Woken ==
  /\ Goto("woken", IF status = "THREAD_RUNNING" THEN "scan" ELSE "end")
  /\ proc' = IF status = "THREAD_RUNNING" THEN proc ELSE "exit"
  /\ live' = {} /\ todo' = <<Name>>
  /\ UNCHANGED <<ent, cut, monVars, sysVars, status, fe, rtg, sub, in, obsVars, dlVars,
                 histVars, edits>>

\* get_file_table_r: the next file or directory goes into the table without a
\* search, although the monitor may have put it there
Scan ==
  /\ Goto("scan", "scan")
  /\ \E n \in Head(todo) :
       /\ todo' = <<Head(todo) \ {n}>>
       /\ IF Exists(n)
          THEN /\ ent' = Append(ent, [name |-> n, owners |-> {Me},
                                      timestamp |-> IF n \in File THEN disk[n].mtime ELSE Now])
               /\ live' = live \cup {Len(ent) + 1}
               /\ race' = race \cup (IF Matches(n) # {} THEN {<<"scanned", n>>} ELSE {})
          ELSE UNCHANGED <<ent, live, race>>
  /\ UNCHANGED <<cut, monVars, sysVars, status, fe, rtg, sub, in, obsVars, dlVars,
                 told, held, edits, proc>>

\* the PEER_SYNC is sent
SendSync ==
  /\ Goto("scan", "reply") /\ Head(todo) = {} /\ todo' = << >>
  /\ UNCHANGED <<tabVars, monVars, sysVars, status, fe, rtg, sub, in, obsVars, dlVars,
                 histVars, edits, proc>>

\* the next packet has to be the TRACKER_SYNC, which file_table_sync applies
RecvSync ==
  /\ in # << >>
  /\ Goto("reply", IF Head(in).type = "TRACKER_SYNC" THEN "apply" ELSE "end")
  /\ proc' = IF Head(in).type = "TRACKER_SYNC" THEN proc ELSE "exit"
  /\ todo' = Head(in).tft /\ in' = Tail(in)
  /\ UNCHANGED <<tabVars, monVars, sysVars, status, fe, rtg, sub, obsVars, dlVars,
                 histVars, edits>>

-----------------------------------------------------------------------------
(* ttop_receiver_task, broadcast_entry_handler and file_table_sync.        *)

Recv ==
  /\ in # << >>
  /\ Goto("recv", "apply")
  /\ todo' = IF Head(in).type = "TRACKER_BROADCAST" THEN Head(in).tft ELSE << >>
  /\ in' = Tail(in)
  /\ UNCHANGED <<tabVars, monVars, sysVars, status, fe, rtg, sub, obsVars, dlVars,
                 histVars, edits, proc>>

Applied ==
  /\ Goto("apply", "recv") /\ todo = << >>
  /\ UNCHANGED <<tabVars, monVars, sysVars, status, todo, fe, rtg, sub, in, obsVars, dlVars,
                 histVars, edits, proc>>

Te == Head(todo)

\* pthread_create(ptop_download_task, i)
Spawn(i) ==
  \E k \in Task :
    /\ dpc[k] = "idle" /\ \A j \in Task : j < k => dpc[j] # "idle"
    /\ dpc' = [dpc EXCEPT ![k] = "name"] /\ dfe' = [dfe EXCEPT ![k] = i]
    /\ UNCHANGED <<dtg, dver>>

\* file_table_find
Find ==
  /\ pc = "apply" /\ todo # << >> /\ Te.op \in {FILE_ADD, FILE_MODIFY}
  /\ \E i \in 0 .. Len(ent) : Search(Te.name, i) /\ fe' = i
  /\ Goto("apply", IF fe' = 0 THEN "add" ELSE "update")
  /\ race' = race \cup Missed(Te.name)
  /\ UNCHANGED <<tabVars, monVars, sysVars, status, todo, rtg, sub, in, obsVars, dlVars,
                 told, held, edits, proc>>

\* no entry was found: file_table_add and a download
AddAndFetch ==
  /\ Goto("add", "apply") /\ todo' = Tail(todo)
  /\ \E i \in 1 .. Len(ent) + 1 : AddEntry(Te, i) /\ Spawn(i)
  /\ race' = race \cup Missed(Te.name)
  /\ UNCHANGED <<cut, monVars, sysVars, status, fe, rtg, sub, in, obsVars,
                 told, held, edits, proc>>

\* an entry was found: peer_id_list_replace, peer_id_list_remove_myself
ReplaceOwners ==
  /\ Goto("update", "compare") /\ fe \in live
  /\ ent' = [ent EXCEPT ![fe].owners = Te.owners \ {Me}]
  /\ UNCHANGED <<live, cut, monVars, sysVars, status, todo, fe, rtg, sub, in, obsVars, dlVars,
                 histVars, edits, proc>>

\* mutant: no comparison
CompareTimestamps_always ==
  /\ Goto("compare", "raise") /\ fe \in live
  /\ UNCHANGED <<tabVars, monVars, sysVars, status, todo, fe, rtg, sub, in, obsVars, dlVars,
                 histVars, edits, proc>>

\* te->timestamp > fe->timestamp, read without the entry's lock ...
CompareTimestamps ==
  LET newer == Te.timestamp > ent[fe].timestamp
  IN  /\ Goto("compare", IF newer THEN "raise" ELSE "apply") /\ fe \in live
      /\ todo' = IF newer THEN todo ELSE Tail(todo)
      /\ UNCHANGED <<tabVars, monVars, sysVars, status, fe, rtg, sub, in, obsVars, dlVars,
                     histVars, edits, proc>>

\* the downloads of entry i whose version is settled
Settled(i) == \E k \in Task : dfe[k] = i /\ dpc[k] \in {"fetch", "stamp", "notify"}

\* mutant: the new version is noted and not fetched
RaiseAndFetch_unfetched ==
  /\ Goto("raise", "apply") /\ todo' = Tail(todo) /\ fe \in live
  /\ ent' = [ent EXCEPT ![fe].timestamp = Te.timestamp]
  /\ UNCHANGED <<live, cut, monVars, sysVars, status, fe, rtg, sub, in, obsVars, dlVars,
                 histVars, edits, proc>>

\* ... and then file_entry_update_timestamp, and a download
RaiseAndFetch ==
  /\ Goto("raise", "apply") /\ todo' = Tail(todo) /\ fe \in live
  /\ ent' = [ent EXCEPT ![fe].timestamp = Te.timestamp]
  /\ Spawn(fe)
  /\ race' = IF Settled(fe) THEN race \cup {<<"raised", Te.name>>} ELSE race
  /\ UNCHANGED <<live, cut, monVars, sysVars, status, fe, rtg, sub, in, obsVars,
                 told, held, edits, proc>>

SkipNone ==
  /\ Goto("apply", "apply") /\ todo # << >> /\ Te.op = FILE_NONE
  /\ todo' = Tail(todo)
  /\ UNCHANGED <<tabVars, monVars, sysVars, status, fe, rtg, sub, in, obsVars, dlVars,
                 histVars, edits, proc>>

\* FILE_DELETE: file_table_delete, then file_delete(te)
Delete ==
  /\ Goto("apply", "target") /\ todo # << >> /\ Te.op = FILE_DELETE
  /\ DeleteEntry(Te.name)
  /\ race' = race \cup Missed(Te.name) \cup {<<"deleted", Te.name>>}
  /\ UNCHANGED <<cut, monVars, sysVars, status, todo, fe, rtg, sub, in, obsVars, dlVars,
                 told, held, edits, proc>>

\* file_monitor_block(te->name, true): get_file_target
DeleteTarget ==
  /\ Goto("target", "lock") /\ mMutex = Nobody
  /\ rtg' = tgt[In[Te.name]]
  /\ UNCHANGED <<tabVars, monVars, sysVars, status, todo, fe, sub, in, obsVars, dlVars,
                 histVars, edits, proc>>

\* ... its result is not tested before &t->mutex is locked
DeleteLock ==
  /\ Goto("lock", "remove") /\ rtg # 0
  /\ BlockTarget(In[Te.name], rtg, Receiver)
  /\ UNCHANGED <<tabVars, status, todo, fe, rtg, sub, in, obsVars, dlVars, histVars, edits, proc>>

RemoveFile ==
  /\ Goto("remove", "unblock") /\ Te.name \in File
  /\ disk' = [disk EXCEPT ![Te.name] = [content |-> Absent, mtime |-> 0]]
  /\ events' = IF Exists(Te.name) THEN Emitted(In[Te.name], Te.name, "delete", "peer") ELSE events
  /\ race' = race \cup {<<"removed", Te.name>>}
  /\ UNCHANGED <<tabVars, monVars, dirs, mask, status, todo, fe, rtg, sub, in, obsVars, dlVars,
                 told, held, edits, proc>>

\* file_monitor_rmdir: "rm -r"; the kernel reports IN_DELETE_SELF and drops the watch
RemoveDirectory ==
  LET d == Te.name
      inside == {f \in File : In[f] = d /\ Exists(f)}
      event(w, n, kind) ==
        [dir |-> w, tid |-> tgt[w], name |-> n, kind |-> kind, by |-> "peer"]
      orders == {q \in [1 .. Cardinality(inside) -> inside] : {q[i] : i \in DOMAIN q} = inside}
  IN  /\ Goto("remove", "dirTarget") /\ d \in Dir
      /\ disk' = [f \in File |-> IF In[f] = d THEN [content |-> Absent, mtime |-> 0] ELSE disk[f]]
      /\ dirs' = dirs \ {d}
      /\ mask' = [mask EXCEPT ![d] = "none"]
      /\ \E q \in orders :
           events' = events
             \o (IF mask[d] = "default" THEN [i \in DOMAIN q |-> event(d, q[i], "delete")] ELSE << >>)
             \o (IF mask[Root] = "default" /\ d \in dirs THEN <<event(Root, d, "delete")>> ELSE << >>)
             \o (IF mask[d] \in {"default", "blocked"} THEN <<event(d, d, "self")>> ELSE << >>)
      /\ race' = race \cup {"deleted", "removed"} \X inside
                    \cup (IF mask[d] = "default" THEN {} ELSE {"lost"} \X inside)
      /\ UNCHANGED <<tabVars, monVars, status, todo, fe, rtg, sub, in, obsVars, dlVars,
                     told, held, edits, proc>>

\* get_dir_target, then unwatch_and_free_target
DirTarget ==
  /\ Goto("dirTarget", IF tgt[Te.name] = 0 THEN "unblock" ELSE "unwatch") /\ mMutex = Nobody
  /\ sub' = tgt[Te.name]
  /\ UNCHANGED <<tabVars, monVars, sysVars, status, todo, fe, rtg, in, obsVars, dlVars,
                 histVars, edits, proc>>

Unwatch ==
  /\ Goto("unwatch", "unblock") /\ mMutex = Nobody
  /\ tgt[Te.name] = sub /\ FreeTarget(Te.name)
  /\ UNCHANGED <<tabVars, disk, dirs, events, status, todo, fe, rtg, sub, in, obsVars, dlVars,
                 histVars, edits>>

DeleteUnblock ==
  /\ Goto("unblock", "apply") /\ todo' = Tail(todo)
  /\ UnblockTarget(In[Te.name], rtg)
  /\ UNCHANGED <<tabVars, status, fe, rtg, sub, in, obsVars, dlVars, histVars, edits, proc>>

\* the receiver reads an entry or a target that is freed, or a NULL target
ReceiverUseAfterFree ==
  /\ Up /\ Undefined
  /\ \/ pc \in {"update", "compare", "raise"} /\ fe \notin live
     \/ pc = "lock" /\ (rtg = 0 \/ tgt[In[Te.name]] # rtg)
     \/ pc = "unwatch" /\ tgt[Te.name] # sub
     \/ pc = "unblock" /\ tgt[In[Te.name]] # rtg
  /\ UNCHANGED <<tabVars, monVars, sysVars, rcvVars, obsVars, dlVars, histVars, edits>>

-----------------------------------------------------------------------------
(* file_monitor_task.                                                      *)

MonitorAt(from, to) == Up /\ opc = from /\ opc' = to

\* the directories get their targets; none at all is a failure, which is
\* notified, and a failure of inotify_init is not
WatchTargets ==
  /\ \/ /\ MonitorAt("watch", "notify")
        /\ tgt' = [d \in Dir |-> IF d \in dirs THEN 1 ELSE 0] /\ gen' = tgt'
        /\ mask' = [d \in Dir |-> IF d \in dirs THEN "default" ELSE "none"]
        /\ UNCHANGED race
     \/ MonitorAt("watch", "fail") /\ UNCHANGED <<tgt, gen, mask, race>>
     \/ /\ MonitorAt("watch", "end") /\ UNCHANGED <<tgt, gen, mask>>
        /\ race' = race \cup {<<"silent", Root>>}
  /\ UNCHANGED <<tabVars, tmx, mMutex, disk, dirs, events, rcvVars, batch, otab, dlVars,
                 told, held, edits, proc>>

\* mutant: the status is set and nobody is woken
pthread_wait_notify_quiet ==
  /\ \/ MonitorAt("notify", "read") /\ status' = "THREAD_RUNNING"
     \/ MonitorAt("fail", "end") /\ status' = "THREAD_FAILED"
  /\ race' = IF pc = "waiting" THEN race ELSE race \cup {<<"early", Root>>}
  /\ UNCHANGED <<tabVars, monVars, sysVars, pc, todo, fe, rtg, sub, in, batch, otab, dlVars,
                 told, held, edits, proc>>

\* pthread_wait_notify: the signal wakes only who is already waiting
pthread_wait_notify ==
  /\ \/ MonitorAt("notify", "read") /\ status' = "THREAD_RUNNING"
     \/ MonitorAt("fail", "end") /\ status' = "THREAD_FAILED"
  /\ pc' = IF pc = "waiting" THEN "woken" ELSE pc
  /\ race' = IF pc = "waiting" THEN race ELSE race \cup {<<"early", Root>>}
  /\ UNCHANGED <<tabVars, monVars, sysVars, todo, fe, rtg, sub, in, batch, otab, dlVars,
                 told, held, edits, proc>>

ReadEvents ==
  /\ MonitorAt("read", "look") /\ events # << >>
  /\ batch' = events /\ events' = << >> /\ otab' = << >>
  /\ UNCHANGED <<tabVars, monVars, disk, dirs, mask, rcvVars, dlVars, histVars, edits, proc>>

\* m_table.targets[event->wd] is looked at without the mutex
LookAtEvent ==
  LET e == Head(batch)
      known == tgt[e.dir] = e.tid
  IN  /\ batch # << >> /\ MonitorAt("look", IF known THEN "handle" ELSE "look")
      /\ batch' = IF known THEN batch ELSE Tail(batch)
      /\ race' = IF known THEN race ELSE race \cup {<<"skipped", e.name>>}
      /\ UNCHANGED <<tabVars, monVars, sysVars, rcvVars, otab, dlVars, told, held, edits, proc>>

\* the op_type, and the entry with its stat(2) timestamp, 0 if the file is gone
EventOp(e) == CASE e.kind = "create" -> FILE_ADD
                [] e.kind = "modify" -> FILE_MODIFY
                [] OTHER -> FILE_DELETE
EventEntry(e) ==
  [op |-> EventOp(e), name |-> e.name, owners |-> {Me},
   timestamp |-> IF EventOp(e) = FILE_DELETE \/ ~Exists(e.name) THEN 0
                 ELSE IF e.name \in File THEN disk[e.name].mtime ELSE Now]

NewDirectory(e) == e.kind = "create" /\ e.name \in dirs

\* handle_event, under m_table.mutex: a directory that was removed is forgotten
handle_event ==
  LET e == Head(batch)
  IN  /\ MonitorAt("handle", "stat") /\ mMutex = Nobody
      /\ tgt[e.dir] = e.tid
      /\ IF e.kind = "self" THEN FreeTarget(e.dir) ELSE UNCHANGED <<monVars, mask, proc>>
      /\ UNCHANGED <<tabVars, disk, dirs, events, rcvVars, batch, otab, dlVars, histVars, edits>>

\* ... without it: a new directory is watched; get_trans_timestamp
StatEvent ==
  LET e == Head(batch)
  IN  /\ MonitorAt("stat", "table")
      /\ IF NewDirectory(e)
         THEN /\ TargetAdd(e.name) /\ mask' = [mask EXCEPT ![e.name] = "default"]
              /\ race' = race \cup Exposed({e.name})
         ELSE UNCHANGED <<tgt, gen, mask, race>>
      /\ otab' = Append(otab, EventEntry(e))
      /\ UNCHANGED <<tabVars, tmx, mMutex, disk, dirs, events, rcvVars, batch, dlVars,
                     told, held, edits, proc>>

\* ... and the file table; an entry without a timestamp is not sent
TableEvent ==
  LET te == otab[Len(otab)]
      sent == te.op = FILE_DELETE \/ te.timestamp # 0
  IN  /\ MonitorAt("table", "look") /\ batch' = Tail(batch)
      /\ \/ te.op = FILE_ADD /\ \E i \in 1 .. Len(ent) + 1 : AddEntry(te, i)
         \/ te.op = FILE_MODIFY /\ UpdateEntry(te)
         \/ te.op = FILE_DELETE /\ DeleteEntry(te.name)
      /\ otab' = IF sent THEN otab ELSE SubSeq(otab, 1, Len(otab) - 1)
      /\ race' = race \cup Missed(te.name)
      /\ UNCHANGED <<cut, monVars, sysVars, rcvVars, dlVars, told, held, edits, proc>>

\* the target went away between the look and the mutex: NULL->sys_name
MonitorUseAfterFree ==
  /\ Up /\ opc = "handle" /\ tgt[Head(batch).dir] # Head(batch).tid /\ Undefined
  /\ UNCHANGED <<tabVars, monVars, sysVars, rcvVars, obsVars, dlVars, histVars, edits>>

\* PEER_FILE_UPDATE with the entries of the batch
SendUpdate ==
  /\ MonitorAt("look", "read") /\ batch = << >>
  /\ told' = told \cup {[op |-> otab[i].op, name |-> otab[i].name,
                         timestamp |-> otab[i].timestamp] : i \in 1 .. Len(otab)}
  /\ otab' = << >>
  /\ UNCHANGED <<tabVars, monVars, sysVars, rcvVars, batch, dlVars, held, race, edits, proc>>

-----------------------------------------------------------------------------
(* The user of the peer.                                                   *)

\* an edit that no event reports, and no scan will come to see
Lost(n) == IF mask[In[n]] # "default" /\ pc \notin {"winit", "waitFor", "waiting", "woken"}
           THEN {<<"lost", n>>} ELSE {}

UserEdit(f) ==
  LET v == Now + edits + 1
  IN  /\ Up /\ edits < MaxEdit /\ In[f] \in dirs
      /\ edits' = edits + 1
      /\ disk' = [disk EXCEPT ![f] = [content |-> v, mtime |-> v]]
      /\ events' = Emitted(In[f], f, IF Exists(f) THEN "modify" ELSE "create", "user")
      /\ held' = held \cup {<<f, v>>} /\ race' = race \cup Lost(f)
      /\ UNCHANGED <<tabVars, monVars, dirs, mask, rcvVars, obsVars, dlVars, told, proc>>

UserDelete(f) ==
  /\ Up /\ edits < MaxEdit /\ Exists(f)
  /\ edits' = edits + 1
  /\ disk' = [disk EXCEPT ![f] = [content |-> Absent, mtime |-> 0]]
  /\ events' = Emitted(In[f], f, "delete", "user")
  /\ race' = race \cup Lost(f) \cup {<<"deleted", f>>}
  /\ UNCHANGED <<tabVars, monVars, dirs, mask, rcvVars, obsVars, dlVars, told, held, proc>>

UserMkdir(d) ==
  /\ Up /\ edits < MaxEdit /\ d \notin dirs /\ gen[d] = 0
  /\ edits' = edits + 1
  /\ dirs' = dirs \cup {d}
  /\ events' = Emitted(Root, d, "create", "user")
  /\ race' = race \cup Lost(d)
  /\ UNCHANGED <<tabVars, monVars, disk, mask, rcvVars, obsVars, dlVars, told, held, proc>>

-----------------------------------------------------------------------------
DownloadStep(k) ==
  \/ CutName(k) \/ FindTarget(k) \/ MakeDirectory(k) \/ Block(k)
  \/ OpenFile(k) \/ OpenDirectory(k) \/ FetchFile(k) \/ StampFile(k)
  \/ notify_tracker_add_me(k) \/ Unblock(k) \/ UseAfterFree(k)

ReceiverStep ==
  \/ pthread_wait_init \/ pthread_wait_for \/ Woken \/ Scan \/ SendSync \/ RecvSync
  \/ Recv \/ Applied \/ Find \/ AddAndFetch \/ ReplaceOwners \/ CompareTimestamps
  \/ RaiseAndFetch \/ SkipNone
  \/ Delete \/ DeleteTarget \/ DeleteLock \/ RemoveFile \/ RemoveDirectory
  \/ DirTarget \/ Unwatch \/ DeleteUnblock \/ ReceiverUseAfterFree

MonitorStep ==
  \/ WatchTargets \/ pthread_wait_notify \/ ReadEvents \/ LookAtEvent
  \/ handle_event \/ StatEvent \/ TableEvent \/ MonitorUseAfterFree \/ SendUpdate

UserStep ==
  \/ \E f \in Editable : UserEdit(f) \/ UserDelete(f)
  \/ \E d \in Dir \ {Root} : UserMkdir(d)

Next == ReceiverStep \/ MonitorStep \/ UserStep \/ \E k \in Task : DownloadStep(k)

\* every thread that can run runs
Fairness == WF_vars(ReceiverStep) /\ WF_vars(MonitorStep)
            /\ \A k \in Task : WF_vars(DownloadStep(k))

Spec == Init /\ [][Next]_vars
FairSpec == Spec /\ Fairness

-----------------------------------------------------------------------------
(* Properties.                                                             *)

EventRecord == [dir : Dir, tid : Nat, name : Name, kind : {"create", "modify", "delete", "self"},
                by : {"user", "peer"}]
Cause == {"cut", "exposed", "masked", "raised", "deleted", "lost", "skipped", "scanned",
          "removed", "early", "silent"}

\* The variables keep their types: entries, targets and locals refer to what
\* the code can have allocated.
TypeOK ==
  /\ ent \in Seq([name : Name, timestamp : Nat, owners : SUBSET Ip])
  /\ live \subseteq DOMAIN ent /\ cut \subseteq DOMAIN ent
  /\ tgt \in [Dir -> Nat] /\ gen \in [Dir -> Nat] /\ \A d \in Dir : tgt[d] <= gen[d]
  /\ tmx \in [Dir -> Task \cup {Nobody, Receiver}] /\ mMutex \in Task \cup {Nobody}
  /\ disk \in [File -> [content : Nat \cup {Partial}, mtime : Nat]] /\ dirs \subseteq Dir
  /\ mask \in [Dir -> {"none", "default", "blocked", "lost"}]
  /\ events \in Seq(EventRecord) /\ batch \in Seq(EventRecord)
  /\ fe \in 0 .. Len(ent) /\ rtg \in Nat /\ sub \in Nat
  /\ dfe \in [Task -> 0 .. Len(ent)] /\ dtg \in [Task -> Nat] /\ dver \in [Task -> Nat]
  /\ \A k \in Task : dpc[k] # "idle" => dfe[k] # 0
  /\ told \subseteq [op : OpType, name : Name, timestamp : Nat]
  /\ held \subseteq File \X Nat /\ race \subseteq Cause \X (Name \cup {Root})
  /\ edits \in 0 .. MaxEdit /\ proc \in {"up", "exit", "ub"}

\* The threads between file_monitor_block and file_monitor_unblock.
Holding == {"open", "fetch", "stamp", "notify", "unblock", "fail", "hung"}

\* Two downloads never write in the same directory at the same time: the mutex
\* of the directory's target lets one ptop_download_task in at a time.
OneWriter ==
  \A j, k \in Task :
    /\ dpc[j] \in Holding /\ dpc[k] \in Holding
    /\ In[NameOf(j)] = In[NameOf(k)]
    /\ dtg[j] = tgt[In[NameOf(j)]] /\ dtg[k] = tgt[In[NameOf(k)]]
    => j = k

\* What a download writes is never reported back as the user's own change: the
\* watch of its directory is blocked, unless a download into a new directory
\* or a new directory of the user's resets it at that moment.
NoEcho ==
  \A q \in {events, batch} : \A i \in DOMAIN q :
    q[i].by = "peer" /\ q[i].kind \in {"create", "modify"} /\ q[i].name \in File
      => <<"exposed", q[i].name>> \in race

\* the files that were both edited here and fetched ("assume there's no confliction")
Fetched(f) == \E k \in Task : dpc[k] # "idle" /\ NameOf(k) = f
Edited(f) == \E v \in Now + 1 .. Now + edits : <<f, v>> \in held
Conflict(f) == Fetched(f) /\ Edited(f)
Hit(f, causes) == \E c \in causes : <<c, f>> \in race

\* The tracker is only told of versions that were whole on this disk: this is
\* what it tells the others to fetch from here.  The exceptions are a version
\* that arrives while an older one is being fetched, a watch that is reset, a
\* do_download that hides a failure, and a file edited on both sides.
ToldHeld ==
  \A a \in told :
    a.name \in File /\ a.op # FILE_DELETE =>
      \/ <<a.name, a.timestamp>> \in held
      \/ Hit(a.name, {"raised", "exposed", "masked", "cut"}) \/ Conflict(a.name)

Quiet ==
  /\ Up /\ pc = "recv" /\ in = << >>
  /\ opc = "read" /\ events = << >>
  /\ \A k \in Task : dpc[k] \in {"idle", "done", "failed"}

\* Once everything has come to rest, the file on disk is the version that the
\* table has for it, also when newer versions arrived during a download: the
\* last download of a file wins.  The exceptions are failed downloads, edits
\* that were not seen, names that a search missed or the table has twice, and a
\* file that is edited here and deleted elsewhere.
Converged ==
  Quiet => \A i \in live :
    \/ ent[i].name \notin File
    \/ disk[ent[i].name].content = ent[i].timestamp
    \/ \E k \in Task : dfe[k] = i /\ dpc[k] = "failed"
    \/ Hit(ent[i].name, {"exposed", "masked", "lost", "cut", "skipped", "scanned"})
    \/ Conflict(ent[i].name)
    \/ Edited(ent[i].name) /\ Hit(ent[i].name, {"removed"})

\* No thread reads freed memory or a NULL target as long as nothing is
\* deleted: entries and targets are only freed by deletions.
SafeUnlessDeleted == proc = "ub" => \E n \in Name : <<"deleted", n>> \in race

\* A name has at most one entry (file_table_add: "if the entry is already there,
\* it would update it"), unless the scan of client_start came to a name that the
\* monitor had added, or a search ran while get_file_target had the name cut.
OneEntryPerName ==
  \A i, j \in live : ent[i].name = ent[j].name => i = j \/ Hit(ent[i].name, {"cut", "scanned"})

\* A version that the table has for a file is never taken back, whatever order
\* broadcasts arrive in: timestamps only grow, except when the monitor notes a
\* change of the file, by the user or by a download whose watch was reset, while
\* the receiver is between its comparison and file_entry_update_timestamp.
VersionsAdvance ==
  [][\A i \in DOMAIN ent :
       ent[i].name \in File =>
         \/ ent'[i].timestamp >= ent[i].timestamp
         \/ Conflict(ent[i].name)' \/ Hit(ent[i].name, {"exposed"})']_vars

\* Every packet of the tracker is received and applied: no thread of the peer
\* waits for another one forever, unless the monitor notified before the main
\* thread waited, or never did, or a download never returns.
Handled ==
  <>[](\/ proc # "up" \/ Hit(Root, {"early", "silent"})
       \/ \E k \in Task : dpc[k] = "hung"
       \/ pc = "recv" /\ in = << >>)
=============================================================================
