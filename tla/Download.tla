------------------------------ MODULE Download ------------------------------
(***************************************************************************)
(* One download of a file by a peer: ptop_download_task runs do_download,  *)
(* which starts one piece_download_task thread per owner of the file; the  *)
(* threads share the array piece_flags under obj.mutex.  When do_download  *)
(* returns 0 the peer announces itself to the tracker as a new owner.      *)
(*                                                                         *)
(* A remote owner is an environment: connecting to it and asking it for a  *)
(* length or a piece may succeed, may fail, or may never be answered (the  *)
(* sockets have no timeout).  All owners serve the same file of FileLen    *)
(* bytes.  Meanwhile ttop_receiver_task may replace the owner list of the  *)
(* file entry, which do_download reads under two separate read locks.      *)
(***************************************************************************)
EXTENDS Integers, FiniteSets

CONSTANTS
  Peer,        \* the ip addresses an owner list may name
  Me,          \* my_ip
  FileLens,    \* the lengths in bytes a file may have
  PieceLen,    \* ctr_info.piece_len
  IntMod,      \* 2^32, the modulus of the C conversions to int
  MaxReplace   \* bound: how often the owner list is replaced meanwhile

ASSUME PieceLenAssumption == PieceLen \in Nat /\ PieceLen >= 2
ASSUME IntModAssumption == IntMod \in Nat /\ IntMod >= 2 * PieceLen
ASSUME FileLensAssumption == FileLens \subseteq Nat
ASSUME PeerAssumption == IsFiniteSet(Peer)
ASSUME MaxReplaceAssumption == MaxReplace \in Nat

VARIABLES
  fileLen,     \* the true length of the file at its owners
  diskFills,   \* TRUE: write() may fail, as on a full disk
  owners,      \* fe->owner_head
  replaced,    \* number of replacements of the owner list so far
  pc,          \* where ptop_download_task / do_download stands
  aOwner,      \* a_owner: "none", "live", "garbage" or "freed"
  ownerN,      \* owner_n, the length of the array tids
  objLen,      \* obj.file_len
  flag,        \* obj.piece_flags, a function on 0 .. file_pieces - 1
  wpc,         \* where the piece_download_task thread of each owner stands
  wpiece,      \* the local piece_id of each thread
  status,      \* the exit status of each thread
  disk,        \* the offsets of the local file that hold the owners' bytes
  ret,         \* the local ret of do_download
  fault        \* TRUE once undefined behaviour has been executed

mainVars   == <<pc, aOwner, ownerN, objLen, ret, fault>>
workerVars == <<wpc, wpiece, status>>
envVars    == <<fileLen, diskFills, owners, replaced>>
vars       == <<fileLen, diskFills, owners, replaced, pc, aOwner, ownerN, objLen, 
                flag, wpc, wpiece, status, disk, ret, fault>>

AVAILABLE   == "available"
DOWNLOADING == "downloading"
FINISHED    == "finished"

MainPc   == {"open", "check", "count", "len", "hung", "spawn", "join",
             "returned", "announced", "failed"}
WorkerPc == {"none", "connect", "loop", "fetch", "stuck", "write", "mark",
             "hung", "exit"}

-----------------------------------------------------------------------------
(* The arithmetic of do_download and of the piece requests.                *)

AsInt(x) == LET m == x % IntMod
            IN  IF 2 * m >= IntMod THEN m - IntMod ELSE m

CDiv(a, b) == IF a >= 0 THEN a \div b ELSE -((-a) \div b)

PieceCount(len) == CDiv(AsInt(len + PieceLen - 1), PieceLen)

\* mutant: the remainder is 0 for a length that is a multiple of PieceLen
ReqLenRemainder(p, len, n) == IF p = n - 1 THEN len % PieceLen ELSE PieceLen

\* req.len of the request for piece p of a file of len bytes in n pieces
ReqLen(p, len, n) == IF p = n - 1 THEN len - PieceLen * (n - 1) ELSE PieceLen

\* the offsets that the thread writes for piece p
PieceBytes(p, len, n) ==
  (p * PieceLen) .. (p * PieceLen + ReqLen(p, len, n) - 1)

Pieces == DOMAIN flag
FilePieces == PieceCount(objLen)

Workers == {w \in Peer : wpc[w] # "none"}
Holding == {"fetch", "stuck", "write", "mark"}

-----------------------------------------------------------------------------
Init ==
  /\ fileLen \in FileLens /\ diskFills \in BOOLEAN
  /\ owners \in SUBSET Peer
  /\ replaced = 0
  /\ pc = "open" /\ aOwner = "none" /\ ownerN = 0 /\ objLen = 0
  /\ flag = [p \in {} |-> AVAILABLE]
  /\ wpc = [w \in Peer |-> "none"]
  /\ wpiece = [w \in Peer |-> 0]
  /\ status = [w \in Peer |-> 0]
  /\ disk = {} /\ ret = -1 /\ fault = FALSE

(***************************************************************************)
(* The thread of ptop_download_task.                                       *)
(***************************************************************************)

\* open(O_TRUNC) succeeds, or fails and do_download returns -1
Open ==
  /\ pc = "open" /\ ~fault
  /\ pc' \in {"check", "returned"}
  /\ disk' = {}
  /\ UNCHANGED <<envVars, aOwner, ownerN, objLen, flag, workerVars, ret, fault>>

\* list_empty(&fe->owner_head), read without the lock
CheckOwners ==
  /\ pc = "check" /\ ~fault
  /\ pc' = IF owners = {} THEN "returned" ELSE "count"
  /\ UNCHANGED <<envVars, aOwner, ownerN, objLen, flag, workerVars, disk, ret, fault>>

\* mutant: one owner too few is counted
CountOwnersButFirst ==
  /\ pc = "count" /\ ~fault
  /\ pc' = "len"
  /\ aOwner' = IF owners = {} THEN "garbage" ELSE "live"
  /\ ownerN' = Cardinality(owners) - 1
  /\ UNCHANGED <<envVars, objLen, flag, workerVars, disk, ret, fault>>

\* first read lock: remember the first owner and count the owners; on a list
\* emptied since the check, a_owner points into fe itself
CountOwners ==
  /\ pc = "count" /\ ~fault
  /\ pc' = "len"
  /\ aOwner' = IF owners = {} THEN "garbage" ELSE "live"
  /\ ownerN' = Cardinality(owners)
  /\ UNCHANGED <<envVars, objLen, flag, workerVars, disk, ret, fault>>

\* get_file_len_from(a_owner): an answer of the owner, or (uint32_t)-1, becomes
\* obj.file_len; the array of piece flags is allocated from it, and a negative
\* number of pieces fails in calloc.  Reading a freed a_owner is undefined, and
\* an owner that stays silent blocks the call for ever.
GetFileLen ==
  /\ pc = "len" /\ ~fault
  /\ \/ /\ aOwner = "freed"
        /\ fault' = TRUE
        /\ UNCHANGED <<pc, objLen, flag>>
     \/ /\ aOwner = "live"
        /\ pc' = "hung"
        /\ UNCHANGED <<objLen, flag, fault>>
     \/ /\ aOwner # "freed"
        /\ objLen' \in IF aOwner = "live" THEN {AsInt(fileLen), -1} ELSE {-1}
        /\ \/ /\ FilePieces' >= 0
              /\ pc' = "spawn"
              /\ flag' = [p \in 0 .. FilePieces' - 1 |-> AVAILABLE]
           \/ /\ FilePieces' < 0
              /\ pc' = "returned"
              /\ UNCHANGED flag
        /\ fault' = fault
  /\ UNCHANGED <<envVars, aOwner, ownerN, workerVars, disk, ret>>

\* second read lock: one thread per owner now in the list.  More owners than
\* were counted run over the end of obj.tids.
SpawnWorkers ==
  /\ pc = "spawn" /\ ~fault
  /\ wpc' = [w \in Peer |-> IF w \in owners THEN "connect" ELSE "none"]
  /\ fault' = (Cardinality(owners) > ownerN)
  /\ pc' = "join"
  /\ UNCHANGED <<envVars, aOwner, ownerN, objLen, flag, wpiece, status, disk, ret>>

\* pthread_join of every thread; "ret = status && ret" keeps 0 once a thread
\* has exited with 0
JoinWorkers ==
  /\ pc = "join" /\ ~fault
  /\ \A w \in Workers : wpc[w] = "exit"
  /\ ret' = IF Workers = {} THEN ret
            ELSE IF \E w \in Workers : status[w] = 0 THEN 0 ELSE 1
  /\ pc' = "returned"
  /\ UNCHANGED <<envVars, aOwner, ownerN, objLen, flag, workerVars, disk, fault>>

\* after do_download: on 0 the file is stamped and notify_tracker_add_me tells
\* the tracker that this peer owns it
Announce ==
  /\ pc = "returned" /\ ~fault
  /\ pc' = IF ret = 0 THEN "announced" ELSE "failed"
  /\ UNCHANGED <<envVars, aOwner, ownerN, objLen, flag, workerVars, disk, ret, fault>>

(***************************************************************************)
(* piece_download_task, the thread that downloads from owner w.            *)
(***************************************************************************)

Exit(w, s) ==
  /\ wpc' = [wpc EXCEPT ![w] = "exit"]
  /\ status' = [status EXCEPT ![w] = s]

\* the thread of my own ip leaves at once with 0; any other connects to the
\* owner, asks for a port, connects to it and opens the local file
Connect(w) ==
  /\ wpc[w] = "connect" /\ ~fault
  /\ \/ w = Me /\ Exit(w, 0)
     \/ w # Me /\ Exit(w, -1)
     \/ w # Me /\ wpc' = [wpc EXCEPT ![w] = "loop"] /\ UNCHANGED status
  /\ UNCHANGED <<envVars, mainVars, flag, wpiece, disk>>

\* mutant: the piece is not flagged when it is handed out
GetNewPieceUnflagged(w) ==
  /\ wpc[w] = "loop" /\ ~fault
  /\ LET avail == {p \in Pieces : flag[p] = AVAILABLE} IN
     \/ \E p \in avail :
          /\ \A q \in avail : p <= q
          /\ wpiece' = [wpiece EXCEPT ![w] = p]
          /\ wpc' = [wpc EXCEPT ![w] = "fetch"]
          /\ UNCHANGED status
     \/ avail = {} /\ Exit(w, 0) /\ UNCHANGED wpiece
  /\ UNCHANGED <<envVars, mainVars, flag, disk>>

\* mutant: only pieces in progress are passed over
GetNewPieceAgain(w) ==
  /\ wpc[w] = "loop" /\ ~fault
  /\ LET avail == {p \in Pieces : flag[p] # DOWNLOADING} IN
     \/ \E p \in avail :
          /\ \A q \in avail : p <= q
          /\ flag' = [flag EXCEPT ![p] = DOWNLOADING]
          /\ wpiece' = [wpiece EXCEPT ![w] = p]
          /\ wpc' = [wpc EXCEPT ![w] = "fetch"]
          /\ UNCHANGED status
     \/ avail = {} /\ Exit(w, 0) /\ UNCHANGED <<flag, wpiece>>
  /\ UNCHANGED <<envVars, mainVars, disk>>

\* get_new_piece: the first available piece, or -1 and the loop ends
GetNewPiece(w) ==
  /\ wpc[w] = "loop" /\ ~fault
  /\ LET avail == {p \in Pieces : flag[p] = AVAILABLE} IN
     \/ \E p \in avail :
          /\ \A q \in avail : p <= q
          /\ flag' = [flag EXCEPT ![p] = DOWNLOADING]
          /\ wpiece' = [wpiece EXCEPT ![w] = p]
          /\ wpc' = [wpc EXCEPT ![w] = "fetch"]
          /\ UNCHANGED status
     \/ avail = {} /\ Exit(w, 0) /\ UNCHANGED <<flag, wpiece>>
  /\ UNCHANGED <<envVars, mainVars, disk>>

\* the piece request is answered in full
FetchOk(w) ==
  /\ wpc[w] = "fetch" /\ ~fault
  /\ wpc' = [wpc EXCEPT ![w] = "write"]
  /\ UNCHANGED <<envVars, mainVars, flag, wpiece, status, disk>>

\* mutant: "ret = -1" is missing on the error path
FetchFailsSilently(w) ==
  /\ wpc[w] = "fetch" /\ ~fault
  /\ flag' = [flag EXCEPT ![wpiece[w]] = AVAILABLE]
  /\ Exit(w, 0)
  /\ UNCHANGED <<envVars, mainVars, wpiece, disk>>

\* the request cannot be sent or the answer is short: mark_piece_failed, and
\* the thread leaves the loop with -1
FetchFails(w) ==
  /\ wpc[w] = "fetch" /\ ~fault
  /\ flag' = [flag EXCEPT ![wpiece[w]] = AVAILABLE]
  /\ Exit(w, -1)
  /\ UNCHANGED <<envVars, mainVars, wpiece, disk>>

\* the owner never answers: read() blocks for ever, in the fetch with a piece
Hang(w) ==
  /\ wpc[w] \in {"connect", "fetch"} /\ w # Me /\ ~fault
  /\ wpc' = [wpc EXCEPT ![w] = IF @ = "fetch" THEN "stuck" ELSE "hung"]
  /\ UNCHANGED <<envVars, mainVars, flag, wpiece, status, disk>>

\* seek and my_write, whose result is not looked at
Write(w) ==
  /\ wpc[w] = "write" /\ ~fault
  /\ disk' \in {disk \cup PieceBytes(wpiece[w], objLen, FilePieces)}
               \cup (IF diskFills THEN {disk} ELSE {})
  /\ wpc' = [wpc EXCEPT ![w] = "mark"]
  /\ UNCHANGED <<envVars, mainVars, flag, wpiece, status>>

\* mutant: mark_piece_failed is called where mark_piece_finished should be
MarkFinishedAvailable(w) ==
  /\ wpc[w] = "mark" /\ ~fault
  /\ flag' = [flag EXCEPT ![wpiece[w]] = AVAILABLE]
  /\ wpc' = [wpc EXCEPT ![w] = "loop"]
  /\ UNCHANGED <<envVars, mainVars, wpiece, status, disk>>

MarkFinished(w) ==
  /\ wpc[w] = "mark" /\ ~fault
  /\ flag' = [flag EXCEPT ![wpiece[w]] = FINISHED]
  /\ wpc' = [wpc EXCEPT ![w] = "loop"]
  /\ UNCHANGED <<envVars, mainVars, wpiece, status, disk>>

(***************************************************************************)
(* broadcast_entry_handler, in ttop_receiver_task: peer_id_list_replace    *)
(* frees the nodes of the old list; peer_id_list_remove_myself follows     *)
(* under a lock of its own, so a list that names Me can be observed.       *)
(***************************************************************************)
ReplaceOwners ==
  /\ replaced < MaxReplace /\ ~fault
  /\ pc \notin {"returned", "announced", "failed"}
  /\ owners' \in SUBSET Peer
  /\ replaced' = replaced + 1
  /\ aOwner' = IF aOwner = "live" THEN "freed" ELSE aOwner
  /\ UNCHANGED <<fileLen, diskFills, pc, ownerN, objLen, ret, fault, flag, workerVars, disk>>

MainStep == Open \/ CheckOwners \/ CountOwners \/ GetFileLen \/ SpawnWorkers
            \/ JoinWorkers \/ Announce

Fetch(w) == FetchOk(w) \/ FetchFails(w) \/ Hang(w)

WorkerStep(w) == Connect(w) \/ GetNewPiece(w) \/ Fetch(w) \/ Write(w)
                 \/ MarkFinished(w)

Next == \/ MainStep
        \/ \E w \in Peer : WorkerStep(w)
        \/ ReplaceOwners

Fairness == WF_vars(MainStep) /\ \A w \in Peer : WF_vars(WorkerStep(w))

Spec == Init /\ [][Next]_vars
FairSpec == Spec /\ Fairness

-----------------------------------------------------------------------------
(* Properties.                                                             *)

\* Type correctness of the state of do_download and its threads.
TypeOK ==
  /\ fileLen \in FileLens /\ diskFills \in BOOLEAN
  /\ owners \subseteq Peer /\ replaced \in 0 .. MaxReplace
  /\ pc \in MainPc /\ aOwner \in {"none", "live", "garbage", "freed"}
  /\ ownerN \in Nat /\ objLen \in Int
  /\ flag \in [0 .. FilePieces - 1 -> {AVAILABLE, DOWNLOADING, FINISHED}]
  /\ wpc \in [Peer -> WorkerPc] /\ wpiece \in [Peer -> Nat]
  /\ status \in [Peer -> {0, -1}]
  /\ disk \subseteq Nat /\ ret \in {-1, 0, 1} /\ fault \in BOOLEAN

\* get_new_piece hands a piece to one thread at a time: a piece is flagged
\* DOWNLOADING exactly when a thread works on it, and never by two threads.
PieceExclusive ==
  /\ \A w \in Peer : wpc[w] \in Holding =>
        wpiece[w] \in Pieces /\ flag[wpiece[w]] = DOWNLOADING
  /\ \A p \in Pieces : flag[p] = DOWNLOADING =>
        \E w \in Peer : wpc[w] \in Holding /\ wpiece[w] = p
  /\ \A v, w \in Peer :
        wpc[v] \in Holding /\ wpc[w] \in Holding /\ wpiece[v] = wpiece[w] => v = w

\* the bytes of the owners' file that belong to piece p
BytesOf(p) == {b \in 0 .. fileLen - 1 : p * PieceLen <= b /\ b < (p + 1) * PieceLen}

\* the length of the file fits the int arithmetic of do_download
LenFits == 2 * (fileLen + PieceLen - 1) < IntMod

\* A piece marked FINISHED by mark_piece_finished is in the local file, unless
\* write() fails or the length does not fit an int: the offsets requested for
\* the pieces, the short last one included, cover the bytes of the piece.
FinishedOnDisk ==
  ~diskFills /\ LenFits =>
    \A p \in Pieces : flag[p] = FINISHED => BytesOf(p) \subseteq disk

\* When do_download has joined its threads, none of which exited with -1, at
\* least one of which was a remote owner's, and the length query was answered,
\* then the local file holds exactly the bytes of the owners' file.
AllOkComplete ==
  /\ ~fault /\ ~diskFills /\ LenFits
  /\ pc \in {"returned", "announced"} /\ objLen = fileLen
  /\ \E w \in Workers : w # Me
  /\ \A w \in Workers : status[w] = 0
  => disk = 0 .. fileLen - 1

\* Memory safety of do_download as long as no broadcast replaces the owner list
\* while it runs: a_owner is not freed and obj.tids is long enough.
SafeUnlessReplaced == replaced = 0 => ~fault

\* A FINISHED piece stays FINISHED: no thread fetches it a second time.
FinishedStable ==
  [][\A p \in Pieces : flag[p] = FINISHED => p \in DOMAIN flag' /\ flag'[p] = FINISHED]_vars

\* The download ends, with a verdict for the tracker, unless an owner keeps
\* silent for ever (do_download has no timeout) or the owner list was replaced
\* under its feet.
Ends ==
  <>(\/ pc \in {"announced", "failed", "hung"} \/ fault
     \/ \E w \in Peer : wpc[w] \in {"hung", "stuck"})

\* the pool of pieces that the threads of this download share
Pool == INSTANCE PiecePool WITH
  Worker <- Peer, Piece <- Nat, Idle <- -1,
  has  <- [w \in Peer |-> IF wpc[w] \in Holding THEN wpiece[w] ELSE -1],
  done <- {p \in Pieces : flag[p] = FINISHED}

\* The threads, their flags and the mutex implement the pool of pieces: a
\* thread takes a piece only when no other thread has it and it is not done.
PoolSpec == Pool!Spec

\* What "Download OK!" and notify_tracker_add_me tell the tracker: when this
\* peer announces itself as an owner, every piece of the file was downloaded.
AnnouncedAllPieces ==
  pc = "announced" => \A p \in Pieces : flag[p] = FINISHED
=============================================================================
