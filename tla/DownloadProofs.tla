--------------------------- MODULE DownloadProofs ---------------------------
(***************************************************************************)
(* Proofs about Download for any owners, file length and piece length.     *)
(***************************************************************************)
EXTENDS Download, FiniteSetTheorems, TLAPS

(***************************************************************************)
(* Arithmetic of the pieces.                                               *)
(***************************************************************************)

\* The quotient the C code computes, characterised without division.
LEMMA DivCeil ==
  ASSUME NEW L \in Nat
  PROVE  LET n == (L + PieceLen - 1) \div PieceLen IN
         /\ n \in Nat
         /\ PieceLen * n >= L
         /\ PieceLen * (n - 1) < L
  <1> DEFINE n == (L + PieceLen - 1) \div PieceLen
  <1>1. n \in Int
    BY PieceLenAssumption
  <1>2. /\ PieceLen * n <= L + PieceLen - 1
        /\ L + PieceLen - 1 < PieceLen * n + PieceLen
    BY PieceLenAssumption
  <1>3. n >= 0
    BY PieceLenAssumption
  <1>4. PieceLen * (n - 1) = PieceLen * n - PieceLen
    BY <1>1, PieceLenAssumption
  <1> QED
    BY <1>1, <1>2, <1>3, <1>4, PieceLenAssumption

\* AsInt and PieceCount stay within the integers.
LEMMA PieceCountInt ==
  ASSUME NEW x \in Int
  PROVE  AsInt(x) \in Int /\ PieceCount(x) \in Int
  BY PieceLenAssumption, IntModAssumption DEF AsInt, PieceCount, CDiv

\* An empty file and a length query that failed have no pieces.
LEMMA NoPieces == PieceCount(0) = 0 /\ PieceCount(-1) = 0
  BY PieceLenAssumption, IntModAssumption DEF AsInt, PieceCount, CDiv

\* A length that fits an int is converted unchanged and cut as it should be.
LEMMA FittingLength ==
  ASSUME NEW L \in Nat, 2 * (L + PieceLen - 1) < IntMod
  PROVE  AsInt(L) = L /\ PieceCount(L) = (L + PieceLen - 1) \div PieceLen
  <1>1. AsInt(L) = L /\ AsInt(L + PieceLen - 1) = L + PieceLen - 1
    BY PieceLenAssumption, IntModAssumption DEF AsInt
  <1> QED
    BY <1>1, PieceLenAssumption DEF PieceCount, CDiv

\* The requests of the threads tile the file: every offset of the file belongs
\* to a piece, and no request reaches past the end of the file.
LEMMA PiecesTile ==
  ASSUME NEW L \in Nat, 2 * (L + PieceLen - 1) < IntMod
  PROVE  LET n == PieceCount(L) IN
         /\ n \in Nat
         /\ \A p \in 0 .. n - 1 : PieceBytes(p, L, n) \subseteq 0 .. L - 1
         /\ \A p \in 0 .. n - 1 : \A b \in 0 .. L - 1 :
              p * PieceLen <= b /\ b < (p + 1) * PieceLen => b \in PieceBytes(p, L, n)
         /\ \A b \in 0 .. L - 1 : \E p \in 0 .. n - 1 : b \in PieceBytes(p, L, n)
  <1> DEFINE n == PieceCount(L)
  <1>1. n \in Nat /\ PieceLen * n >= L /\ PieceLen * (n - 1) < L
    BY FittingLength, DivCeil
  <1> HIDE DEF n
  <1>2. ASSUME NEW p \in 0 .. n - 1
        PROVE  p * PieceLen <= (n - 1) * PieceLen
               /\ (p # n - 1 => p * PieceLen + PieceLen <= (n - 1) * PieceLen)
    <2>1. p <= n - 1 /\ (p # n - 1 => p + 1 <= n - 1) /\ p \in Nat
      BY <1>1
    <2>2. PieceLen * p <= PieceLen * (n - 1)
      BY <2>1, <1>1, PieceLenAssumption
    <2>3. p # n - 1 => PieceLen * (p + 1) <= PieceLen * (n - 1)
      BY <2>1, <1>1, PieceLenAssumption
    <2>4. PieceLen * (p + 1) = p * PieceLen + PieceLen
      BY <2>1, PieceLenAssumption
    <2> QED
      BY <2>1, <2>2, <2>3, <2>4, <1>1, PieceLenAssumption
  <1>3. ASSUME NEW p \in 0 .. n - 1
        PROVE  PieceBytes(p, L, n) \subseteq 0 .. L - 1
    BY <1>1, <1>2, PieceLenAssumption DEF PieceBytes, ReqLen
  <1>4. ASSUME NEW p \in 0 .. n - 1, NEW b \in 0 .. L - 1,
               p * PieceLen <= b, b < (p + 1) * PieceLen
        PROVE  b \in PieceBytes(p, L, n)
    <2>1. (p + 1) * PieceLen = p * PieceLen + PieceLen
      BY <1>1, PieceLenAssumption
    <2>2. CASE p = n - 1
      <3>1. p * PieceLen + (L - PieceLen * (n - 1)) - 1 = L - 1
        BY <2>2, <1>1, PieceLenAssumption
      <3>2. PieceBytes(p, L, n) = (p * PieceLen) .. (L - 1)
        BY <2>2, <3>1 DEF PieceBytes, ReqLen
      <3> QED
        BY <1>1, <1>4, <3>2, PieceLenAssumption
    <2>3. CASE p # n - 1
      BY <1>1, <1>4, <2>1, <2>3, PieceLenAssumption DEF PieceBytes, ReqLen
    <2> QED
      BY <2>2, <2>3
  <1>5. ASSUME NEW b \in 0 .. L - 1
        PROVE  \E p \in 0 .. n - 1 : b \in PieceBytes(p, L, n)
    <2> DEFINE p == b \div PieceLen
    <2>1. p \in Nat /\ p * PieceLen <= b /\ b < p * PieceLen + PieceLen
      BY PieceLenAssumption
    <2> HIDE DEF p
    <2>2. (p + 1) * PieceLen = p * PieceLen + PieceLen
      BY <2>1, PieceLenAssumption
    <2>3. p < n
      <3> SUFFICES ASSUME p >= n PROVE FALSE
        BY <2>1, <1>1, SMT
      <3>1. PieceLen * p >= PieceLen * n
        BY <2>1, <1>1, PieceLenAssumption
      <3> QED
        BY <3>1, <2>1, <1>1, PieceLenAssumption
    <2> QED
      BY <2>1, <2>2, <2>3, <1>1, <1>4
  <1> QED
    BY <1>1, <1>3, <1>4, <1>5 DEF n

(***************************************************************************)
(* The inductive invariant.                                                *)
(***************************************************************************)

\* the part of do_download before its threads exist
Early == {"open", "check", "count", "len"}

\* a thread exists only once do_download waits for the threads, and all have
\* exited when it returns
Threads ==
  /\ pc \in Early \cup {"hung", "spawn"} => \A w \in Peer : wpc[w] = "none"
  /\ pc \in {"returned", "announced", "failed"} =>
       \A w \in Peer : wpc[w] \in {"none", "exit"}
  /\ \A w \in Peer : status[w] = -1 => wpc[w] = "exit"

\* the length used for the pieces is the true one once there are pieces
Lengths ==
  /\ pc \in Early \cup {"hung"} => objLen = 0 /\ disk = {}
  /\ LenFits => objLen \in {0, -1, fileLen}
  /\ LenFits => disk \subseteq 0 .. fileLen - 1

\* what was written belongs to the pieces at "mark" or FINISHED
Written ==
  ~diskFills =>
    /\ \A w \in Peer : wpc[w] = "mark" =>
         PieceBytes(wpiece[w], objLen, FilePieces) \subseteq disk
    /\ \A p \in Pieces : flag[p] = FINISHED =>
         PieceBytes(p, objLen, FilePieces) \subseteq disk

\* a remote owner's thread that exits with 0 has left no available piece, and
\* only a thread that exits with -1 makes one available again
NoneLeft ==
  /\ \E w \in Peer : w # Me /\ wpc[w] = "exit" /\ status[w] = 0
  /\ \A w \in Peer : status[w] = 0
  => \A p \in Pieces : flag[p] # AVAILABLE

\* what do_download remembers of the owner list between its two locks
OwnersSeen ==
  replaced = 0 =>
    /\ ~fault /\ aOwner # "freed"
    /\ pc \in {"len", "spawn"} => ownerN = Cardinality(owners)

IInv ==
  /\ TypeOK /\ PieceExclusive /\ Threads /\ Lengths /\ Written /\ NoneLeft
  /\ OwnersSeen

\* When ptop_download_task starts, nothing is allocated, flagged or written.
LEMMA InitIInv == Init => IInv
  <1> SUFFICES ASSUME Init PROVE IInv
    OBVIOUS
  <1> USE DEF Init
  <1>1. FilePieces = 0
    BY NoPieces DEF FilePieces
  <1>2. Pieces = {}
    BY DEF Pieces
  <1>3. flag \in [0 .. FilePieces - 1 -> {AVAILABLE, DOWNLOADING, FINISHED}]
    BY <1>1
  <1>4. diskFills \in BOOLEAN /\ fault \in BOOLEAN
    BY Zenon
  <1>5. /\ fileLen \in FileLens /\ owners \subseteq Peer /\ replaced \in 0 .. MaxReplace
        /\ pc \in MainPc /\ aOwner \in {"none", "live", "garbage", "freed"}
        /\ ownerN \in Nat /\ objLen \in Int
        /\ wpc \in [Peer -> WorkerPc] /\ wpiece \in [Peer -> Nat]
        /\ status \in [Peer -> {0, -1}]
        /\ disk \subseteq Nat /\ ret \in {-1, 0, 1}
    BY MaxReplaceAssumption DEF MainPc, WorkerPc
  <1>6. TypeOK
    BY <1>3, <1>4, <1>5 DEF TypeOK
  <1> QED
    BY <1>2, <1>6 DEF IInv, PieceExclusive, Threads, Lengths, Written, NoneLeft,
       OwnersSeen, Early, Holding


(***************************************************************************)
(* Every step preserves the invariant.                                     *)
(***************************************************************************)

\* The pieces of a type-correct state are an initial segment of the naturals.
LEMMA PiecesAreNats ==
  TypeOK => FilePieces \in Int /\ Pieces = 0 .. FilePieces - 1 /\ Pieces \subseteq Nat
  BY PieceCountInt, SMTT(20), ZenonT(20) DEF TypeOK, FilePieces, Pieces

\* Every step of do_download, of a piece thread or of the broadcast keeps the types.
LEMMA StepTypeOK == IInv /\ [Next]_vars => TypeOK'
  <1> SUFFICES ASSUME TypeOK, Lengths, [Next]_vars PROVE TypeOK'
    BY DEF IInv
  <1> USE DEF TypeOK, envVars, mainVars, workerVars
  <1>1. CASE Open
    BY <1>1 DEF Open, FilePieces, MainPc
  <1>2. CASE CheckOwners
    BY <1>2 DEF CheckOwners, FilePieces, MainPc
  <1>3. CASE CountOwners
    <2>1. Cardinality(owners) \in Nat
      BY PeerAssumption, FS_Subset, FS_CardinalityType
    <2> QED
      BY <1>3, <2>1 DEF CountOwners, FilePieces, MainPc
  <1>4. CASE GetFileLen
    <2>1. CASE aOwner = "freed" /\ fault' = TRUE /\ UNCHANGED <<pc, objLen, flag>>
      BY <1>4, <2>1 DEF GetFileLen, FilePieces
    <2>2. CASE pc' = "hung" /\ UNCHANGED <<objLen, flag, fault>>
      BY <1>4, <2>2 DEF GetFileLen, FilePieces, MainPc
    <2>3. CASE /\ objLen' \in {AsInt(fileLen), -1}
               /\ \/ /\ FilePieces' >= 0
                     /\ pc' = "spawn"
                     /\ flag' = [p \in 0 .. FilePieces' - 1 |-> AVAILABLE]
                  \/ /\ FilePieces' < 0
                     /\ pc' = "returned"
                     /\ UNCHANGED flag
               /\ fault' = fault
      <3>1. objLen' \in Int
        BY <2>3, FileLensAssumption, PieceCountInt
      <3>2. FilePieces' \in Int
        BY <3>1, PieceCountInt DEF FilePieces
      <3> HIDE DEF FilePieces
      <3>3. CASE pc' = "spawn"
        <4>1. flag' \in [0 .. FilePieces' - 1 -> {AVAILABLE, DOWNLOADING, FINISHED}]
          BY <2>3, <3>3
        <4> QED
          BY <1>4, <2>3, <3>1, <3>3, <4>1 DEF GetFileLen, MainPc
      <3>4. CASE pc' = "returned"
        <4>1. FilePieces = 0
          BY <1>4, NoPieces DEF GetFileLen, Lengths, Early, FilePieces
        <4>2. FilePieces' < 0 /\ flag' = flag
          BY <2>3, <3>4
        <4>3. 0 .. FilePieces' - 1 = 0 .. FilePieces - 1
          BY <3>2, <4>1, <4>2 DEF FilePieces
        <4>4. flag' \in [0 .. FilePieces' - 1 -> {AVAILABLE, DOWNLOADING, FINISHED}]
          BY <4>2, <4>3, ZenonT(20)
        <4> QED
          BY <1>4, <2>3, <3>1, <3>4, <4>4 DEF GetFileLen, MainPc
      <3> QED
        BY <2>3, <3>3, <3>4
    <2> QED
      BY <1>4, <2>1, <2>2, <2>3, ZenonT(20) DEF GetFileLen
  <1>5. CASE SpawnWorkers
    BY <1>5 DEF SpawnWorkers, FilePieces, MainPc, WorkerPc
  <1>6. CASE JoinWorkers
    BY <1>6 DEF JoinWorkers, FilePieces, MainPc
  <1>7. CASE Announce
    BY <1>7 DEF Announce, FilePieces, MainPc
  <1>8. ASSUME NEW w \in Peer, Connect(w) PROVE TypeOK'
    BY <1>8, ZenonT(20) DEF Connect, Exit, FilePieces, WorkerPc
  <1>9. ASSUME NEW w \in Peer, GetNewPiece(w) PROVE TypeOK'
    <2>1. Pieces \subseteq Nat
      BY PiecesAreNats
    <2> QED
      BY <1>9, <2>1, ZenonT(20) DEF GetNewPiece, Exit, FilePieces, WorkerPc
  <1>10. ASSUME NEW w \in Peer, FetchOk(w) PROVE TypeOK'
    BY <1>10 DEF FetchOk, FilePieces, WorkerPc
  <1>11. ASSUME NEW w \in Peer, FetchFails(w) PROVE TypeOK'
    BY <1>11, ZenonT(20) DEF FetchFails, Exit, FilePieces, WorkerPc
  <1>12. ASSUME NEW w \in Peer, Hang(w) PROVE TypeOK'
    BY <1>12 DEF Hang, FilePieces, WorkerPc
  <1>13. ASSUME NEW w \in Peer, Write(w) PROVE TypeOK'
    <2>1. wpiece[w] * PieceLen \in Nat
      <3>1. wpiece[w] \in Nat /\ PieceLen \in Nat
        BY PieceLenAssumption
      <3> QED
        BY <3>1
    <2>2. PieceBytes(wpiece[w], objLen, FilePieces) \subseteq Nat
      BY <2>1 DEF PieceBytes
    <2>3. disk' \subseteq Nat /\ wpc' \in [Peer -> WorkerPc]
      BY <1>13, <2>2 DEF Write, WorkerPc
    <2> QED
      BY <1>13, <2>3 DEF Write, FilePieces
  <1>14. ASSUME NEW w \in Peer, MarkFinished(w) PROVE TypeOK'
    BY <1>14, ZenonT(20) DEF MarkFinished, FilePieces, WorkerPc
  <1>15. CASE ReplaceOwners
    BY <1>15, MaxReplaceAssumption DEF ReplaceOwners, FilePieces
  <1>16. CASE UNCHANGED vars
    BY <1>16 DEF vars, FilePieces
  <1> QED
    BY <1>1, <1>2, <1>3, <1>4, <1>5, <1>6, <1>7, <1>8, <1>9, <1>10, <1>11, <1>12,
       <1>13, <1>14, <1>15, <1>16 DEF Next, MainStep, WorkerStep, Fetch


\* A thread takes a piece only when its flag says AVAILABLE, under obj.mutex.
LEMMA StepPieceExclusive == IInv /\ [Next]_vars => PieceExclusive'
  <1> SUFFICES ASSUME TypeOK, PieceExclusive, Threads, Lengths, [Next]_vars
               PROVE  PieceExclusive'
    BY DEF IInv
  <1> USE DEF TypeOK, PieceExclusive, Pieces, Holding, envVars, mainVars, workerVars
  <1>1. CASE Open \/ CheckOwners \/ CountOwners \/ JoinWorkers \/ Announce
             \/ ReplaceOwners \/ UNCHANGED vars
    <2>1. UNCHANGED <<flag, wpc, wpiece>>
      BY <1>1 DEF Open, CheckOwners, CountOwners, JoinWorkers, Announce, ReplaceOwners, vars
    <2> QED
      BY <2>1
  <1>2. CASE GetFileLen
    BY <1>2, ZenonT(20) DEF GetFileLen, Threads, Early, AVAILABLE, DOWNLOADING
  <1>3. CASE SpawnWorkers
    BY <1>3 DEF SpawnWorkers, Threads, Early
  <1>4. ASSUME NEW w \in Peer, Connect(w) PROVE PieceExclusive'
    <2>1. /\ wpc[w] \notin Holding /\ wpc'[w] \notin Holding
          /\ \A v \in Peer : v # w => wpc'[v] = wpc[v]
          /\ UNCHANGED <<flag, wpiece>>
      BY <1>4 DEF Connect, Exit
    <2> QED
      BY <2>1
  <1>5. ASSUME NEW w \in Peer, GetNewPiece(w) PROVE PieceExclusive'
    <2>1. CASE UNCHANGED <<flag, wpiece>> /\ Exit(w, 0)
      BY <1>5, <2>1 DEF GetNewPiece, Exit
    <2>2. ASSUME NEW p \in Pieces, flag[p] = AVAILABLE,
                 flag' = [flag EXCEPT ![p] = DOWNLOADING],
                 wpiece' = [wpiece EXCEPT ![w] = p],
                 wpc' = [wpc EXCEPT ![w] = "fetch"]
          PROVE  PieceExclusive'
      BY <1>5, <2>2 DEF GetNewPiece, AVAILABLE, DOWNLOADING
    <2> QED
      BY <1>5, <2>1, <2>2 DEF GetNewPiece
  <1>6. ASSUME NEW w \in Peer, FetchOk(w) PROVE PieceExclusive'
    BY <1>6 DEF FetchOk
  <1>7. ASSUME NEW w \in Peer, FetchFails(w) PROVE PieceExclusive'
    <2>1. /\ wpc[w] \in Holding /\ wpc'[w] \notin Holding /\ wpiece' = wpiece
          /\ \A v \in Peer : v # w => wpc'[v] = wpc[v]
          /\ wpiece[w] \in Pieces /\ flag'[wpiece[w]] # DOWNLOADING
          /\ DOMAIN flag' = DOMAIN flag
          /\ \A p \in Pieces : p # wpiece[w] => flag'[p] = flag[p]
      BY <1>7 DEF FetchFails, Exit, AVAILABLE, DOWNLOADING
    <2> QED
      BY <2>1, SMTT(20), ZenonT(20)
  <1>8. ASSUME NEW w \in Peer, Hang(w) PROVE PieceExclusive'
    BY <1>8 DEF Hang
  <1>9. ASSUME NEW w \in Peer, Write(w) PROVE PieceExclusive'
    BY <1>9 DEF Write
  <1>10. ASSUME NEW w \in Peer, MarkFinished(w) PROVE PieceExclusive'
    <2>1. /\ wpc[w] \in Holding /\ wpc'[w] \notin Holding /\ wpiece' = wpiece
          /\ \A v \in Peer : v # w => wpc'[v] = wpc[v]
          /\ wpiece[w] \in Pieces /\ flag'[wpiece[w]] # DOWNLOADING
          /\ DOMAIN flag' = DOMAIN flag
          /\ \A p \in Pieces : p # wpiece[w] => flag'[p] = flag[p]
      BY <1>10 DEF MarkFinished, FINISHED, DOWNLOADING
    <2> QED
      BY <2>1, SMTT(20), ZenonT(20)
  <1> QED
    BY <1>1, <1>2, <1>3, <1>4, <1>5, <1>6, <1>7, <1>8, <1>9, <1>10
       DEF Next, MainStep, WorkerStep, Fetch

\* The threads exist only between SpawnWorkers and their exit.
LEMMA StepThreads == IInv /\ [Next]_vars => Threads'
  <1> SUFFICES ASSUME TypeOK, Threads, [Next]_vars PROVE Threads'
    BY DEF IInv
  <1> USE DEF TypeOK, Threads, Early, envVars, mainVars, workerVars
  <1>1. CASE MainStep
    BY <1>1 DEF MainStep, Open, CheckOwners, CountOwners, GetFileLen, SpawnWorkers,
       JoinWorkers, Announce, Workers
  <1>2. ASSUME NEW w \in Peer, WorkerStep(w) PROVE Threads'
    BY <1>2 DEF WorkerStep, Connect, GetNewPiece, Fetch, FetchOk, FetchFails, Hang,
       Write, MarkFinished, Exit
  <1>3. CASE ReplaceOwners \/ UNCHANGED vars
    BY <1>3 DEF ReplaceOwners, vars
  <1> QED
    BY <1>1, <1>2, <1>3 DEF Next

\* A thread exits with 0 only after get_new_piece found no available piece.
LEMMA StepNoneLeft == IInv /\ [Next]_vars => NoneLeft'
  <1> SUFFICES ASSUME TypeOK, Threads, NoneLeft, [Next]_vars PROVE NoneLeft'
    BY DEF IInv
  <1> USE DEF TypeOK, Threads, Early, NoneLeft, Pieces, envVars, mainVars, workerVars
  <1>1. CASE MainStep
    BY <1>1, ZenonT(20) DEF MainStep, Open, CheckOwners, CountOwners, GetFileLen, SpawnWorkers,
       JoinWorkers, Announce
  <1>2. ASSUME NEW w \in Peer, WorkerStep(w) PROVE NoneLeft'
    <2>1. CASE Connect(w) \/ FetchOk(w) \/ Hang(w) \/ Write(w)
      BY <2>1, ZenonT(20) DEF Connect, FetchOk, Hang, Write, Exit
    <2>2. CASE GetNewPiece(w)
      BY <2>2, ZenonT(20) DEF GetNewPiece, Exit, AVAILABLE, DOWNLOADING
    <2>3. CASE FetchFails(w)
      BY <2>3 DEF FetchFails, Exit
    <2>4. CASE MarkFinished(w)
      BY <2>4 DEF MarkFinished, AVAILABLE, FINISHED
    <2> QED
      BY <1>2, <2>1, <2>2, <2>3, <2>4 DEF WorkerStep, Fetch
  <1>3. CASE ReplaceOwners \/ UNCHANGED vars
    BY <1>3, ZenonT(20) DEF ReplaceOwners, vars
  <1> QED
    BY <1>1, <1>2, <1>3 DEF Next


\* obj.file_len is 0, the failed query's -1 or the true length, and bounds what is written.
LEMMA StepLengths == IInv /\ [Next]_vars => Lengths'
  <1> SUFFICES ASSUME TypeOK, PieceExclusive, Threads, Lengths, [Next]_vars PROVE Lengths'
    BY DEF IInv
  <1> USE DEF TypeOK, Lengths, Early, LenFits, envVars, mainVars, workerVars
  <1>1. CASE Open \/ CheckOwners \/ CountOwners \/ SpawnWorkers \/ JoinWorkers \/ Announce
    BY <1>1, ZenonT(20) DEF Open, CheckOwners, CountOwners, SpawnWorkers, JoinWorkers, Announce
  <1>2. CASE GetFileLen
    <2>1. fileLen \in Nat /\ (LenFits => AsInt(fileLen) = fileLen)
      BY FileLensAssumption, FittingLength
    <2> QED
      BY <1>2, <2>1 DEF GetFileLen
  <1>3. ASSUME NEW w \in Peer, WorkerStep(w) PROVE Lengths'
    <2>1. CASE ~Write(w)
      BY <1>3, <2>1, ZenonT(20) DEF WorkerStep, Connect, GetNewPiece, Fetch, FetchOk, FetchFails,
         Hang, MarkFinished, Exit
    <2>2. CASE Write(w)
      <3>1. LenFits => PieceBytes(wpiece[w], objLen, FilePieces) \subseteq 0 .. fileLen - 1
        <4> SUFFICES ASSUME LenFits
                     PROVE  PieceBytes(wpiece[w], objLen, FilePieces) \subseteq 0 .. fileLen - 1
          OBVIOUS
        <4>1. wpiece[w] \in 0 .. FilePieces - 1
          BY <2>2, PiecesAreNats DEF Write, PieceExclusive, Holding
        <4>2. objLen = fileLen
          BY <4>1, NoPieces, PiecesAreNats DEF FilePieces
        <4>3. fileLen \in Nat
          BY FileLensAssumption
        <4> QED
          BY <4>1, <4>2, <4>3, PiecesTile DEF FilePieces
      <3>2. disk' \subseteq disk \cup PieceBytes(wpiece[w], objLen, FilePieces)
            /\ UNCHANGED <<pc, objLen, fileLen>>
        BY <2>2 DEF Write
      <3>3. pc \notin Early \cup {"hung"}
        BY <2>2 DEF Write, Threads
      <3> QED
        BY <3>1, <3>2, <3>3
    <2> QED
      BY <2>1, <2>2
  <1>4. CASE ReplaceOwners \/ UNCHANGED vars
    BY <1>4, ZenonT(20) DEF ReplaceOwners, vars
  <1> QED
    BY <1>1, <1>2, <1>3, <1>4 DEF Next, MainStep


\* What lseek and my_write put on disk is what mark_piece_finished later claims.
LEMMA StepWritten == IInv /\ [Next]_vars => Written'
  <1> SUFFICES ASSUME TypeOK, PieceExclusive, Threads, Lengths, Written, [Next]_vars
               PROVE  Written'
    BY DEF IInv
  <1> USE DEF TypeOK, Written, Pieces, FilePieces, envVars, mainVars, workerVars
  <1>1. CASE Open
    <2>1. DOMAIN flag = {} /\ UNCHANGED <<flag, wpc>> /\ \A w \in Peer : wpc[w] = "none"
      BY <1>1, NoPieces DEF Open, Threads, Lengths, Early
    <2> QED
      BY <2>1
  <1>2. CASE CheckOwners \/ CountOwners \/ JoinWorkers \/ Announce \/ ReplaceOwners
             \/ UNCHANGED vars
    <2>1. UNCHANGED <<diskFills, flag, wpc, wpiece, objLen, disk>>
      BY <1>2 DEF CheckOwners, CountOwners, JoinWorkers, Announce, ReplaceOwners, vars
    <2> QED
      BY <2>1
  <1>3. CASE GetFileLen
    <2>1. UNCHANGED wpc /\ \A w \in Peer : wpc[w] = "none"
      BY <1>3 DEF GetFileLen, Threads, Early
    <2>2. DOMAIN flag = {}
      BY <1>3, NoPieces DEF GetFileLen, Lengths, Early
    <2>3. flag' = flag \/ flag' = [p \in 0 .. FilePieces' - 1 |-> AVAILABLE]
      BY <1>3 DEF GetFileLen
    <2>4. \A p \in DOMAIN flag' : flag'[p] # FINISHED
      BY <2>2, <2>3, ZenonT(20) DEF AVAILABLE, FINISHED
    <2> QED
      BY <2>1, <2>4
  <1>4. CASE SpawnWorkers
    <2>1. /\ UNCHANGED <<diskFills, flag, objLen, disk>>
          /\ \A w \in Peer : wpc'[w] # "mark"
      BY <1>4 DEF SpawnWorkers
    <2> QED
      BY <2>1
  <1>5. ASSUME NEW w \in Peer, Connect(w) \/ FetchOk(w) \/ Hang(w) PROVE Written'
    <2>1. /\ UNCHANGED <<diskFills, flag, wpiece, objLen, disk>>
          /\ \A v \in Peer : wpc'[v] = "mark" => wpc[v] = "mark"
      BY <1>5 DEF Connect, FetchOk, Hang, Exit
    <2> QED
      BY <2>1
  <1>6. ASSUME NEW w \in Peer, GetNewPiece(w) \/ FetchFails(w) PROVE Written'
    <2>1. /\ UNCHANGED <<diskFills, objLen, disk>> /\ DOMAIN flag' = DOMAIN flag
          /\ \A p \in DOMAIN flag : flag'[p] = FINISHED => flag[p] = FINISHED
          /\ \A v \in Peer : wpc'[v] = "mark" => wpc[v] = "mark" /\ wpiece'[v] = wpiece[v]
      BY <1>6, ZenonT(20) DEF GetNewPiece, FetchFails, Exit, AVAILABLE, DOWNLOADING, FINISHED
    <2> QED
      BY <2>1
  <1>7. ASSUME NEW w \in Peer, Write(w) PROVE Written'
    <2>1. /\ UNCHANGED <<diskFills, flag, objLen, wpiece>> /\ disk \subseteq disk'
          /\ ~diskFills => PieceBytes(wpiece[w], objLen, FilePieces) \subseteq disk'
          /\ \A v \in Peer : v # w => wpc'[v] = wpc[v]
      BY <1>7 DEF Write
    <2> QED
      BY <2>1, ZenonT(20)
  <1>8. ASSUME NEW w \in Peer, MarkFinished(w) PROVE Written'
    <2>1. /\ UNCHANGED <<diskFills, objLen, wpiece, disk>> /\ DOMAIN flag' = DOMAIN flag
          /\ wpc[w] = "mark" /\ wpc'[w] = "loop"
          /\ \A v \in Peer : v # w => wpc'[v] = wpc[v]
          /\ \A p \in DOMAIN flag : flag'[p] = FINISHED => p = wpiece[w] \/ flag[p] = FINISHED
      BY <1>8 DEF MarkFinished
    <2> QED
      BY <2>1, SMTT(20), ZenonT(20)
  <1> QED
    BY <1>1, <1>2, <1>3, <1>4, <1>5, <1>6, <1>7, <1>8, ZenonT(20) DEF Next, MainStep, WorkerStep, Fetch

\* Without a replacement, both read locks of do_download see the same owners.
LEMMA StepOwnersSeen == IInv /\ [Next]_vars => OwnersSeen'
  <1> SUFFICES ASSUME TypeOK, OwnersSeen, [Next]_vars PROVE OwnersSeen'
    BY DEF IInv
  <1> USE DEF TypeOK, OwnersSeen, envVars, mainVars, workerVars
  <1>1. CASE Open \/ CheckOwners \/ CountOwners \/ JoinWorkers \/ Announce
    BY <1>1 DEF Open, CheckOwners, CountOwners, JoinWorkers, Announce
  <1>2. CASE GetFileLen
    BY <1>2 DEF GetFileLen
  <1>3. CASE SpawnWorkers
    <2>1. Cardinality(owners) \in Nat
      BY PeerAssumption, FS_Subset, FS_CardinalityType
    <2> QED
      BY <1>3, <2>1 DEF SpawnWorkers
  <1>4. ASSUME NEW w \in Peer, WorkerStep(w) PROVE OwnersSeen'
    BY <1>4 DEF WorkerStep, Connect, GetNewPiece, Fetch, FetchOk, FetchFails, Hang,
       Write, MarkFinished
  <1>5. CASE ReplaceOwners \/ UNCHANGED vars
    BY <1>5 DEF ReplaceOwners, vars
  <1> QED
    BY <1>1, <1>2, <1>3, <1>4, <1>5 DEF Next, MainStep


\* The steps above together: IInv is inductive.
LEMMA InvariantInductive == IInv /\ [Next]_vars => IInv'
  BY StepTypeOK, StepPieceExclusive, StepThreads, StepLengths, StepWritten, StepNoneLeft,
     StepOwnersSeen DEF IInv

\* The inductive invariant holds in every reachable state of a download.
THEOREM DownloadInvariant == Spec => []IInv
  BY InitIInv, InvariantInductive, PTL DEF Spec

(***************************************************************************)
(* What the invariant says to the callers of do_download.                  *)
(***************************************************************************)

\* Type correctness.
THEOREM DownloadTypeOK == Spec => []TypeOK
  BY DownloadInvariant, PTL DEF IInv

\* A piece is fetched by one thread at a time, and is flagged while it is.
THEOREM DownloadExclusive == Spec => []PieceExclusive
  BY DownloadInvariant, PTL DEF IInv

\* do_download is memory safe while no broadcast replaces the owner list.
THEOREM DownloadSafeUnlessReplaced == Spec => []SafeUnlessReplaced
  <1>1. IInv => SafeUnlessReplaced
    BY DEF IInv, OwnersSeen, SafeUnlessReplaced
  <1> QED
    BY <1>1, DownloadInvariant, PTL

\* A FINISHED piece is on the disk.
THEOREM DownloadFinishedOnDisk == Spec => []FinishedOnDisk
  <1>1. IInv => FinishedOnDisk
    <2> SUFFICES ASSUME IInv, ~diskFills, LenFits,
                        NEW p \in Pieces, flag[p] = FINISHED
                 PROVE  BytesOf(p) \subseteq disk
      BY DEF FinishedOnDisk
    <2>1. p \in 0 .. FilePieces - 1
      BY PiecesAreNats DEF IInv
    <2>2. objLen = fileLen
      BY <2>1, NoPieces DEF IInv, Lengths, FilePieces
    <2>3. fileLen \in Nat
      BY FileLensAssumption DEF IInv, TypeOK
    <2>4. \A b \in 0 .. fileLen - 1 : p * PieceLen <= b /\ b < (p + 1) * PieceLen
            => b \in PieceBytes(p, objLen, FilePieces)
      BY <2>1, <2>2, <2>3, PiecesTile DEF LenFits, FilePieces
    <2>5. PieceBytes(p, objLen, FilePieces) \subseteq disk
      BY DEF IInv, Written
    <2> QED
      BY <2>4, <2>5 DEF BytesOf
  <1> QED
    BY <1>1, DownloadInvariant, PTL

\* When no thread failed and one was a remote owner's, the file is complete.
THEOREM DownloadAllOkComplete == Spec => []AllOkComplete
  <1>1. IInv => AllOkComplete
    <2> SUFFICES ASSUME IInv, ~fault, ~diskFills, LenFits,
                        pc \in {"returned", "announced"}, objLen = fileLen,
                        NEW r \in Workers, r # Me,
                        \A w \in Workers : status[w] = 0
                 PROVE  disk = 0 .. fileLen - 1
      BY DEF AllOkComplete
    <2> USE DEF IInv
    <2>1. \A w \in Peer : wpc[w] \in {"none", "exit"} /\ status[w] = 0
      BY DEF Threads, Workers, TypeOK
    <2>2. \A p \in Pieces : flag[p] = FINISHED
      <3>1. \A p \in Pieces : flag[p] # DOWNLOADING
        BY <2>1 DEF PieceExclusive, Holding
      <3>2. \A p \in Pieces : flag[p] # AVAILABLE
        BY <2>1 DEF NoneLeft, Workers
      <3> QED
        BY <3>1, <3>2 DEF TypeOK, Pieces
    <2>3. \A p \in 0 .. FilePieces - 1 : PieceBytes(p, objLen, FilePieces) \subseteq disk
      BY <2>2, PiecesAreNats DEF Written
    <2>4. fileLen \in Nat
      BY FileLensAssumption DEF TypeOK
    <2>5. 0 .. fileLen - 1 \subseteq disk
      BY <2>3, <2>4, PiecesTile DEF LenFits, FilePieces
    <2> QED
      BY <2>5, ZenonT(20) DEF Lengths
  <1> QED
    BY <1>1, DownloadInvariant, PTL


\* A FINISHED piece stays FINISHED.
THEOREM DownloadFinishedStable == Spec => FinishedStable
  <1> DEFINE Stable == \A p \in Pieces : flag[p] = FINISHED =>
                         p \in DOMAIN flag' /\ flag'[p] = FINISHED
  <1>1. IInv /\ [Next]_vars => [Stable]_vars
    <2> SUFFICES ASSUME IInv, Next PROVE Stable
      OBVIOUS
    <2> USE DEF IInv, TypeOK, Pieces, envVars, mainVars, workerVars
    <2>1. CASE Open \/ CheckOwners \/ CountOwners \/ SpawnWorkers \/ JoinWorkers
               \/ Announce \/ ReplaceOwners
      BY <2>1, ZenonT(20) DEF Open, CheckOwners, CountOwners, SpawnWorkers, JoinWorkers, Announce,
         ReplaceOwners
    <2>2. CASE GetFileLen
      BY <2>2, NoPieces DEF GetFileLen, Lengths, Early, FilePieces
    <2>3. ASSUME NEW w \in Peer, Connect(w) \/ FetchOk(w) \/ Hang(w) \/ Write(w)
          PROVE  Stable
      BY <2>3, ZenonT(20) DEF Connect, FetchOk, Hang, Write
    <2>4. ASSUME NEW w \in Peer, GetNewPiece(w) PROVE Stable
      BY <2>4, ZenonT(20) DEF GetNewPiece, AVAILABLE, FINISHED
    <2>5. ASSUME NEW w \in Peer, FetchFails(w) PROVE Stable
      BY <2>5 DEF FetchFails, PieceExclusive, Holding, DOWNLOADING, FINISHED
    <2>6. ASSUME NEW w \in Peer, MarkFinished(w) PROVE Stable
      BY <2>6 DEF MarkFinished
    <2> QED
      BY <2>1, <2>2, <2>3, <2>4, <2>5, <2>6 DEF Next, MainStep, WorkerStep, Fetch
  <1> QED
    BY <1>1, DownloadInvariant, PTL DEF Spec, FinishedStable

\* The flags, the mutex and the threads implement the pool of pieces.
THEOREM DownloadImplementsPool == Spec => PoolSpec
  <1> DEFINE has == [w \in Peer |-> IF wpc[w] \in Holding THEN wpiece[w] ELSE -1]
             done == {p \in Pieces : flag[p] = FINISHED}
  <1>1. Init => Pool!Init
    BY SMTT(20), ZenonT(20) DEF Init, Pool!Init, Holding, Pieces
  <1>2. IInv /\ [Next]_vars => [Pool!Next]_(Pool!pool)
    <2> SUFFICES ASSUME IInv, [Next]_vars
                 PROVE  Pool!Next \/ UNCHANGED <<has, done>>
      BY DEF Pool!pool
    <2> USE DEF IInv, TypeOK, Pieces, Holding, envVars, mainVars, workerVars
    <2>1. CASE Open \/ CheckOwners \/ CountOwners \/ JoinWorkers
               \/ Announce \/ ReplaceOwners \/ UNCHANGED vars
      <3>1. UNCHANGED <<flag, wpc, wpiece>>
        BY <2>1 DEF Open, CheckOwners, CountOwners, JoinWorkers, Announce,
           ReplaceOwners, vars
      <3> QED
        BY <3>1
    <2>2. CASE GetFileLen
      <3>1. UNCHANGED <<wpc, wpiece>>
        BY <2>2 DEF GetFileLen
      <3>2. DOMAIN flag = {}
        BY <2>2, NoPieces DEF GetFileLen, Lengths, Early, FilePieces
      <3>3. flag' = flag \/ flag' = [p \in 0 .. FilePieces' - 1 |-> AVAILABLE]
        BY <2>2 DEF GetFileLen
      <3>4. done = {} /\ done' = {}
        BY <3>2, <3>3, ZenonT(20) DEF AVAILABLE, FINISHED
      <3> QED
        BY <3>1, <3>4
    <2>3. CASE SpawnWorkers
      BY <2>3 DEF SpawnWorkers, Threads
    <2>4. ASSUME NEW w \in Peer, Connect(w) \/ FetchOk(w) \/ Hang(w) \/ Write(w)
          PROVE  UNCHANGED <<has, done>>
      <3>1. /\ UNCHANGED <<flag, wpiece>>
            /\ \A v \in Peer : wpc'[v] \in Holding <=> wpc[v] \in Holding
        BY <2>4 DEF Connect, FetchOk, Hang, Write, Exit
      <3> QED
        BY <3>1
    <2>5. ASSUME NEW w \in Peer, GetNewPiece(w) PROVE Pool!Take(w) \/ UNCHANGED <<has, done>>
      <3>1. CASE UNCHANGED <<flag, wpiece>> /\ Exit(w, 0)
        BY <2>5, <3>1, SMTT(20), ZenonT(20) DEF GetNewPiece, Exit
      <3>2. ASSUME NEW p \in Pieces, flag[p] = AVAILABLE,
                   flag' = [flag EXCEPT ![p] = DOWNLOADING],
                   wpiece' = [wpiece EXCEPT ![w] = p],
                   wpc' = [wpc EXCEPT ![w] = "fetch"]
            PROVE  Pool!Take(w)
        <4>1. p \in Nat /\ has[w] = -1 /\ has'[w] = p
          BY <2>5, <3>2, PiecesAreNats DEF GetNewPiece
        <4>2. has' = [has EXCEPT ![w] = p]
          BY <3>2, ZenonT(20)
        <4>3. done' = done
          BY <3>2 DEF AVAILABLE, DOWNLOADING, FINISHED
        <4>4. p \notin done /\ p \notin {has[v] : v \in Peer}
          BY <3>2, <4>1 DEF PieceExclusive, AVAILABLE, DOWNLOADING, FINISHED
        <4> QED
          BY <4>1, <4>2, <4>3, <4>4, ZenonT(20) DEF Pool!Take
      <3> QED
        BY <2>5, <3>1, <3>2 DEF GetNewPiece
    <2>6. ASSUME NEW w \in Peer, FetchFails(w) PROVE Pool!GiveBack(w)
      <3>1. has[w] = wpiece[w] /\ wpiece[w] \in Pieces /\ flag[wpiece[w]] = DOWNLOADING
        BY <2>6 DEF FetchFails, PieceExclusive
      <3>2. has[w] # -1
        BY <3>1, PiecesAreNats
      <3>3. has' = [has EXCEPT ![w] = -1]
        BY <2>6, ZenonT(20) DEF FetchFails, Exit
      <3>4. done' = done
        BY <2>6, <3>1 DEF FetchFails, AVAILABLE, DOWNLOADING, FINISHED
      <3> QED
        BY <3>2, <3>3, <3>4 DEF Pool!GiveBack
    <2>7. ASSUME NEW w \in Peer, MarkFinished(w) PROVE Pool!Finish(w)
      <3>1. has[w] = wpiece[w] /\ wpiece[w] \in Pieces
        BY <2>7 DEF MarkFinished, PieceExclusive
      <3>2. has[w] # -1
        BY <3>1, PiecesAreNats
      <3>3. has' = [has EXCEPT ![w] = -1]
        BY <2>7, ZenonT(20) DEF MarkFinished
      <3>4. done' = done \cup {has[w]}
        BY <2>7, <3>1 DEF MarkFinished
      <3> QED
        BY <3>2, <3>3, <3>4, ZenonT(20) DEF Pool!Finish
    <2> QED
      BY <2>1, <2>2, <2>3, <2>4, <2>5, <2>6, <2>7, ZenonT(20)
         DEF Next, MainStep, WorkerStep, Fetch, Pool!Next
  <1> QED
    BY <1>1, <1>2, DownloadInvariant, PTL DEF Spec, PoolSpec, Pool!Spec

=============================================================================
