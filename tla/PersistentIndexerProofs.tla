-------------------------- MODULE PersistentIndexerProofs --------------------------
(***************************************************************************)
(* Proofs about PersistentIndexer for every chain, confirmation depth and    *)
(* set of logs: when the confirmation depth covers the chain's                *)
(* reorganisations, all that is ever recorded is final.                     *)
(***************************************************************************)
EXTENDS PersistentIndexer, TLAPS

-----------------------------------------------------------------------------
(* The chain.                                                               *)

LEMMA ChainInvInit == ChainInit => ChainInv
BY ChainAssumption DEF ChainInit, ChainInv, ChainTypes, Heights, Hashes, Blocks, NoBlock, NoHash

LEMMA MineBlockInv ==
  ASSUME ChainInv, NEW logs \in SUBSET Logs, MineBlock(logs)
  PROVE  ChainInv'
<1> USE ChainAssumption DEF Heights, Hashes, NoHash
<1>1. /\ height + 1 \in Heights /\ height' = height + 1 /\ mined' = mined + 1
      /\ \A n \in Heights : block'[n] = IF n = height + 1 THEN [hash |-> mined + 1, logs |-> logs]
                                                          ELSE block[n]
  BY DEF ChainInv, ChainTypes, MineBlock
<1>2. ChainTypes'
  <2>1. block' \in [Heights -> Blocks]
    BY DEF ChainInv, ChainTypes, MineBlock, Blocks
  <2> QED BY <2>1, <1>1 DEF ChainInv, ChainTypes, MineBlock
<1>3. (height <= highest /\ highest <= height + ReorgDepth)'
  BY <1>1 DEF ChainInv, ChainTypes, MineBlock
<1>4. \A n \in Heights : /\ n <= height' => block'[n].hash \in 1 .. mined'
                         /\ n > height' => block'[n] = NoBlock
  BY <1>1 DEF ChainInv, ChainTypes
<1>5. \A m, n \in Heights :
        block'[m].hash = block'[n].hash /\ block'[m].hash # NoHash => m = n
  BY <1>1 DEF ChainInv, ChainTypes, NoBlock
<1>6. \A m, n \in Heights : \A l \in block'[m].logs \cap block'[n].logs : m = n
  BY <1>1 DEF ChainInv, ChainTypes, MineBlock, OnChain
<1> QED BY <1>2, <1>3, <1>4, <1>5, <1>6 DEF ChainInv

LEMMA DropBlocksInv ==
  ASSUME ChainInv, NEW n \in 0 .. MaxHeight, DropBlocks(n)
  PROVE  ChainInv'
BY ChainAssumption DEF ChainInv, ChainTypes, DropBlocks, Heights, Hashes, NoHash, Blocks, NoBlock

LEMMA ChainInvStep == ChainInv /\ ChainStep => ChainInv'
BY MineBlockInv, DropBlocksInv DEF ChainStep

\* A final block is still there, unchanged, after the chain moved.
LEMMA FinalBlocksStay ==
  ASSUME ChainInv, ChainStep, NEW n \in Heights, Final(n)
  PROVE  Final(n)' /\ block'[n] = block[n]
<1> USE ChainAssumption DEF Heights, Final
<1>1. n <= height
  BY DEF ChainInv, ChainTypes
<1>2. ASSUME NEW logs \in SUBSET Logs, MineBlock(logs)
      PROVE  Final(n)' /\ block'[n] = block[n]
  BY <1>1, <1>2 DEF MineBlock, ChainInv, ChainTypes
<1>3. ASSUME NEW m \in 0 .. MaxHeight, DropBlocks(m)
      PROVE  Final(n)' /\ block'[n] = block[n]
  BY <1>1, <1>3 DEF DropBlocks, ChainInv, ChainTypes
<1> QED BY <1>2, <1>3 DEF ChainStep

LEMMA HighestGrows == ChainInv /\ ChainStep => highest <= highest'
<1> SUFFICES ASSUME ChainInv, ChainStep PROVE highest <= highest'
  OBVIOUS
<1>1. highest \in Nat /\ height \in Nat
  BY ChainAssumption DEF ChainInv, ChainTypes
<1>2. highest' = highest \/ (height' = height + 1 /\ highest' = IF height' > highest THEN height' ELSE highest)
  BY DEF ChainStep, MineBlock, DropBlocks
<1> QED BY <1>1, <1>2

\* Nothing else moves the chain.
LEMMA ChainStays == UNCHANGED chainVars /\ ChainInv => ChainInv'
BY DEF chainVars, ChainInv, ChainTypes

-----------------------------------------------------------------------------
(* The operations on the tables: each returns tables, and final blocks are   *)
(* all it adds.                                                             *)

LEMMA EmptyTablesOnChain == EmptyTables \in Tables /\ TablesOnChain(EmptyTables)
BY ChainAssumption DEF EmptyTables, Tables, TablesOnChain, Records, RawLogs, Absent, NoRaw,
   Statuses, Hashes, NoHash, Heights

\* A row that only changes its status was there and keeps block and hash.
LEMMA StatusMoves ==
  ASSUME NEW r \in Records, NEW s \in Statuses, r.status # "absent"
  PROVE  /\ r # Absent
         /\ [r EXCEPT !.status = s] \in Records
         /\ [r EXCEPT !.status = s].block = r.block
         /\ [r EXCEPT !.status = s].hash = r.hash
BY DEF Records, Absent

LEMMA CheckpointedOnChain ==
  ASSUME NEW d \in Tables, TablesOnChain(d), NEW c \in Contracts, NEW n \in Heights, Final(n),
         block[n].hash \in Hashes, NEW head \in Nat
  PROVE  /\ Checkpointed(d, c, n, block[n].hash, head) \in Tables
         /\ TablesOnChain(Checkpointed(d, c, n, block[n].hash, head))
<1> DEFINE e == Checkpointed(d, c, n, block[n].hash, head)
<1>1. /\ \A m \in Heights : e.checkpoints[m] = IF m = n THEN block[n].hash ELSE d.checkpoints[m]
      /\ e.raw = d.raw
      /\ \A l \in Logs : \/ e.events[l] = d.events[l]
                         \/ /\ d.events[l].status = "unfinalized"
                            /\ e.events[l] = [d.events[l] EXCEPT !.status = "canonical"]
  <2>1. /\ e.checkpoints = [d.checkpoints EXCEPT ![n] = block[n].hash]
        /\ e.raw = d.raw
        /\ e.events \in {d.events, FinalizeThrough(d.events, c, head - Confirmations)}
    BY DEF Checkpointed, Tables
  <2> QED BY <2>1 DEF Tables, FinalizeThrough
<1>2. e \in Tables
  BY ZenonT(40) DEF Checkpointed, Tables, FinalizeThrough, Records, Statuses
<1>3. \A l \in Logs : e.events[l] # Absent =>
        /\ d.events[l] # Absent
        /\ e.events[l].block = d.events[l].block
        /\ e.events[l].hash = d.events[l].hash
  <2> HIDE DEF e
  <2>1. \A l \in Logs : d.events[l] \in Records
    BY DEF Tables
  <2>2. ASSUME NEW l \in Logs, d.events[l].status = "unfinalized",
               e.events[l] = [d.events[l] EXCEPT !.status = "canonical"]
        PROVE  /\ d.events[l] # Absent
               /\ e.events[l].block = d.events[l].block
               /\ e.events[l].hash = d.events[l].hash
    <3>1. "canonical" \in Statuses /\ d.events[l].status # "absent"
      BY <2>2 DEF Statuses
    <3> QED BY <2>1, <2>2, <3>1, StatusMoves
  <2> QED BY <1>1, <2>2
<1>4. TablesOnChain(e)
  <2> HIDE DEF e
  <2> QED BY <1>1, <1>3 DEF TablesOnChain
<1> QED BY <1>2, <1>4

LEMMA IngestedOnChain ==
  ASSUME NEW d \in Tables, TablesOnChain(d), NEW n \in Heights, Final(n),
         block[n].hash \in Hashes, NEW logs \in SUBSET block[n].logs, logs \subseteq Logs,
         NEW head \in Nat
  PROVE  /\ Ingested(d, n, block[n].hash, logs, head) \in Tables
         /\ TablesOnChain(Ingested(d, n, block[n].hash, logs, head))
<1> DEFINE e == Ingested(d, n, block[n].hash, logs, head)
<1>1. /\ e.checkpoints = d.checkpoints
      /\ \A l \in Logs : \/ e.events[l] = d.events[l]
                         \/ l \in logs /\ e.events[l] = [block |-> n, hash |-> block[n].hash,
                                                        status |-> StatusAt(n, head)]
      /\ \A l \in Logs : \/ e.raw[l] = d.raw[l]
                         \/ l \in logs /\ e.raw[l] = [block |-> n, hash |-> block[n].hash]
  BY DEF Ingested, Tables, InsertEvent
<1>2. StatusAt(n, head) \in Statuses
  BY DEF StatusAt, Statuses
<1>3. e \in Tables
  BY <1>2 DEF Ingested, Tables, InsertEvent, Records, RawLogs
<1>4. TablesOnChain(e)
  <2> HIDE DEF e
  <2> QED BY <1>1 DEF TablesOnChain, Recorded
<1> QED BY <1>3, <1>4

LEMMA RolledBackOnChain ==
  ASSUME NEW d \in Tables, TablesOnChain(d), NEW c \in Contracts, NEW n \in Heights
  PROVE  RolledBack(d, c, n) \in Tables /\ TablesOnChain(RolledBack(d, c, n))
<1> DEFINE e == RolledBack(d, c, n)
<1>1. /\ \A m \in Heights : e.checkpoints[m] \in {NoHash, d.checkpoints[m]}
      /\ e.raw = d.raw
      /\ \A l \in Logs : \/ e.events[l] = d.events[l]
                         \/ /\ d.events[l].status \in {"canonical", "unfinalized"}
                            /\ e.events[l] = [d.events[l] EXCEPT !.status = "uncertain"]
  <2>1. /\ e.checkpoints = [m \in Heights |-> IF n <= m THEN NoHash ELSE d.checkpoints[m]]
        /\ e.raw = d.raw
        /\ e.events = [l \in Logs |->
             IF /\ ContractOf[l] = c
                /\ Affected(n, d.events[l].block)
                /\ d.events[l].status \in {"canonical", "unfinalized"}
               THEN [d.events[l] EXCEPT !.status = "uncertain"]
               ELSE d.events[l]]
    BY DEF RolledBack, Tables
  <2> QED BY <2>1 DEF Tables
<1>2. e \in Tables
  BY ZenonT(40) DEF RolledBack, Tables, Records, Statuses, NoHash
<1>3. \A l \in Logs : e.events[l] # Absent =>
        /\ d.events[l] # Absent
        /\ e.events[l].block = d.events[l].block
        /\ e.events[l].hash = d.events[l].hash
  <2> HIDE DEF e
  <2>1. \A l \in Logs : d.events[l] \in Records
    BY DEF Tables
  <2>2. ASSUME NEW l \in Logs, d.events[l].status \in {"canonical", "unfinalized"},
               e.events[l] = [d.events[l] EXCEPT !.status = "uncertain"]
        PROVE  /\ d.events[l] # Absent
               /\ e.events[l].block = d.events[l].block
               /\ e.events[l].hash = d.events[l].hash
    <3>1. "uncertain" \in Statuses /\ d.events[l].status # "absent"
      BY <2>2 DEF Statuses
    <3> QED BY <2>1, <2>2, <3>1, StatusMoves
  <2> QED BY <1>1, <2>2
<1>4. TablesOnChain(e)
  <2> HIDE DEF e
  <2> QED BY <1>1, <1>3 DEF TablesOnChain
<1> QED BY <1>2, <1>4

-----------------------------------------------------------------------------
(* The inductive invariant.                                                 *)

\* The deployment the confirmation depth is meant for, with an operator who
\* replays recorded events, if any.
Configured == ReorgDepth <= Confirmations

LEMMA InitInv == Init => IndexerInv
<1> SUFFICES ASSUME Init PROVE IndexerInv
  OBVIOUS
<1>1. ChainInv
  BY ChainInvInit DEF Init
<1>2. TablesOnChain(db) /\ TablesOnChain(work) /\ db \in Tables /\ work \in Tables
  BY EmptyTablesOnChain DEF Init
<1>3. TypeOK /\ ScanOnChain
  <2>1. (CHOOSE c \in Contracts : TRUE) \in Contracts
    BY IndexerAssumption
  <2>2. Idle \in Scans
    BY <2>1, ChainAssumption DEF Idle, Scans
  <2> QED BY <1>1, <1>2, <2>2, IndexerAssumption
          DEF Init, TypeOK, ChainInv, Idle, ScanOnChain
<1> QED BY <1>1, <1>2, <1>3 DEF IndexerInv, ProjectionOnChain

\* Tables that hold final blocks still do when the chain has moved on.
LEMMA TablesStayOnChain ==
  ASSUME ChainInv, ChainStep, NEW d \in Tables, TablesOnChain(d)
  PROVE  TablesOnChain(d)'
<1>1. \A n \in Heights : Final(n) => Final(n)' /\ block'[n] = block[n]
  BY FinalBlocksStay
<1> QED BY <1>1 DEF TablesOnChain, Recorded

LEMMA MoveChainInv == Configured /\ IndexerInv /\ MoveChain => IndexerInv'
<1> SUFFICES ASSUME Configured, IndexerInv, MoveChain PROVE IndexerInv'
  OBVIOUS
<1> USE ChainAssumption, IndexerAssumption
<1>1. ChainInv'
  BY ChainInvStep DEF IndexerInv, MoveChain
<1>2. TypeOK'
  BY <1>1 DEF ChainInv, IndexerInv, MoveChain, TypeOK
<1>3. \A n \in Heights : Final(n) => Final(n)' /\ block'[n] = block[n]
  BY FinalBlocksStay DEF IndexerInv, MoveChain
<1>4. TablesOnChain(db)' /\ TablesOnChain(work)'
  <2>1. db' = db /\ work' = work
    BY DEF MoveChain
  <2> QED BY <1>3, <2>1 DEF IndexerInv, ProjectionOnChain, TablesOnChain, Recorded
<1>5. ScanOnChain'
  <2>1. scan' = scan /\ highest <= highest'
    BY HighestGrows DEF MoveChain, IndexerInv
  <2>2. scan.phase \in {"logs", "ingest"} => Final(scan.next)
    BY DEF IndexerInv, ScanOnChain, ConfirmedThrough, Final, Configured, TypeOK, Scans,
           ChainTypes, Heights
  <2>3. (scan.phase # "idle" => scan.head <= highest /\ scan.next \in 1 .. MaxHeight + 1)'
    <3>1. scan.head \in Nat /\ highest \in Nat /\ highest' \in Nat
      BY <1>1 DEF IndexerInv, TypeOK, Scans, ChainInv, ChainTypes
    <3>2. scan.phase # "idle" => scan.head <= highest /\ scan.next \in 1 .. MaxHeight + 1
      BY DEF IndexerInv, ScanOnChain
    <3> QED BY <2>1, <3>1, <3>2
  <2>4. scan.phase \in {"logs", "ingest"} => block'[scan.next] = block[scan.next]
    BY <1>3, <2>2 DEF IndexerInv, ScanOnChain
  <2> QED BY <2>1, <2>3, <2>4 DEF IndexerInv, ScanOnChain, ConfirmedThrough
<1> QED BY <1>1, <1>2, <1>4, <1>5 DEF IndexerInv, ProjectionOnChain

\* A step of the indexer or the operator leaves the chain alone.
LEMMA StaysOnChain ==
  ASSUME UNCHANGED chainVars, NEW d, TablesOnChain(d)
  PROVE  TablesOnChain(d)'
BY DEF chainVars, TablesOnChain, Recorded, Final

LEMMA BeginScanInv ==
  ASSUME IndexerInv, NEW c \in Contracts, NEW start \in StartBlocks, BeginScan(c, start)
  PROVE  IndexerInv'
<1> USE ChainAssumption, IndexerAssumption
<1>1. ChainInv' /\ ChainTypes'
  BY ChainStays DEF IndexerInv, BeginScan, ChainInv
<1>2. PICK d \in Tables : d = db
  BY DEF IndexerInv, TypeOK
<1>3. TablesOnChain(d)'
  BY <1>2, StaysOnChain DEF IndexerInv, ProjectionOnChain, BeginScan
<1>4. TablesOnChain(db)' /\ TablesOnChain(work)' /\ db' \in Tables /\ work' \in Tables
  BY <1>2, <1>3 DEF BeginScan
<1>5. TypeOK' /\ ScanOnChain'
  BY <1>1, <1>4 DEF IndexerInv, TypeOK, BeginScan, Scans, ScanOnChain, ChainInv, ChainTypes,
     chainVars, Heights
<1> QED BY <1>1, <1>4, <1>5 DEF IndexerInv, ProjectionOnChain

LEMMA ReadHeaderInv == IndexerInv /\ ReadHeader => IndexerInv'
<1> SUFFICES ASSUME IndexerInv, ReadHeader PROVE IndexerInv'
  OBVIOUS
<1> USE ChainAssumption, IndexerAssumption
<1>1. ChainInv' /\ ChainTypes'
  BY ChainStays DEF IndexerInv, ReadHeader, ChainInv
<1>2. PICK d \in Tables, w \in Tables : d = db /\ w = work
  BY DEF IndexerInv, TypeOK
<1>3. TablesOnChain(d)' /\ TablesOnChain(w)'
  BY <1>2, StaysOnChain DEF IndexerInv, ProjectionOnChain, ReadHeader
<1>4. TablesOnChain(db)' /\ TablesOnChain(work)' /\ db' \in Tables /\ work' \in Tables
  BY <1>2, <1>3 DEF ReadHeader
<1>5. scan.next \in Heights /\ block[scan.next].hash \in Hashes
  BY DEF IndexerInv, ReadHeader, ScanOnChain, ChainInv, ChainTypes, Heights, Hashes
<1>6. TypeOK' /\ ScanOnChain'
  BY <1>1, <1>4, <1>5 DEF IndexerInv, TypeOK, ReadHeader, Scans, ScanOnChain, chainVars,
     ConfirmedThrough
<1> QED BY <1>1, <1>4, <1>6 DEF IndexerInv, ProjectionOnChain

\* What a scan asks the logs of is final.
LEMMA ScannedIsFinal ==
  Configured /\ IndexerInv /\ scan.phase \in {"logs", "ingest"} =>
    /\ scan.next \in Heights /\ Final(scan.next)
    /\ scan.hash = block[scan.next].hash /\ scan.hash \in Hashes
    /\ scan.head \in Nat /\ scan.contract \in Contracts
<1> SUFFICES ASSUME Configured, IndexerInv, scan.phase \in {"logs", "ingest"}
             PROVE  /\ scan.next \in Heights /\ Final(scan.next)
                    /\ scan.hash = block[scan.next].hash /\ scan.hash \in Hashes
                    /\ scan.head \in Nat /\ scan.contract \in Contracts
  OBVIOUS
<1> USE ChainAssumption, IndexerAssumption
<1>1. /\ scan.next \in Heights /\ scan.next + Confirmations <= scan.head
      /\ scan.head <= highest /\ scan.hash = block[scan.next].hash
  BY DEF IndexerInv, ScanOnChain, ConfirmedThrough
<1>2. highest \in Nat /\ height \in Nat /\ scan.head \in Nat /\ scan.contract \in Contracts
  BY DEF IndexerInv, TypeOK, ChainTypes, Scans
<1>3. Final(scan.next)
  BY <1>1, <1>2 DEF Final, Configured, Heights
<1>4. scan.next <= height
  BY <1>1, <1>2, <1>3 DEF Final, IndexerInv, ChainInv, Heights
<1>5. scan.hash \in Hashes
  BY <1>1, <1>4 DEF IndexerInv, ChainInv, ChainTypes, Hashes
<1> QED BY <1>1, <1>2, <1>3, <1>5

LEMMA ReadLogsInv == Configured /\ IndexerInv /\ ReadLogs => IndexerInv'
<1> SUFFICES ASSUME Configured, IndexerInv, ReadLogs PROVE IndexerInv'
  OBVIOUS
<1> USE ChainAssumption, IndexerAssumption
<1>1. ChainInv' /\ ChainTypes'
  BY ChainStays DEF IndexerInv, ReadLogs, ChainInv
<1>2. PICK d \in Tables : d = db
  BY DEF IndexerInv, TypeOK
<1>3. PICK w \in Tables : /\ w = Checkpointed(work, scan.contract, scan.next, scan.hash, scan.head)
                          /\ TablesOnChain(w)
  BY ScannedIsFinal, CheckpointedOnChain DEF IndexerInv, TypeOK, ReadLogs
<1>4. TablesOnChain(d)' /\ TablesOnChain(w)'
  BY <1>2, <1>3, StaysOnChain DEF IndexerInv, ProjectionOnChain, ReadLogs
<1>5. TablesOnChain(db)' /\ TablesOnChain(work)' /\ db' \in Tables /\ work' \in Tables
  BY <1>2, <1>3, <1>4 DEF ReadLogs
<1>6. LogsNow \in SUBSET Logs
  BY ScannedIsFinal DEF LogsNow, IndexerInv, TypeOK, ChainTypes, Blocks, ReadLogs
<1>7. TypeOK' /\ ScanOnChain'
  BY <1>1, <1>5, <1>6 DEF IndexerInv, TypeOK, ReadLogs, Scans, ScanOnChain, chainVars,
     ConfirmedThrough, LogsNow
<1> QED BY <1>1, <1>5, <1>7 DEF IndexerInv, ProjectionOnChain

LEMMA IngestLogsInv == Configured /\ IndexerInv /\ IngestLogs => IndexerInv'
<1> SUFFICES ASSUME Configured, IndexerInv, IngestLogs PROVE IndexerInv'
  OBVIOUS
<1> USE ChainAssumption, IndexerAssumption
<1>1. ChainInv' /\ ChainTypes'
  BY ChainStays DEF IndexerInv, IngestLogs, ChainInv
<1>2. PICK d \in Tables : d = db
  BY DEF IndexerInv, TypeOK
<1>3. scan.logs \in SUBSET block[scan.next].logs /\ scan.logs \subseteq Logs
  BY DEF IndexerInv, ScanOnChain, IngestLogs, TypeOK, Scans
<1>4. PICK w \in Tables : /\ w = Ingested(work, scan.next, scan.hash, scan.logs, scan.head)
                          /\ TablesOnChain(w)
  BY <1>3, ScannedIsFinal, IngestedOnChain DEF IndexerInv, TypeOK, IngestLogs
<1>5. TablesOnChain(d)' /\ TablesOnChain(w)'
  BY <1>2, <1>4, StaysOnChain DEF IndexerInv, ProjectionOnChain, IngestLogs
<1>6. TablesOnChain(db)' /\ TablesOnChain(work)' /\ db' \in Tables /\ work' \in Tables
  BY <1>2, <1>4, <1>5 DEF IngestLogs
<1>7. scan.next + 1 \in 1 .. MaxHeight + 1
  BY ScannedIsFinal DEF IngestLogs, Heights
<1>8. scan' \in Scans /\ ScanOnChain'
  <2>1. /\ scan' \in Scans /\ scan'.phase = "header" /\ scan'.next = scan.next + 1
        /\ scan'.head = scan.head
    <3>1. scan \in Scans
      BY DEF IndexerInv, TypeOK
    <3>2. scan' = [phase |-> "header", contract |-> scan.contract, head |-> scan.head,
                   next |-> scan.next + 1, hash |-> NoHash, logs |-> {}]
      BY <3>1 DEF IngestLogs, Scans
    <3>3. scan.next + 1 \in 0 .. MaxHeight + 1
      BY <1>7
    <3> QED BY <3>1, <3>2, <3>3 DEF Scans
  <2> QED BY <1>7, <2>1 DEF IndexerInv, ScanOnChain, IngestLogs, chainVars
<1> QED BY <1>1, <1>6, <1>8 DEF IndexerInv, TypeOK, IngestLogs, ProjectionOnChain

\* A scan that ends leaves either its tables or those it started with.
LEMMA EndScanInv == IndexerInv /\ (CommitScan \/ EndFailedScan) /\ faults' \in 0 .. MaxFaults
                      => IndexerInv'
<1> SUFFICES ASSUME IndexerInv, CommitScan \/ EndFailedScan, faults' \in 0 .. MaxFaults
             PROVE  IndexerInv'
  OBVIOUS
<1> USE ChainAssumption, IndexerAssumption
<1>0. UNCHANGED chainVars /\ scan' = Idle /\ work' = EmptyTables /\ db' \in {db, work}
  BY DEF CommitScan, EndFailedScan, AfterFailure
<1>1. ChainInv' /\ ChainTypes'
  BY <1>0, ChainStays DEF IndexerInv, ChainInv
<1>2. PICK d \in Tables : d = db' /\ TablesOnChain(d)
  BY <1>0 DEF IndexerInv, TypeOK, ProjectionOnChain
<1>3. PICK w \in Tables : w = EmptyTables /\ TablesOnChain(w)
  BY EmptyTablesOnChain
<1>4. TablesOnChain(d)' /\ TablesOnChain(w)'
  BY <1>0, <1>2, <1>3, StaysOnChain
<1>5. TablesOnChain(db)' /\ TablesOnChain(work)' /\ db' \in Tables /\ work' \in Tables
  BY <1>0, <1>2, <1>3, <1>4
<1>6. Idle \in Scans /\ Idle.phase = "idle"
  <2>1. (CHOOSE c \in Contracts : TRUE) \in Contracts
    OBVIOUS
  <2> QED BY <2>1 DEF Idle, Scans
<1>7. TypeOK' /\ ScanOnChain'
  BY <1>0, <1>1, <1>5, <1>6 DEF TypeOK, ScanOnChain
<1> QED BY <1>1, <1>5, <1>7 DEF IndexerInv, ProjectionOnChain

LEMMA RollbackInv ==
  ASSUME IndexerInv, NEW c \in Contracts, NEW n \in Heights, Rollback(c, n)
  PROVE  IndexerInv'
<1> USE ChainAssumption, IndexerAssumption
<1>1. ChainInv' /\ ChainTypes'
  BY ChainStays DEF IndexerInv, Rollback, ChainInv
<1>2. PICK d \in Tables : d = RolledBack(db, c, n) /\ TablesOnChain(d)
  BY RolledBackOnChain DEF IndexerInv, TypeOK, ProjectionOnChain
<1>3. PICK w \in Tables : w = work /\ TablesOnChain(w)
  BY DEF IndexerInv, TypeOK
<1>4. TablesOnChain(d)' /\ TablesOnChain(w)'
  BY <1>2, <1>3, StaysOnChain DEF Rollback
<1>5. TablesOnChain(db)' /\ TablesOnChain(work)' /\ db' \in Tables /\ work' \in Tables
  BY <1>2, <1>3, <1>4 DEF Rollback
<1>6. TypeOK' /\ ScanOnChain'
  BY <1>1, <1>5 DEF IndexerInv, TypeOK, Rollback, ScanOnChain, chainVars, ConfirmedThrough
<1> QED BY <1>1, <1>5, <1>6 DEF IndexerInv, ProjectionOnChain

\* A replay of a recorded event adds nothing: the row it must match is on the chain.
LEMMA RestoreInv ==
  ASSUME IndexerInv, ReplayPolicy # "any", NEW l \in Logs, NEW n \in Heights,
         NEW hash \in Hashes, IsReplayed(l), Restore(l, n, hash)
  PROVE  IndexerInv'
<1> USE ChainAssumption, IndexerAssumption
<1>1. ChainInv' /\ ChainTypes'
  BY ChainStays DEF IndexerInv, Restore, ChainInv
<1>2. PICK d \in Tables : d = db /\ TablesOnChain(d)
  BY DEF IndexerInv, TypeOK, ProjectionOnChain
<1>3. PICK w \in Tables : w = work /\ TablesOnChain(w)
  BY DEF IndexerInv, TypeOK
<1>4. d.events[l] # Absent /\ d.events[l] \in [block: {n}, hash: {hash}, status: Statuses]
  BY <1>2 DEF Restore, IsReplayed
<1>5. PICK r \in Records : /\ db' = [d EXCEPT !.events[l] = r]
                           /\ r.block = d.events[l].block /\ r.hash = d.events[l].hash
  <2>1. d.events[l] \in Records
    BY DEF Tables
  <2>2. CASE d.events[l].status \in {"absent", "uncertain"}
    <3> DEFINE r == [block |-> n, hash |-> hash, status |-> "canonical"]
    <3>1. r \in Records /\ r.block = d.events[l].block /\ r.hash = d.events[l].hash
      BY <1>4, <2>1 DEF Records, Statuses
    <3>2. db' = [d EXCEPT !.events[l] = r]
      BY <1>2, <2>2 DEF Restore
    <3> QED BY <3>1, <3>2
  <2>3. CASE d.events[l].status \notin {"absent", "uncertain"}
    BY <1>2, <2>1, <2>3 DEF Restore
  <2> QED BY <2>2, <2>3
<1>6. db' \in Tables
  BY <1>5 DEF Tables
<1>7. TablesOnChain(db)'
  <2>1. /\ db'.checkpoints = d.checkpoints /\ db'.raw = d.raw
        /\ \A k \in Logs : db'.events[k] # Absent =>
             /\ d.events[k] # Absent
             /\ db'.events[k].block = d.events[k].block
             /\ db'.events[k].hash = d.events[k].hash
    BY <1>4, <1>5 DEF Tables
  <2>2. UNCHANGED chainVars
    BY DEF Restore
  <2> QED BY <1>2, <2>1, <2>2 DEF TablesOnChain, Recorded, Final, chainVars
<1>8. TablesOnChain(work)' /\ work' \in Tables
  BY <1>3, StaysOnChain DEF Restore
<1>9. TypeOK' /\ ScanOnChain'
  BY <1>1, <1>6, <1>8 DEF IndexerInv, TypeOK, Restore, ScanOnChain, chainVars, ConfirmedThrough
<1> QED BY <1>1, <1>7, <1>8, <1>9 DEF IndexerInv, ProjectionOnChain

LEMMA StutterInv == IndexerInv /\ UNCHANGED vars => IndexerInv'
<1> SUFFICES ASSUME IndexerInv, UNCHANGED vars PROVE IndexerInv'
  OBVIOUS
<1>1. /\ block' = block /\ height' = height /\ highest' = highest /\ mined' = mined
      /\ db' = db /\ work' = work /\ scan' = scan /\ faults' = faults
  BY DEF vars
<1>2. TypeOK'
  BY <1>1 DEF IndexerInv, TypeOK, ChainTypes
<1>3. ChainInv'
  BY <1>1 DEF IndexerInv, ChainInv, ChainTypes
<1>4. ProjectionOnChain'
  BY <1>1 DEF IndexerInv, ProjectionOnChain, TablesOnChain, Recorded, Final
<1>5. TablesOnChain(work)'
  BY <1>1 DEF IndexerInv, TablesOnChain, Recorded, Final
<1>6. ScanOnChain'
  BY <1>1 DEF IndexerInv, ScanOnChain, ConfirmedThrough, Final
<1>7. QED
  BY <1>2, <1>3, <1>4, <1>5, <1>6 DEF IndexerInv

LEMMA NextInv == Configured /\ ReplayPolicy # "any" /\ IndexerInv /\ [Next]_vars => IndexerInv'
<1> SUFFICES ASSUME Configured, ReplayPolicy # "any", IndexerInv, [Next]_vars
             PROVE  IndexerInv'
  OBVIOUS
<1>1. CASE MoveChain
  BY <1>1, MoveChainInv
<1>2. ASSUME NEW c \in Contracts, NEW start \in StartBlocks, BeginScan(c, start)
      PROVE  IndexerInv'
  BY <1>2, BeginScanInv
<1>3. CASE ReadHeader
  BY <1>3, ReadHeaderInv
<1>4. CASE ReadLogs
  BY <1>4, ReadLogsInv
<1>5. CASE IngestLogs
  BY <1>5, IngestLogsInv
<1>6. faults \in 0 .. MaxFaults
  BY DEF IndexerInv, TypeOK
<1>7. CASE RefuseBlock \/ CommitScan \/ MissBlock
  BY <1>6, <1>7, EndScanInv DEF RefuseBlock, CommitScan, MissBlock
<1>8. CASE AbortScan
  <2>1. faults' \in 0 .. MaxFaults
    BY <1>6, <1>8, IndexerAssumption DEF AbortScan
  <2> QED BY <1>8, <2>1, EndScanInv DEF AbortScan
<1>9. ASSUME NEW c \in Contracts, NEW n \in Heights, Rollback(c, n)
      PROVE  IndexerInv'
  BY <1>9, RollbackInv
<1>10. ASSUME NEW l \in Logs, NEW n \in Heights, NEW hash \in Hashes, IsReplayed(l),
              Restore(l, n, hash)
       PROVE  IndexerInv'
  BY <1>10, RestoreInv
<1>11. CASE UNCHANGED vars
  BY <1>11, StutterInv
<1> QED BY <1>1, <1>2, <1>3, <1>4, <1>5, <1>7, <1>8, <1>9, <1>10, <1>11
        DEF Next, ScanStep, OperatorStep

\* With a confirmation depth that covers the chain's reorganisations, all that
\* any transaction holds, committed or not, is final.
THEOREM IndexerInvariant ==
  ASSUME Configured, ReplayPolicy # "any"
  PROVE  Spec => []IndexerInv
<1>1. Init => IndexerInv
  BY InitInv
<1>2. IndexerInv /\ [Next]_vars => IndexerInv'
  BY NextInv
<1> QED BY <1>1, <1>2, PTL DEF Spec

\* Every checkpoint, event and raw log that was ever committed agrees with the
\* chain, however head, header and logs were read apart from each other.
THEOREM RecordedIsFinal ==
  ASSUME Configured, ReplayPolicy # "any"
  PROVE  Spec => []ProjectionOnChain
<1>1. IndexerInv => ProjectionOnChain
  BY DEF IndexerInv
<1> QED BY <1>1, IndexerInvariant, PTL

\* No range that is scanned again, after whatever failure, restart or rollback,
\* meets a conflict.
THEOREM NoScanIsRefused ==
  ASSUME Configured, ReplayPolicy # "any"
  PROVE  Spec => []ScansAreNeverRefused
<1>1. IndexerInv => ScansAreNeverRefused
  <2> SUFFICES ASSUME IndexerInv PROVE ~CheckpointRefused /\ ~LogRefused
    BY DEF ScansAreNeverRefused
  <2>1. ~CheckpointRefused
    BY ScannedIsFinal DEF CheckpointRefused, CheckpointConflict, IndexerInv, TablesOnChain
  <2>2. ASSUME scan.phase = "ingest", NEW l \in scan.logs
        PROVE  ~LogConflict(work, l, scan.next, scan.hash)
    <3>1. /\ scan.next \in Heights /\ scan.hash = block[scan.next].hash
          /\ l \in Logs /\ l \in block[scan.next].logs
      BY <2>2, ScannedIsFinal DEF IndexerInv, ScanOnChain, TypeOK, Scans
    <3>2. \A n \in Heights : l \in block[n].logs => n = scan.next
      BY <3>1 DEF IndexerInv, ChainInv
    <3>3. work.events[l] # Absent => /\ work.events[l].block = scan.next
                                     /\ work.events[l].hash = scan.hash
      BY <3>1, <3>2 DEF IndexerInv, TablesOnChain, Recorded
    <3>4. work.raw[l] # NoRaw => work.raw[l] = [block |-> scan.next, hash |-> scan.hash]
      <4>1. work.raw[l] # NoRaw => /\ work.raw[l].block = scan.next
                                   /\ work.raw[l].hash = scan.hash
        BY <3>1, <3>2 DEF IndexerInv, TablesOnChain, Recorded
      <4>2. work.raw[l] \in RawLogs
        BY <3>1 DEF IndexerInv, TypeOK, Tables
      <4> QED BY <4>1, <4>2 DEF RawLogs
    <3> QED BY <3>3, <3>4 DEF LogConflict
  <2> QED BY <2>1, <2>2 DEF LogRefused
<1> QED BY <1>1, IndexerInvariant, PTL

-----------------------------------------------------------------------------
(* Checkpoints and logs commit together.                                    *)

\* Rows may change their status, never disappear.
KeepsRows(d, e) ==
  \A l \in Logs : /\ d.events[l] # Absent => e.events[l] # Absent
                  /\ d.raw[l] # NoRaw => e.raw[l] # NoRaw

LEMMA CheckpointedKeeps ==
  ASSUME NEW d \in Tables, NEW c, NEW n \in Heights, NEW hash, NEW head
  PROVE  /\ KeepsRows(d, Checkpointed(d, c, n, hash, head))
         /\ \A m \in Heights : m # n =>
              Checkpointed(d, c, n, hash, head).checkpoints[m] = d.checkpoints[m]
<1> DEFINE e == Checkpointed(d, c, n, hash, head)
<1>1. /\ e.checkpoints = [d.checkpoints EXCEPT ![n] = hash]
      /\ e.raw = d.raw
      /\ e.events \in {d.events, FinalizeThrough(d.events, c, head - Confirmations)}
  BY DEF Checkpointed, Tables
<1>2. ASSUME NEW l \in Logs, d.events[l] # Absent PROVE e.events[l] # Absent
  <2>1. \/ e.events[l] = d.events[l]
        \/ e.events[l] = [d.events[l] EXCEPT !.status = "canonical"]
    BY <1>1 DEF FinalizeThrough
  <2>2. [d.events[l] EXCEPT !.status = "canonical"] # Absent
    BY DEF Tables, Records, Absent
  <2> QED BY <1>2, <2>1, <2>2
<1> QED BY <1>1, <1>2 DEF KeepsRows, Tables

LEMMA IngestedKeeps ==
  ASSUME NEW d \in Tables, NEW n \in Heights, NEW hash \in Hashes, NEW logs, NEW head
  PROVE  /\ KeepsRows(d, Ingested(d, n, hash, logs, head))
         /\ Ingested(d, n, hash, logs, head).checkpoints = d.checkpoints
         /\ \A l \in logs \cap Logs : /\ Ingested(d, n, hash, logs, head).events[l] # Absent
                                      /\ Ingested(d, n, hash, logs, head).raw[l] # NoRaw
<1> DEFINE e == Ingested(d, n, hash, logs, head)
<1>1. /\ e.checkpoints = d.checkpoints
      /\ \A l \in Logs : e.events[l] = IF l \in logs THEN InsertEvent(d.events[l], n, hash, head)
                                                   ELSE d.events[l]
      /\ \A l \in Logs : e.raw[l] = IF l \in logs THEN [block |-> n, hash |-> hash] ELSE d.raw[l]
  BY DEF Ingested, Tables
<1>2. [block |-> n, hash |-> hash] # NoRaw
  BY ChainAssumption DEF NoRaw, NoHash, Hashes
<1>3. \A l \in Logs : InsertEvent(d.events[l], n, hash, head) # Absent
  BY ChainAssumption DEF InsertEvent, Absent, NoHash, Hashes
<1> QED
  <2> HIDE DEF e
  <2>1. /\ \A l \in Logs : l \in logs => e.events[l] # Absent /\ e.raw[l] # NoRaw
        /\ \A l \in Logs : l \notin logs => e.events[l] = d.events[l] /\ e.raw[l] = d.raw[l]
    BY <1>1, <1>2, <1>3
  <2>2. KeepsRows(d, e)
    BY <2>1 DEF KeepsRows
  <2> QED BY <1>1, <2>1, <2>2 DEF e

LEMMA RolledBackKeeps ==
  ASSUME NEW d \in Tables, NEW c, NEW n \in Heights
  PROVE  /\ KeepsRows(d, RolledBack(d, c, n))
         /\ \A m \in Heights : RolledBack(d, c, n).checkpoints[m] \in {NoHash, d.checkpoints[m]}
<1> DEFINE e == RolledBack(d, c, n)
<1>1. /\ e.checkpoints = [m \in Heights |-> IF n <= m THEN NoHash ELSE d.checkpoints[m]]
      /\ e.raw = d.raw
      /\ e.events = [l \in Logs |->
           IF /\ ContractOf[l] = c
              /\ Affected(n, d.events[l].block)
              /\ d.events[l].status \in {"canonical", "unfinalized"}
             THEN [d.events[l] EXCEPT !.status = "uncertain"]
             ELSE d.events[l]]
  BY DEF RolledBack, Tables
<1>2. ASSUME NEW l \in Logs, d.events[l] # Absent PROVE e.events[l] # Absent
  <2>1. \/ e.events[l] = d.events[l]
        \/ e.events[l] = [d.events[l] EXCEPT !.status = "uncertain"]
    BY <1>1
  <2>2. [d.events[l] EXCEPT !.status = "uncertain"] # Absent
    BY DEF Tables, Records, Absent
  <2> QED BY <1>2, <2>1, <2>2
<1> QED BY <1>1, <1>2 DEF KeepsRows

OneScanner == \E c : Contracts = {c}

LEMMA CoverStep ==
  Configured /\ ReplayPolicy # "any" /\ OneScanner /\ IndexerInv /\ CoverInv /\ [Next]_vars
    => CoverInv'
<1> SUFFICES ASSUME Configured, ReplayPolicy # "any", OneScanner, IndexerInv, CoverInv, [Next]_vars
             PROVE  CoverInv'
  OBVIOUS
<1> USE ChainAssumption, IndexerAssumption
<1>0. /\ db \in Tables /\ work \in Tables /\ scan \in Scans
      /\ \A n \in Heights : block[n].logs \subseteq Logs
  BY DEF IndexerInv, TypeOK, ChainTypes, Blocks
<1>1. CASE MoveChain
  <2>1. \A n \in Heights : Final(n) => block'[n] = block[n]
    BY <1>1, FinalBlocksStay DEF IndexerInv, MoveChain
  <2> QED BY <1>1, <2>1
          DEF MoveChain, IndexerInv, ProjectionOnChain, TablesOnChain, CoverInv,
              CheckpointsCoverLogs, CoversLogs
<1>2. ASSUME NEW c \in Contracts, NEW start \in StartBlocks, BeginScan(c, start)
      PROVE  CoverInv'
  BY <1>2 DEF BeginScan, CoverInv, CheckpointsCoverLogs, CoversLogs, chainVars
<1>3. CASE ReadHeader
  BY <1>3, <1>0 DEF ReadHeader, CoverInv, CheckpointsCoverLogs, CoversLogs, chainVars, Scans
<1>4. CASE ReadLogs
  <2>1. scan.next \in Heights /\ scan.phase = "logs"
    BY <1>4, ScannedIsFinal DEF ReadLogs
  <2>2. /\ KeepsRows(work, work')
        /\ \A m \in Heights : m # scan.next => work'.checkpoints[m] = work.checkpoints[m]
    BY <1>0, <1>4, <2>1, CheckpointedKeeps DEF ReadLogs
  <2>3. scan'.phase = "ingest" /\ scan'.next = scan.next /\ db' = db /\ block' = block
    BY <1>0, <1>4 DEF ReadLogs, Scans, chainVars
  <2>4. \A n \in Heights : work'.checkpoints[n] # NoHash /\ n # scan.next =>
          \A l \in block[n].logs : work'.events[l] # Absent /\ work'.raw[l] # NoRaw
    <3>1. ASSUME NEW n \in Heights, work'.checkpoints[n] # NoHash, n # scan.next,
                 NEW l \in block[n].logs
          PROVE  work'.events[l] # Absent /\ work'.raw[l] # NoRaw
      <4>1. l \in Logs /\ work.checkpoints[n] # NoHash
        BY <1>0, <2>2, <3>1
      <4>2. work.events[l] # Absent /\ work.raw[l] # NoRaw
        BY <3>1, <4>1 DEF CoverInv, CoversLogs
      <4> QED BY <2>2, <4>1, <4>2 DEF KeepsRows
    <3> QED BY <3>1
  <2> QED BY <2>3, <2>4 DEF CoverInv, CheckpointsCoverLogs, CoversLogs
<1>5. CASE IngestLogs
  <2>1. scan.next \in Heights /\ scan.phase = "ingest" /\ scan.hash \in Hashes
    BY <1>5, ScannedIsFinal DEF IngestLogs
  <2>2. scan.logs = block[scan.next].logs
    <3>1. \A l \in Logs : ContractOf[l] = scan.contract
      BY <1>0 DEF OneScanner, Scans
    <3> QED BY <1>0, <2>1, <3>1 DEF IndexerInv, ScanOnChain
  <2>3. /\ KeepsRows(work, work') /\ work'.checkpoints = work.checkpoints
        /\ \A l \in scan.logs \cap Logs : work'.events[l] # Absent /\ work'.raw[l] # NoRaw
    BY <1>0, <1>5, <2>1, IngestedKeeps DEF IngestLogs
  <2>4. db' = db /\ block' = block
    BY <1>5 DEF IngestLogs, chainVars
  <2>5. \A n \in Heights : work'.checkpoints[n] # NoHash =>
          \A l \in block[n].logs : work'.events[l] # Absent /\ work'.raw[l] # NoRaw
    <3>1. ASSUME NEW n \in Heights, work'.checkpoints[n] # NoHash, NEW l \in block[n].logs
          PROVE  work'.events[l] # Absent /\ work'.raw[l] # NoRaw
      <4>1. l \in Logs /\ work.checkpoints[n] # NoHash
        BY <1>0, <2>3, <3>1
      <4>2. CASE n = scan.next
        BY <2>2, <2>3, <3>1, <4>1, <4>2
      <4>3. CASE n # scan.next
        <5>1. work.events[l] # Absent /\ work.raw[l] # NoRaw
          BY <3>1, <4>1, <4>3 DEF CoverInv, CoversLogs
        <5> QED BY <2>3, <4>1, <5>1 DEF KeepsRows
      <4> QED BY <4>2, <4>3
    <3> QED BY <3>1
  <2> QED BY <2>4, <2>5 DEF CoverInv, CheckpointsCoverLogs, CoversLogs
<1>6. CASE CommitScan
  BY <1>6 DEF CommitScan, EmptyTables, CoverInv, CheckpointsCoverLogs, CoversLogs, chainVars
<1>7. CASE EndFailedScan
  BY <1>7 DEF EndFailedScan, AfterFailure, EmptyTables, CoverInv, CheckpointsCoverLogs,
     CoversLogs, chainVars
<1>8. ASSUME NEW c \in Contracts, NEW n \in Heights, Rollback(c, n)
      PROVE  CoverInv'
  <2>1. /\ KeepsRows(db, db')
        /\ \A m \in Heights : db'.checkpoints[m] \in {NoHash, db.checkpoints[m]}
    BY <1>0, <1>8, RolledBackKeeps DEF Rollback
  <2>2. \A m \in Heights : db'.checkpoints[m] # NoHash =>
          \A l \in block[m].logs : db'.events[l] # Absent /\ db'.raw[l] # NoRaw
    <3>1. ASSUME NEW m \in Heights, db'.checkpoints[m] # NoHash, NEW l \in block[m].logs
          PROVE  db'.events[l] # Absent /\ db'.raw[l] # NoRaw
      <4>1. l \in Logs /\ db.checkpoints[m] # NoHash
        BY <1>0, <2>1, <3>1
      <4>2. db.events[l] # Absent /\ db.raw[l] # NoRaw
        BY <3>1, <4>1 DEF CoverInv, CheckpointsCoverLogs, CoversLogs
      <4> QED BY <2>1, <4>1, <4>2 DEF KeepsRows
    <3> QED BY <3>1
  <2> QED BY <1>8, <2>2 DEF Rollback, CoverInv, CheckpointsCoverLogs, CoversLogs, chainVars
<1>9. ASSUME NEW l \in Logs, NEW n \in Heights, NEW hash \in Hashes, Restore(l, n, hash)
      PROVE  CoverInv'
  <2>1. db'.checkpoints = db.checkpoints /\ db'.raw = db.raw
    BY <1>0, <1>9 DEF Restore, Tables
  <2>2. \A k \in Logs : db.events[k] # Absent => db'.events[k] # Absent
    BY <1>0, <1>9 DEF Restore, Tables, Absent
  <2> QED BY <1>0, <1>9, <2>1, <2>2
          DEF Restore, CoverInv, CheckpointsCoverLogs, CoversLogs, chainVars
<1>10. CASE UNCHANGED vars
  BY <1>10 DEF vars, CoverInv, CheckpointsCoverLogs, CoversLogs
<1> QED BY <1>1, <1>2, <1>3, <1>4, <1>5, <1>6, <1>7, <1>8, <1>9, <1>10
        DEF Next, ScanStep, OperatorStep, RefuseBlock, MissBlock, AbortScan

\* AC-10 for one scanner per database: raw rows, derived rows and checkpoints
\* appear together, whatever scan failed on the way.
THEOREM CheckpointsComplete ==
  ASSUME Configured, ReplayPolicy # "any", OneScanner
  PROVE  Spec => []CheckpointsCoverLogs
<1>1. Init => CoverInv
  BY DEF Init, EmptyTables, CoverInv, CheckpointsCoverLogs
<1>2. IndexerInv /\ CoverInv /\ [Next]_vars => CoverInv'
  BY CoverStep
<1>3. CoverInv => CheckpointsCoverLogs
  BY DEF CoverInv
<1> QED BY <1>1, <1>2, <1>3, IndexerInvariant, PTL DEF Spec

-----------------------------------------------------------------------------
(* What is kept in any deployment, however deep reorganisations reach and     *)
(* whatever the operator replays.                                           *)

\* A row that was there keeps its content, and stays withheld if it was.
KeepsRow(r, q) == r # Absent => /\ q # Absent
                                /\ q.block = r.block /\ q.hash = r.hash
                                /\ r.status = "uncertain" => q.status = "uncertain"

KeepsContent(d, e) ==
  \A l \in Logs : /\ KeepsRow(d.events[l], e.events[l])
                  /\ d.raw[l] # NoRaw => e.raw[l] = d.raw[l]

\* What a scan does to the committed tables, it does to a copy that keeps them.
HistoryInv ==
  /\ ChainInv
  /\ TypeOK
  /\ scan.phase # "idle" => scan.next \in 1 .. MaxHeight + 1 /\ KeepsContent(db, work)
  /\ scan.phase \in {"logs", "ingest"} => scan.next \in Heights

LEMMA KeepsIsTransitive ==
  ASSUME NEW d, NEW e, NEW f, KeepsContent(d, e), KeepsContent(e, f)
  PROVE  KeepsContent(d, f)
BY DEF KeepsContent, KeepsRow

\* A checkpoint promotes what was unfinalized, and nothing else.
LEMMA CheckpointedContent ==
  ASSUME NEW d \in Tables, NEW c, NEW n \in Heights, NEW hash \in Hashes \cup {NoHash}, NEW head
  PROVE  /\ Checkpointed(d, c, n, hash, head) \in Tables
         /\ KeepsContent(d, Checkpointed(d, c, n, hash, head))
<1> DEFINE e == Checkpointed(d, c, n, hash, head)
<1>1. e \in Tables
  BY ZenonT(40) DEF Checkpointed, Tables, FinalizeThrough, Records, Statuses
<1>2. /\ e.raw = d.raw
      /\ \A l \in Logs : \/ e.events[l] = d.events[l]
                         \/ /\ d.events[l].status = "unfinalized"
                            /\ e.events[l] = [d.events[l] EXCEPT !.status = "canonical"]
  <2>1. /\ e.raw = d.raw
        /\ e.events \in {d.events, FinalizeThrough(d.events, c, head - Confirmations)}
    BY DEF Checkpointed, Tables
  <2> QED BY <2>1 DEF Tables, FinalizeThrough
<1>3. ASSUME NEW l \in Logs PROVE KeepsRow(d.events[l], e.events[l])
  <2> HIDE DEF e
  <2>1. CASE e.events[l] = d.events[l]
    BY <2>1 DEF KeepsRow
  <2>2. CASE /\ d.events[l].status = "unfinalized"
             /\ e.events[l] = [d.events[l] EXCEPT !.status = "canonical"]
    <3>1. "canonical" \in Statuses /\ d.events[l] \in Records
      BY DEF Statuses, Tables
    <3>2. [d.events[l] EXCEPT !.status = "canonical"] # Absent
      BY <3>1 DEF Records, Absent
    <3> QED BY <2>2, <3>1, <3>2, StatusMoves DEF KeepsRow
  <2> QED BY <1>2, <2>1, <2>2
<1> QED BY <1>1, <1>2, <1>3 DEF KeepsContent

\* Logs are stored where there was no row, or agree with the row.
LEMMA IngestedContent ==
  ASSUME NEW d \in Tables, NEW n \in Heights, NEW hash \in Hashes \cup {NoHash},
         NEW logs, NEW head, \A l \in logs : ~LogConflict(d, l, n, hash)
  PROVE  /\ Ingested(d, n, hash, logs, head) \in Tables
         /\ KeepsContent(d, Ingested(d, n, hash, logs, head))
<1> DEFINE e == Ingested(d, n, hash, logs, head)
<1>1. e \in Tables
  BY DEF Ingested, InsertEvent, StatusAt, Tables, Records, RawLogs, Statuses
<1>2. /\ \A l \in Logs : e.events[l] = IF l \in logs THEN InsertEvent(d.events[l], n, hash, head)
                                                   ELSE d.events[l]
      /\ \A l \in Logs : e.raw[l] = IF l \in logs THEN [block |-> n, hash |-> hash] ELSE d.raw[l]
  BY DEF Ingested, Tables
<1> HIDE DEF e
<1>3. ASSUME NEW l \in Logs, d.events[l] # Absent PROVE e.events[l] = d.events[l]
  BY <1>2, <1>3 DEF InsertEvent
<1>4. ASSUME NEW l \in Logs, d.raw[l] # NoRaw PROVE e.raw[l] = d.raw[l]
  BY <1>2, <1>4 DEF LogConflict
<1>5. KeepsContent(d, e)
  BY <1>3, <1>4 DEF KeepsContent, KeepsRow
<1> QED BY <1>1, <1>5 DEF e

\* A rollback withholds.
LEMMA RolledBackContent ==
  ASSUME NEW d \in Tables, NEW c, NEW n \in Heights
  PROVE  RolledBack(d, c, n) \in Tables /\ KeepsContent(d, RolledBack(d, c, n))
<1> DEFINE e == RolledBack(d, c, n)
<1>1. e \in Tables
  BY ZenonT(40) DEF RolledBack, Tables, Records, Statuses
<1>2. /\ e.raw = d.raw
      /\ \A l \in Logs : \/ e.events[l] = d.events[l]
                         \/ /\ d.events[l].status \in {"canonical", "unfinalized"}
                            /\ e.events[l] = [d.events[l] EXCEPT !.status = "uncertain"]
  BY DEF RolledBack, Tables
<1>3. ASSUME NEW l \in Logs PROVE KeepsRow(d.events[l], e.events[l])
  <2> HIDE DEF e
  <2>1. CASE e.events[l] = d.events[l]
    BY <2>1 DEF KeepsRow
  <2>2. CASE /\ d.events[l].status \in {"canonical", "unfinalized"}
             /\ e.events[l] = [d.events[l] EXCEPT !.status = "uncertain"]
    <3>1. /\ "uncertain" \in Statuses /\ d.events[l] \in Records
          /\ d.events[l].status # "absent" /\ d.events[l].status # "uncertain"
      BY <2>2 DEF Statuses, Tables
    <3>2. [d.events[l] EXCEPT !.status = "uncertain"] # Absent
      BY <3>1 DEF Records, Absent
    <3> QED BY <2>2, <3>1, <3>2, StatusMoves DEF KeepsRow
  <2> QED BY <1>2, <2>1, <2>2
<1> QED BY <1>1, <1>2, <1>3 DEF KeepsContent

LEMMA EmptyTablesTyped == EmptyTables \in Tables
BY ChainAssumption DEF EmptyTables, Tables, Records, RawLogs, Absent, NoRaw, Statuses,
   Hashes, NoHash, Heights

LEMMA IdleTyped == Idle \in Scans /\ Idle.phase = "idle"
<1>1. (CHOOSE c \in Contracts : TRUE) \in Contracts
  BY IndexerAssumption
<1> QED BY <1>1, ChainAssumption DEF Idle, Scans

LEMMA HistoryInit == Init => HistoryInv
BY ChainInvInit, EmptyTablesTyped, IdleTyped, IndexerAssumption
DEF Init, HistoryInv, TypeOK, ChainInv

\* What the steps of a scan that goes on do to its transaction.
LEMMA ScanKeeps ==
  ASSUME HistoryInv, ReadHeader \/ ReadLogs \/ IngestLogs
  PROVE  HistoryInv'
<1> USE ChainAssumption, IndexerAssumption
<1>1. ChainInv' /\ ChainTypes'
  <2>1. UNCHANGED chainVars
    BY DEF ReadHeader, ReadLogs, IngestLogs
  <2> QED BY <2>1, ChainStays DEF HistoryInv, ChainInv
<1>2. /\ db \in Tables /\ work \in Tables /\ scan \in Scans /\ faults \in 0 .. MaxFaults
      /\ ChainTypes /\ scan.phase # "idle"
      /\ scan.next \in 1 .. MaxHeight + 1 /\ KeepsContent(db, work)
      /\ scan.phase \in {"logs", "ingest"} => scan.next \in Heights
      /\ db' = db /\ faults' = faults
  BY DEF HistoryInv, TypeOK, ReadHeader, ReadLogs, IngestLogs
<1>3. CASE ReadHeader
  <2>1. scan.next \in Heights /\ block[scan.next].hash \in Hashes \cup {NoHash}
    <3>1. scan.next \in Heights
      BY <1>2, <1>3 DEF ReadHeader, ChainTypes, Heights
    <3> QED BY <1>2, <3>1 DEF ChainTypes, Blocks
  <2>2. scan' \in Scans /\ scan'.next = scan.next /\ work' = work
    BY <1>2, <1>3, <2>1 DEF ReadHeader, Scans
  <2> QED BY <1>1, <1>2, <2>1, <2>2 DEF HistoryInv, TypeOK
<1>4. CASE ReadLogs
  <2>1. scan.next \in Heights /\ scan.hash \in Hashes \cup {NoHash}
    BY <1>2, <1>4 DEF ReadLogs, Scans
  <2>2. work' \in Tables /\ KeepsContent(work, work')
    BY <1>2, <1>4, <2>1, CheckpointedContent DEF ReadLogs
  <2>3. LogsNow \in SUBSET Logs
    BY <1>2, <2>1 DEF LogsNow, ChainTypes, Blocks
  <2>4. scan' \in Scans /\ scan'.next = scan.next
    BY <1>2, <1>4, <2>3 DEF ReadLogs, Scans
  <2>5. KeepsContent(db, work')
    BY <1>2, <2>2, KeepsIsTransitive
  <2> QED BY <1>1, <1>2, <2>1, <2>2, <2>4, <2>5 DEF HistoryInv, TypeOK
<1>5. CASE IngestLogs
  <2>1. scan.next \in Heights /\ scan.hash \in Hashes \cup {NoHash}
    BY <1>2, <1>5 DEF IngestLogs, Scans
  <2>2. work' \in Tables /\ KeepsContent(work, work')
    BY <1>2, <1>5, <2>1, IngestedContent DEF IngestLogs
  <2>3. scan' \in Scans /\ scan'.next \in 1 .. MaxHeight + 1 /\ scan'.phase = "header"
    <3>1. /\ scan' = [scan EXCEPT !.phase = "header", !.next = @ + 1, !.hash = NoHash,
                                  !.logs = {}]
          /\ scan \in Scans
      BY <1>2, <1>5 DEF IngestLogs
    <3>2. PICK m \in 0 .. MaxHeight + 1 : m = scan.next + 1 /\ m \in 1 .. MaxHeight + 1
      BY <2>1 DEF Heights
    <3>3. scan' = [scan EXCEPT !.phase = "header", !.next = m, !.hash = NoHash, !.logs = {}]
      BY <3>1, <3>2
    <3> QED BY <3>1, <3>2, <3>3 DEF Scans
  <2>4. KeepsContent(db, work')
    BY <1>2, <2>2, KeepsIsTransitive
  <2> QED BY <1>1, <1>2, <2>2, <2>3, <2>4 DEF HistoryInv, TypeOK
<1> QED BY <1>3, <1>4, <1>5

\* A scan begins with a copy of the tables.
LEMMA BeginKeeps ==
  ASSUME HistoryInv, NEW c \in Contracts, NEW start \in StartBlocks, BeginScan(c, start)
  PROVE  HistoryInv'
<1> USE ChainAssumption, IndexerAssumption
<1>1. ChainInv' /\ ChainTypes'
  BY ChainStays DEF HistoryInv, BeginScan, ChainInv
<1>2. scan' \in Scans /\ scan'.next \in 1 .. MaxHeight + 1 /\ scan'.phase = "header"
  BY DEF HistoryInv, BeginScan, ChainInv, ChainTypes, Scans, Heights
<1>3. work' = db /\ db' = db /\ faults' = faults /\ db \in Tables /\ faults \in 0 .. MaxFaults
  BY DEF HistoryInv, TypeOK, BeginScan
<1>4. KeepsContent(db, db)
  BY DEF KeepsContent, KeepsRow
<1> QED BY <1>1, <1>2, <1>3, <1>4 DEF HistoryInv, TypeOK

\* A scan ends with what it kept, or with the tables as they were.
LEMMA EndKeeps ==
  ASSUME HistoryInv, CommitScan \/ MissBlock \/ RefuseBlock \/ AbortScan
  PROVE  HistoryInv' /\ KeepsContent(db, db')
<1> USE ChainAssumption, IndexerAssumption
<1>1. /\ UNCHANGED chainVars /\ scan' = Idle /\ work' = EmptyTables
      /\ db' = db \/ (db' = work /\ scan.phase = "header")
      /\ faults' \in 0 .. MaxFaults
  BY DEF CommitScan, MissBlock, RefuseBlock, AbortScan, EndFailedScan, AfterFailure,
         HistoryInv, TypeOK
<1>2. ChainInv' /\ ChainTypes'
  BY <1>1, ChainStays DEF HistoryInv, ChainInv
<1>3. KeepsContent(db, db')
  <2>1. KeepsContent(db, db)
    BY DEF KeepsContent, KeepsRow
  <2> QED BY <1>1, <2>1 DEF HistoryInv
<1>4. db' \in Tables
  BY <1>1 DEF HistoryInv, TypeOK
<1> QED BY <1>1, <1>2, <1>3, <1>4, EmptyTablesTyped, IdleTyped DEF HistoryInv, TypeOK

\* The chain moves, and the tables do not.
LEMMA ChainKeeps ==
  ASSUME HistoryInv, MoveChain
  PROVE  HistoryInv'
<1>1. ChainInv' /\ ChainTypes'
  BY ChainInvStep DEF HistoryInv, MoveChain, ChainInv
<1> QED BY <1>1 DEF HistoryInv, TypeOK, MoveChain

LEMMA RollbackKeeps ==
  ASSUME HistoryInv, NEW c \in Contracts, NEW n \in Heights, Rollback(c, n)
  PROVE  HistoryInv' /\ KeepsContent(db, db')
<1>1. ChainInv' /\ ChainTypes'
  BY ChainStays DEF HistoryInv, Rollback, ChainInv
<1>2. db' \in Tables /\ KeepsContent(db, db')
  BY RolledBackContent DEF HistoryInv, TypeOK, Rollback
<1> QED BY <1>1, <1>2 DEF HistoryInv, TypeOK, Rollback

\* A replay changes one row, and of that only the status if there is a row.
LEMMA RestoreKeeps ==
  ASSUME HistoryInv, NEW l \in Logs, NEW n \in Heights, NEW hash \in Hashes,
         Restore(l, n, hash)
  PROVE  /\ HistoryInv'
         /\ db'.raw = db.raw
         /\ \A k \in Logs : k # l => db'.events[k] = db.events[k]
         /\ db.events[l] # Absent =>
              /\ db.events[l].block = n /\ db.events[l].hash = hash
              /\ db'.events[l].block = n /\ db'.events[l].hash = hash
<1> USE ChainAssumption, IndexerAssumption
<1>1. ChainInv' /\ ChainTypes'
  BY ChainStays DEF HistoryInv, Restore, ChainInv
<1>2. db \in Tables /\ db.events[l] \in Records
  BY DEF HistoryInv, TypeOK, Tables
<1>3. PICK r \in Records : /\ db' = [db EXCEPT !.events[l] = r]
                           /\ \/ r.block = n /\ r.hash = hash
                              \/ r = db.events[l]
  <2>1. [block |-> n, hash |-> hash, status |-> "canonical"] \in Records
    BY <1>2 DEF Records, Statuses
  <2>2. CASE db.events[l].status \in {"absent", "uncertain"}
    BY <2>1, <2>2 DEF Restore
  <2>3. CASE db.events[l].status \notin {"absent", "uncertain"}
    BY <1>2, <2>3 DEF Restore
  <2> QED BY <2>2, <2>3
<1>4. /\ db' \in Tables /\ db'.raw = db.raw /\ db'.events[l] = r
      /\ \A k \in Logs : k # l => db'.events[k] = db.events[k]
  BY <1>2, <1>3 DEF Tables
<1>5. db.events[l] # Absent => db.events[l].block = n /\ db.events[l].hash = hash
  BY DEF Restore
<1>6. HistoryInv'
  BY <1>1, <1>4 DEF HistoryInv, TypeOK, Restore
<1> QED BY <1>3, <1>4, <1>5, <1>6

\* Every step keeps the tables' content, except for a replay.
LEMMA HistoryStep ==
  ASSUME HistoryInv, [Next]_vars
  PROVE  /\ HistoryInv'
         /\ \/ KeepsContent(db, db')
            \/ \E l \in Logs, n \in Heights, hash \in Hashes : Restore(l, n, hash)
<1>1. KeepsContent(db, db)
  BY DEF KeepsContent, KeepsRow
<1>2. CASE MoveChain
  BY <1>1, <1>2, ChainKeeps DEF MoveChain
<1>3. CASE \E c \in Contracts, start \in StartBlocks : BeginScan(c, start)
  BY <1>1, <1>3, BeginKeeps DEF BeginScan
<1>4. CASE ReadHeader \/ ReadLogs \/ IngestLogs
  <2>1. db' = db
    BY <1>4 DEF ReadHeader, ReadLogs, IngestLogs
  <2> QED BY <1>1, <1>4, <2>1, ScanKeeps
<1>5. CASE CommitScan \/ MissBlock \/ RefuseBlock \/ AbortScan
  BY <1>5, EndKeeps
<1>6. CASE OperatorStep
  BY <1>6, RollbackKeeps, RestoreKeeps DEF OperatorStep
<1>7. CASE UNCHANGED vars
  BY <1>1, <1>7 DEF vars, HistoryInv, TypeOK, ChainInv, ChainTypes
<1> QED BY <1>2, <1>3, <1>4, <1>5, <1>6, <1>7 DEF Next, ScanStep

LEMMA HistoryInvHolds == Spec => []HistoryInv
<1>1. HistoryInv /\ [Next]_vars => HistoryInv'
  BY HistoryStep
<1> QED BY <1>1, HistoryInit, PTL DEF Spec

\* ADR 0007: affected history is retained.  With any confirmation depth, any depth of
\* reorganisations, any number of scanners and any replays, a recorded event keeps its
\* block and hash, and its raw row stays as it is.
THEOREM HistoryIsRetained == Spec => HistoryIsKept
<1>1. ASSUME HistoryInv, [Next]_vars, NEW l \in Logs
      PROVE  /\ db.events[l] # Absent => /\ db'.events[l].block = db.events[l].block
                                         /\ db'.events[l].hash = db.events[l].hash
             /\ db.raw[l] # NoRaw => db'.raw[l] = db.raw[l]
  <2>1. CASE KeepsContent(db, db')
    BY <2>1 DEF KeepsContent, KeepsRow
  <2>2. ASSUME NEW k \in Logs, NEW n \in Heights, NEW hash \in Hashes, Restore(k, n, hash)
        PROVE  /\ db.events[l] # Absent => /\ db'.events[l].block = db.events[l].block
                                           /\ db'.events[l].hash = db.events[l].hash
               /\ db.raw[l] # NoRaw => db'.raw[l] = db.raw[l]
    BY <1>1, <2>2, RestoreKeeps
  <2> QED BY <1>1, <2>1, <2>2, HistoryStep
<1>2. HistoryInv /\ [Next]_vars
        => [\A l \in Logs :
              /\ db.events[l] # Absent => /\ db'.events[l].block = db.events[l].block
                                          /\ db'.events[l].hash = db.events[l].hash
              /\ db.raw[l] # NoRaw => db'.raw[l] = db.raw[l]]_vars
  BY <1>1
<1> QED BY <1>2, HistoryInvHolds, PTL DEF Spec, HistoryIsKept

\* ADR 0007: uncertainty is cleared only for matching replay identity and content.
\* With any depths, scanners and replays, an event that was withheld is shown again only
\* by a replay, in the block it was recorded with, and with it changes nothing else.
THEOREM UncertaintyIsSticky == Spec => OnlyReplaysClearUncertainty
<1> DEFINE Cleared(l) == db.events[l].status = "uncertain" /\ db'.events[l].status # "uncertain"
           Replayed(l) == /\ scan.phase = "idle"
                          /\ db' = [db EXCEPT !.events[l].status = "canonical"]
                          /\ UNCHANGED <<chainVars, work, scan, faults>>
<1>1. ASSUME HistoryInv, [Next]_vars, NEW l \in Logs, Cleared(l)
      PROVE  Replayed(l)
  <2>1. db.events[l] # Absent /\ db \in Tables /\ db.events[l] \in Records
    BY <1>1 DEF Absent, HistoryInv, TypeOK, Tables
  <2>2. ~ KeepsContent(db, db')
    BY <1>1, <2>1 DEF KeepsContent, KeepsRow
  <2>3. PICK k \in Logs, n \in Heights, hash \in Hashes : Restore(k, n, hash)
    BY <1>1, <2>2, HistoryStep
  <2>4. k = l
    BY <1>1, <2>3, RestoreKeeps
  <2>5. db.events[l].block = n /\ db.events[l].hash = hash
    BY <1>1, <2>1, <2>3, <2>4, RestoreKeeps
  <2>6. db' = [db EXCEPT !.events[l] = [block |-> n, hash |-> hash, status |-> "canonical"]]
    BY <1>1, <2>3, <2>4 DEF Restore
  <2>7. [block |-> n, hash |-> hash, status |-> "canonical"]
          = [db.events[l] EXCEPT !.status = "canonical"]
    BY <2>1, <2>5 DEF Records
  <2>8. db' = [db EXCEPT !.events[l].status = "canonical"]
    BY <2>1, <2>6, <2>7 DEF Tables
  <2> QED BY <2>3, <2>8 DEF Restore
<1>2. HistoryInv /\ [Next]_vars => [\A l \in Logs : Cleared(l) => Replayed(l)]_vars
  BY <1>1
<1> QED BY <1>2, HistoryInvHolds, PTL DEF Spec, OnlyReplaysClearUncertainty

-----------------------------------------------------------------------------
(* A scan is atomic.                                                        *)

\* A table as the snapshots see it.
Canonical(d) == {l \in Logs : d.events[l].status = "canonical"}
Withheld(d) == {l \in Logs : d.events[l].status = "uncertain"}
Archived(d) == {l \in Logs : d.raw[l] # NoRaw}
Scanned(d) == {n \in Heights : d.checkpoints[n] # NoHash}

\* An event that was stored is shown or withheld: nothing waits for promotion,
\* since a block is confirmed before it is read.
RowsAreShown(d) ==
  \A l \in Logs : d.events[l] = Absent \/ d.events[l].status \in {"canonical", "uncertain"}

\* The running scan began with block `first`, and what its transaction holds is
\* the committed tables and one snapshot of the blocks it has passed.
WorkIsSnapshot(first) ==
  LET done == first .. (scan.next - 1)
      found == Snapshots!LogsIn(scan.contract, done)
  IN  /\ first <= scan.next
      /\ ConfirmedThrough(scan.head, first)
      /\ \A n \in done : ConfirmedThrough(scan.head, n)
      /\ Canonical(work) = Canonical(db) \cup (found \ Withheld(db))
      /\ Withheld(work) = Withheld(db)
      /\ Archived(work) = Archived(db) \cup found
      /\ Scanned(work) = Scanned(db) \cup done
                           \cup (IF scan.phase = "ingest" THEN {scan.next} ELSE {})

\* Inductive relative to IndexerInv.
SnapshotInv ==
  /\ RowsAreShown(db)
  /\ RowsAreShown(work)
  /\ scan.phase # "idle" => \E first \in Heights : WorkIsSnapshot(first)

LEMMA CheckpointedShows ==
  ASSUME NEW d \in Tables, RowsAreShown(d), NEW c \in Contracts, NEW n \in Heights,
         NEW hash \in Hashes, NEW head \in Nat
  PROVE  LET e == Checkpointed(d, c, n, hash, head)
         IN  /\ RowsAreShown(e)
             /\ Canonical(e) = Canonical(d) /\ Withheld(e) = Withheld(d)
             /\ Archived(e) = Archived(d)
             /\ Scanned(e) = Scanned(d) \cup {n}
<1> DEFINE e == Checkpointed(d, c, n, hash, head)
<1>1. d.events \in [Logs -> Records] /\ d.checkpoints \in [Heights -> Hashes \cup {NoHash}]
  BY DEF Tables
<1>2. \A l \in Logs : d.events[l].status # "unfinalized"
  <2>1. Absent.status = "absent"
    BY DEF Absent
  <2> QED BY <2>1 DEF RowsAreShown
<1>3. FinalizeThrough(d.events, c, head - Confirmations) = d.events
  <2>1. FinalizeThrough(d.events, c, head - Confirmations) = [l \in Logs |-> d.events[l]]
    BY <1>2, Zenon DEF FinalizeThrough
  <2> QED BY <1>1, <2>1
<1>4. /\ e.events = d.events /\ e.raw = d.raw
      /\ e.checkpoints = [d.checkpoints EXCEPT ![n] = hash]
  BY <1>3 DEF Checkpointed, Tables
<1>5. hash # NoHash
  BY ChainAssumption DEF Hashes, NoHash
<1> HIDE DEF e
<1>6. Scanned(e) = Scanned(d) \cup {n}
  BY <1>1, <1>4, <1>5 DEF Scanned
<1>7. /\ RowsAreShown(e) /\ Canonical(e) = Canonical(d) /\ Withheld(e) = Withheld(d)
      /\ Archived(e) = Archived(d)
  BY <1>4 DEF RowsAreShown, Canonical, Withheld, Archived
<1> QED BY <1>6, <1>7 DEF e

\* The tables e are d after these logs were shown.
ShowsAlso(e, d, logs) ==
  /\ RowsAreShown(e)
  /\ Canonical(e) = Canonical(d) \cup (logs \ Withheld(d))
  /\ Withheld(e) = Withheld(d)
  /\ Archived(e) = Archived(d) \cup logs
  /\ Scanned(e) = Scanned(d)

LEMMA IngestedShows ==
  ASSUME NEW d \in Tables, RowsAreShown(d), NEW n \in Heights, NEW hash \in Hashes,
         NEW logs, logs \subseteq Logs, NEW head, StatusAt(n, head) = "canonical"
  PROVE  ShowsAlso(Ingested(d, n, hash, logs, head), d, logs)
<1> DEFINE e == Ingested(d, n, hash, logs, head)
           new == [block |-> n, hash |-> hash, status |-> "canonical"]
<1>2. /\ e.checkpoints = d.checkpoints
      /\ \A l \in Logs : e.raw[l] = IF l \in logs THEN [block |-> n, hash |-> hash] ELSE d.raw[l]
      /\ \A l \in Logs : e.events[l] = IF l \in logs /\ d.events[l] = Absent
                                         THEN new ELSE d.events[l]
  BY DEF Ingested, Tables, InsertEvent
<1>3. [block |-> n, hash |-> hash] # NoRaw
  <2>1. hash # 0
    BY ChainAssumption DEF Hashes
  <2>2. [block |-> n, hash |-> hash].hash = hash /\ NoRaw.hash = 0
    BY DEF NoRaw, NoHash
  <2> QED BY <2>1, <2>2
<1>4. new.status = "canonical" /\ Absent.status = "absent"
  BY DEF Absent
<1> HIDE DEF e, new
<1>5. RowsAreShown(e)
  BY <1>2, <1>4 DEF RowsAreShown
<1>6. Archived(e) = Archived(d) \cup logs
  BY <1>2, <1>3 DEF Archived
<1>7. Withheld(e) = Withheld(d)
  BY <1>2, <1>4 DEF Withheld
<1>8. ASSUME NEW l \in Logs
      PROVE  l \in Canonical(e) <=> l \in Canonical(d) \cup (logs \ Withheld(d))
  <2>1. CASE l \in logs /\ d.events[l] = Absent
    BY <1>2, <1>4, <2>1 DEF Canonical, Withheld
  <2>2. CASE l \in logs /\ d.events[l] # Absent
    BY <1>2, <2>2 DEF Canonical, Withheld, RowsAreShown
  <2>3. CASE l \notin logs
    BY <1>2, <2>3 DEF Canonical, Withheld
  <2> QED BY <2>1, <2>2, <2>3
<1>9. Canonical(e) = Canonical(d) \cup (logs \ Withheld(d))
  BY <1>8 DEF Canonical
<1>10. Scanned(e) = Scanned(d)
  BY <1>2 DEF Scanned
<1> QED BY <1>5, <1>6, <1>7, <1>9, <1>10 DEF e, ShowsAlso

\* The logs of one more block.
LEMMA OneMoreBlock ==
  ASSUME NEW c, NEW first \in Nat, NEW n \in Nat, first <= n
  PROVE  /\ first .. n = (first .. (n - 1)) \cup {n}
         /\ Snapshots!LogsIn(c, first .. n) =
              Snapshots!LogsIn(c, first .. (n - 1)) \cup
              {l \in Logs : ContractOf[l] = c /\ l \in block[n].logs}
<1>1. first .. n = (first .. (n - 1)) \cup {n}
  OBVIOUS
<1>2. \A l \in Logs : (\E m \in first .. n : l \in block[m].logs) <=>
        (\E m \in first .. (n - 1) : l \in block[m].logs) \/ l \in block[n].logs
  BY <1>1
<1> QED BY <1>1, <1>2 DEF Snapshots!LogsIn

\* The blocks a scan has passed are heights, and final.
LEMMA PassedAreFinal ==
  ASSUME Configured, IndexerInv, scan.phase # "idle", NEW first \in Heights,
         \A n \in first .. (scan.next - 1) : ConfirmedThrough(scan.head, n)
  PROVE  \A n \in first .. (scan.next - 1) : n \in Heights /\ Final(n)
<1> USE ChainAssumption, IndexerAssumption
<1>1. /\ highest \in 0 .. MaxHeight /\ scan.head \in Nat /\ scan.head <= highest
      /\ scan.next \in Nat
  BY DEF IndexerInv, TypeOK, ChainTypes, Scans, ScanOnChain
<1>2. SUFFICES ASSUME NEW n \in first .. (scan.next - 1)
               PROVE  n \in Heights /\ Final(n)
  OBVIOUS
<1>3. n + Confirmations <= scan.head /\ n \in Nat /\ 1 <= n
  BY <1>1, <1>2 DEF ConfirmedThrough, Heights
<1> QED BY <1>1, <1>3 DEF Heights, Final, Configured

LEMMA SnapshotInvInit == Init => SnapshotInv
BY DEF Init, SnapshotInv, RowsAreShown, EmptyTables, Idle

LEMMA SnapshotInvMove == Configured /\ IndexerInv /\ SnapshotInv /\ MoveChain => SnapshotInv'
<1> SUFFICES ASSUME Configured, IndexerInv, SnapshotInv, MoveChain PROVE SnapshotInv'
  OBVIOUS
<1>1. db' = db /\ work' = work /\ scan' = scan
  BY DEF MoveChain
<1>2. ASSUME scan.phase # "idle", NEW first \in Heights, WorkIsSnapshot(first)
      PROVE  WorkIsSnapshot(first)'
  <2> DEFINE done == first .. (scan.next - 1)
  <2>1. \A n \in done : n \in Heights /\ Final(n)
    BY <1>2, PassedAreFinal DEF WorkIsSnapshot
  <2>2. \A n \in done : block'[n] = block[n]
    BY <2>1, FinalBlocksStay DEF IndexerInv, MoveChain
  <2>3. \A c : Snapshots!LogsIn(c, done)' = Snapshots!LogsIn(c, done)
    BY <1>1, <2>2 DEF Snapshots!LogsIn
  <2> QED BY <1>1, <1>2, <2>3
          DEF WorkIsSnapshot, Canonical, Withheld, Archived, Scanned, ConfirmedThrough
<1> QED BY <1>1, <1>2 DEF SnapshotInv, RowsAreShown

LEMMA SnapshotInvBegin ==
  ASSUME IndexerInv, SnapshotInv, NEW c \in Contracts, NEW start \in StartBlocks,
         BeginScan(c, start)
  PROVE  SnapshotInv'
<1> USE ChainAssumption, IndexerAssumption
<1>1. /\ db' = db /\ work' = db /\ ConfirmedThrough(height, start) /\ start \in Heights
      /\ scan'.phase = "header" /\ scan'.contract = c /\ scan'.head = height
      /\ scan'.next = start /\ UNCHANGED chainVars
  BY DEF BeginScan
<1>2. start .. (start - 1) = {}
  BY <1>1 DEF Heights
<1>3. Snapshots!LogsIn(c, {})' = {}
  BY DEF Snapshots!LogsIn
<1>4. WorkIsSnapshot(start)'
  BY <1>1, <1>2, <1>3
  DEF WorkIsSnapshot, Canonical, Withheld, Archived, Scanned, ConfirmedThrough, Heights
<1> QED BY <1>1, <1>4 DEF SnapshotInv, RowsAreShown

LEMMA SnapshotInvReadHeader == SnapshotInv /\ IndexerInv /\ ReadHeader => SnapshotInv'
<1> SUFFICES ASSUME SnapshotInv, IndexerInv, ReadHeader PROVE SnapshotInv'
  OBVIOUS
<1>1. /\ db' = db /\ work' = work /\ scan.phase = "header" /\ scan'.phase = "logs"
      /\ scan'.contract = scan.contract /\ scan'.head = scan.head /\ scan'.next = scan.next
      /\ block' = block
  BY DEF ReadHeader, IndexerInv, TypeOK, Scans, chainVars
<1>2. PICK first \in Heights : WorkIsSnapshot(first)
  BY <1>1 DEF SnapshotInv
<1>3. WorkIsSnapshot(first)'
  BY <1>1, <1>2
  DEF WorkIsSnapshot, Canonical, Withheld, Archived, Scanned, ConfirmedThrough, Snapshots!LogsIn
<1> QED BY <1>1, <1>3 DEF SnapshotInv, RowsAreShown

LEMMA SnapshotInvReadLogs == Configured /\ SnapshotInv /\ IndexerInv /\ ReadLogs => SnapshotInv'
<1> SUFFICES ASSUME Configured, SnapshotInv, IndexerInv, ReadLogs PROVE SnapshotInv'
  OBVIOUS
<1>1. /\ db' = db /\ scan.phase = "logs" /\ scan'.phase = "ingest"
      /\ scan'.contract = scan.contract /\ scan'.head = scan.head /\ scan'.next = scan.next
      /\ block' = block
      /\ work' = Checkpointed(work, scan.contract, scan.next, scan.hash, scan.head)
  BY DEF ReadLogs, IndexerInv, TypeOK, Scans, chainVars
<1>2. PICK first \in Heights : WorkIsSnapshot(first)
  BY <1>1 DEF SnapshotInv
<1>3. /\ RowsAreShown(work')
      /\ Canonical(work') = Canonical(work) /\ Withheld(work') = Withheld(work)
      /\ Archived(work') = Archived(work) /\ Scanned(work') = Scanned(work) \cup {scan.next}
  <2>1. /\ work \in Tables /\ RowsAreShown(work) /\ scan.next \in Heights
        /\ scan.hash \in Hashes /\ scan.head \in Nat /\ scan.contract \in Contracts
    BY <1>1, ScannedIsFinal DEF IndexerInv, TypeOK, SnapshotInv
  <2> QED BY <1>1, <2>1, CheckpointedShows
<1>4. WorkIsSnapshot(first)'
  <2>1. Snapshots!LogsIn(scan.contract, first .. (scan.next - 1))' =
        Snapshots!LogsIn(scan.contract, first .. (scan.next - 1))
    BY <1>1 DEF Snapshots!LogsIn
  <2>2. /\ Canonical(work)' = Canonical(work') /\ Withheld(work)' = Withheld(work')
        /\ Archived(work)' = Archived(work') /\ Scanned(work)' = Scanned(work')
        /\ Canonical(db)' = Canonical(db) /\ Withheld(db)' = Withheld(db)
        /\ Archived(db)' = Archived(db) /\ Scanned(db)' = Scanned(db)
    BY <1>1 DEF Canonical, Withheld, Archived, Scanned
  <2> QED BY <1>1, <1>2, <1>3, <2>1, <2>2 DEF WorkIsSnapshot, ConfirmedThrough
<1> QED BY <1>1, <1>3, <1>4 DEF SnapshotInv, RowsAreShown

LEMMA SnapshotInvIngest == Configured /\ SnapshotInv /\ IndexerInv /\ IngestLogs => SnapshotInv'
<1> SUFFICES ASSUME Configured, SnapshotInv, IndexerInv, IngestLogs PROVE SnapshotInv'
  OBVIOUS
<1> USE ChainAssumption, IndexerAssumption
<1>1. /\ db' = db /\ scan.phase = "ingest" /\ scan'.phase = "header"
      /\ scan'.contract = scan.contract /\ scan'.head = scan.head /\ scan'.next = scan.next + 1
      /\ block' = block
      /\ work' = Ingested(work, scan.next, scan.hash, scan.logs, scan.head)
  BY DEF IngestLogs, IndexerInv, TypeOK, Scans, chainVars
<1>2. PICK first \in Heights : WorkIsSnapshot(first)
  BY <1>1 DEF SnapshotInv
<1>3. /\ scan.next \in Heights /\ ConfirmedThrough(scan.head, scan.next)
      /\ scan.logs = {l \in block[scan.next].logs : ContractOf[l] = scan.contract}
      /\ scan.logs \subseteq Logs
  BY <1>1 DEF IndexerInv, ScanOnChain, TypeOK, Scans
<1>4. /\ RowsAreShown(work')
      /\ Canonical(work') = Canonical(work) \cup (scan.logs \ Withheld(work))
      /\ Withheld(work') = Withheld(work)
      /\ Archived(work') = Archived(work) \cup scan.logs
      /\ Scanned(work') = Scanned(work)
  <2>1. /\ work \in Tables /\ RowsAreShown(work) /\ scan.hash \in Hashes /\ scan.head \in Nat
    BY <1>1, ScannedIsFinal DEF IndexerInv, TypeOK, SnapshotInv
  <2>2. StatusAt(scan.next, scan.head) = "canonical"
    BY <1>3, <2>1 DEF StatusAt, ConfirmedThrough, Heights
  <2>3. ShowsAlso(Ingested(work, scan.next, scan.hash, scan.logs, scan.head), work, scan.logs)
    BY <1>3, <2>1, <2>2, IngestedShows
  <2> QED BY <1>1, <2>3 DEF ShowsAlso
<1> DEFINE done == first .. (scan.next - 1)
           found == Snapshots!LogsIn(scan.contract, done)
<1>5. /\ first .. scan.next = done \cup {scan.next}
      /\ Snapshots!LogsIn(scan.contract, first .. scan.next) = found \cup scan.logs
  <2>1. first \in Nat /\ scan.next \in Nat /\ first <= scan.next
    BY <1>2, <1>3 DEF WorkIsSnapshot, Heights
  <2>2. scan.logs = {l \in Logs : ContractOf[l] = scan.contract /\ l \in block[scan.next].logs}
    BY <1>3
  <2> QED BY <2>1, <2>2, OneMoreBlock
<1>6. scan'.next - 1 = scan.next /\ first <= scan'.next
  BY <1>1, <1>2, <1>3 DEF WorkIsSnapshot, Heights
<1>7. \A n \in first .. (scan'.next - 1) : ConfirmedThrough(scan.head, n)
  BY <1>2, <1>3, <1>5, <1>6 DEF WorkIsSnapshot
<1>8. /\ Canonical(work') = Canonical(db) \cup ((found \cup scan.logs) \ Withheld(db))
      /\ Withheld(work') = Withheld(db)
      /\ Archived(work') = Archived(db) \cup (found \cup scan.logs)
      /\ Scanned(work') = Scanned(db) \cup (done \cup {scan.next})
  BY <1>1, <1>2, <1>4 DEF WorkIsSnapshot
<1>9. Snapshots!LogsIn(scan.contract, first .. (scan.next - 1))' = found \cup scan.logs
  <2>1. Snapshots!LogsIn(scan.contract, first .. (scan.next - 1))' =
        Snapshots!LogsIn(scan.contract, first .. scan.next)
    BY <1>1, <1>6 DEF Snapshots!LogsIn
  <2> QED BY <1>5, <2>1
<1>10. WorkIsSnapshot(first)'
  <2>1. /\ Canonical(work)' = Canonical(work') /\ Withheld(work)' = Withheld(work')
        /\ Archived(work)' = Archived(work') /\ Scanned(work)' = Scanned(work')
        /\ Canonical(db)' = Canonical(db) /\ Withheld(db)' = Withheld(db)
        /\ Archived(db)' = Archived(db) /\ Scanned(db)' = Scanned(db)
    BY <1>1 DEF Canonical, Withheld, Archived, Scanned
  <2> HIDE DEF done, found
  <2> QED BY <1>1, <1>2, <1>5, <1>6, <1>7, <1>8, <1>9, <2>1 DEF WorkIsSnapshot, ConfirmedThrough
<1> QED BY <1>1, <1>4, <1>10 DEF SnapshotInv, RowsAreShown

LEMMA SnapshotInvEnd == SnapshotInv /\ (CommitScan \/ EndFailedScan) => SnapshotInv'
<1> SUFFICES ASSUME SnapshotInv, CommitScan \/ EndFailedScan PROVE SnapshotInv'
  OBVIOUS
<1>1. scan'.phase = "idle" /\ work' = EmptyTables /\ db' \in {db, work}
  BY DEF CommitScan, EndFailedScan, AfterFailure, Idle
<1>2. \A l \in Logs : EmptyTables.events[l] = Absent
  BY DEF EmptyTables
<1> QED BY <1>1, <1>2 DEF SnapshotInv, RowsAreShown

\* Rolling back, as the snapshots see it: the contract's events from block n on.
LEMMA RolledBackShows ==
  ASSUME IndexerInv, RowsAreShown(db), NEW c \in Contracts, NEW n \in Heights
  PROVE  LET e == RolledBack(db, c, n)
             undone == Canonical(db) \cap Snapshots!LogsIn(c, {m \in Heights : n <= m})
         IN  /\ RowsAreShown(e)
             /\ Canonical(e) = Canonical(db) \ undone
             /\ Withheld(e) = Withheld(db) \cup undone
             /\ Archived(e) = Archived(db)
             /\ Scanned(e) = {m \in Scanned(db) : m < n}
<1> DEFINE e == RolledBack(db, c, n)
           undone == Canonical(db) \cap Snapshots!LogsIn(c, {m \in Heights : n <= m})
<1> USE ChainAssumption
<1>1. /\ e.raw = db.raw
      /\ \A m \in Heights : e.checkpoints[m] = IF n <= m THEN NoHash ELSE db.checkpoints[m]
      /\ \A l \in Logs : e.events[l] =
           IF /\ ContractOf[l] = c
              /\ n <= db.events[l].block
              /\ db.events[l].status \in {"canonical", "unfinalized"}
             THEN [db.events[l] EXCEPT !.status = "uncertain"]
             ELSE db.events[l]
  BY DEF RolledBack, Affected, IndexerInv, TypeOK, Tables
<1>2. Absent.status = "absent"
  BY DEF Absent
<1>3. ASSUME NEW l \in Logs, l \in Canonical(db)
      PROVE  l \in undone <=> ContractOf[l] = c /\ n <= db.events[l].block
  <2>1. db.events[l] # Absent
    BY <1>2, <1>3 DEF Canonical
  <2>2. db.events[l].block \in Heights /\ l \in block[db.events[l].block].logs
    BY <2>1 DEF IndexerInv, ProjectionOnChain, TablesOnChain, Recorded
  <2>3. \A m \in Heights : l \in block[m].logs => m = db.events[l].block
    BY <2>2 DEF IndexerInv, ChainInv
  <2> QED BY <1>3, <2>2, <2>3 DEF Snapshots!LogsIn
<1>4. ASSUME NEW l \in Logs
      PROVE  /\ l \in undone => e.events[l].status = "uncertain"
             /\ l \notin undone => e.events[l] = db.events[l]
  <2>1. db.events[l] \in Records
    BY DEF IndexerInv, TypeOK, Tables
  <2>2. CASE l \in undone
    <3>1. ContractOf[l] = c /\ n <= db.events[l].block /\ db.events[l].status = "canonical"
      BY <1>3, <2>2 DEF Canonical
    <3>2. e.events[l] = [db.events[l] EXCEPT !.status = "uncertain"]
      BY <1>1, <3>1
    <3> QED BY <2>1, <2>2, <3>2 DEF Records
  <2>3. CASE l \notin undone
    <3>1. db.events[l].status # "unfinalized"
      BY <1>2 DEF RowsAreShown
    <3>2. ~(ContractOf[l] = c /\ n <= db.events[l].block /\ db.events[l].status = "canonical")
      BY <1>3, <2>3 DEF Canonical
    <3> QED BY <1>1, <2>3, <3>1, <3>2
  <2> QED BY <2>2, <2>3
<1>5. undone \subseteq Canonical(db)
  OBVIOUS
<1> HIDE DEF e, undone
<1>6. RowsAreShown(e)
  BY <1>4 DEF RowsAreShown
<1>7. Canonical(e) = Canonical(db) \ undone
  BY <1>4 DEF Canonical
<1>8. Withheld(e) = Withheld(db) \cup undone
  <2>1. undone \subseteq Logs
    BY <1>5 DEF Canonical
  <2> QED BY <1>4, <2>1 DEF Withheld
<1>9. Archived(e) = Archived(db)
  BY <1>1 DEF Archived
<1>10. Scanned(e) = {m \in Scanned(db) : m < n}
  <2>1. \A m \in Heights : n <= m <=> ~(m < n)
    BY DEF Heights
  <2> QED BY <1>1, <2>1 DEF Scanned
<1> QED BY <1>6, <1>7, <1>8, <1>9, <1>10 DEF e, undone

\* Showing an event again, as the snapshots see it.
LEMMA RestoreShows ==
  ASSUME IndexerInv, RowsAreShown(db), ReplayPolicy # "any", NEW l \in Logs, NEW n \in Heights,
         NEW hash \in Hashes, IsReplayed(l), Restore(l, n, hash)
  PROVE  /\ RowsAreShown(db')
         /\ Archived(db') = Archived(db) /\ Scanned(db') = Scanned(db)
         /\ \/ Canonical(db') = Canonical(db) /\ Withheld(db') = Withheld(db)
            \/ /\ l \in Withheld(db) /\ Final(n) /\ l \in block[n].logs
               /\ Canonical(db') = Canonical(db) \cup {l}
               /\ Withheld(db') = Withheld(db) \ {l}
<1>1. db \in Tables /\ db.events[l] # Absent
  BY DEF IndexerInv, TypeOK, IsReplayed
<1>2. CASE db.events[l].status = "uncertain"
  <2> DEFINE new == [block |-> n, hash |-> hash, status |-> "canonical"]
  <2>1. db' = [db EXCEPT !.events[l] = new]
    BY <1>2 DEF Restore
  <2>2. /\ db'.checkpoints = db.checkpoints /\ db'.raw = db.raw
        /\ \A k \in Logs : db'.events[k] = IF k = l THEN new ELSE db.events[k]
    BY <1>1, <2>1 DEF Tables
  <2>3. new.status = "canonical"
    OBVIOUS
  <2>4. Final(n) /\ l \in block[n].logs
    <3>1. db.events[l].block = n
      BY <1>1 DEF Restore
    <3> QED BY <1>1, <3>1 DEF IndexerInv, ProjectionOnChain, TablesOnChain, Recorded
  <2> HIDE DEF new
  <2> QED BY <1>2, <2>2, <2>3, <2>4 DEF RowsAreShown, Archived, Scanned, Canonical, Withheld
<1>3. CASE db.events[l].status # "uncertain"
  <2>1. db.events[l].status # "absent"
    BY <1>1, <1>3 DEF RowsAreShown
  <2>2. db' = [db EXCEPT !.events[l] = @]
    BY <1>3, <2>1 DEF Restore
  <2>3. db' = db
    BY <1>1, <2>2 DEF Tables
  <2> QED BY <2>3
<1> QED BY <1>2, <1>3

LEMMA SnapshotInvNext ==
  ASSUME Configured, ReplayPolicy # "any", IndexerInv, SnapshotInv, [Next]_vars
  PROVE  SnapshotInv'
<1>1. CASE MoveChain
  BY <1>1, SnapshotInvMove
<1>2. ASSUME NEW c \in Contracts, NEW start \in StartBlocks, BeginScan(c, start)
      PROVE  SnapshotInv'
  BY <1>2, SnapshotInvBegin
<1>3. CASE ReadHeader
  BY <1>3, SnapshotInvReadHeader
<1>4. CASE ReadLogs
  BY <1>4, SnapshotInvReadLogs
<1>5. CASE IngestLogs
  BY <1>5, SnapshotInvIngest
<1>6. CASE RefuseBlock \/ CommitScan \/ MissBlock \/ AbortScan
  BY <1>6, SnapshotInvEnd DEF RefuseBlock, MissBlock, AbortScan
<1>7. ASSUME NEW c \in Contracts, NEW n \in Heights, Rollback(c, n)
      PROVE  SnapshotInv'
  <2>1. RowsAreShown(db')
    BY <1>7, RolledBackShows DEF Rollback, SnapshotInv
  <2> QED BY <1>7, <2>1 DEF Rollback, SnapshotInv, RowsAreShown
<1>8. ASSUME NEW l \in Logs, NEW n \in Heights, NEW hash \in Hashes, IsReplayed(l),
             Restore(l, n, hash)
      PROVE  SnapshotInv'
  <2>1. RowsAreShown(db')
    BY <1>8, RestoreShows DEF SnapshotInv
  <2> QED BY <1>8, <2>1 DEF Restore, SnapshotInv, RowsAreShown
<1>9. CASE UNCHANGED vars
  BY <1>9 DEF vars, SnapshotInv, RowsAreShown, WorkIsSnapshot, ConfirmedThrough, Canonical,
              Withheld, Archived, Scanned, Snapshots!LogsIn
<1> QED BY <1>1, <1>2, <1>3, <1>4, <1>5, <1>6, <1>7, <1>8, <1>9 DEF Next, ScanStep, OperatorStep

-----------------------------------------------------------------------------
\* What the mapping of Snapshots stands for.
LEMMA SnapshotTables ==
  /\ EventsThatAre("canonical") = Canonical(db)
  /\ EventsThatAre("uncertain") = Withheld(db)
  /\ {l \in Logs : db.raw[l] # NoRaw} = Archived(db)
  /\ {n \in Heights : db.checkpoints[n] # NoHash} = Scanned(db)
BY DEF EventsThatAre, Canonical, Withheld, Archived, Scanned

LEMMA SnapshotsInit == Init => Snapshots!SnapshotInit
<1> SUFFICES ASSUME Init PROVE Snapshots!SnapshotInit
  OBVIOUS
<1> USE ChainAssumption
<1>1. {n \in Heights : Final(n)} = {}
  BY DEF Init, ChainInit, Final, Heights
<1>2. /\ \A l \in Logs : db.events[l].status = "absent" /\ db.raw[l] = NoRaw
      /\ \A n \in Heights : db.checkpoints[n] = NoHash
  BY DEF Init, EmptyTables, Absent
<1> QED BY <1>1, <1>2 DEF Snapshots!SnapshotInit, EventsThatAre

\* A step of a scan that does not end it, and one that ends it in vain.
LEMMA TablesStay ==
  ASSUME UNCHANGED <<chainVars, db>>
  PROVE  UNCHANGED Snapshots!snapshotVars
BY DEF chainVars, Snapshots!snapshotVars, Snapshots!tableVars, EventsThatAre, Final

LEMMA CommitIsASnapshot ==
  ASSUME Configured, IndexerInv, SnapshotInv, CommitScan
  PROVE  \E c \in Contracts, first, last \in Heights : Snapshots!Scan(c, first, last)
<1> USE ChainAssumption, IndexerAssumption
<1>1. /\ scan.phase = "header" /\ ~ConfirmedThrough(scan.head, scan.next)
      /\ db' = work /\ UNCHANGED chainVars
  BY DEF CommitScan
<1>2. PICK first \in Heights : WorkIsSnapshot(first)
  BY <1>1 DEF SnapshotInv
<1>3. scan.contract \in Contracts /\ scan.next \in Nat
  BY DEF IndexerInv, TypeOK, Scans
<1> PICK c \in Contracts : c = scan.contract
  BY <1>3
<1> PICK last : last = scan.next - 1
  BY <1>3
<1>4. \A n \in first .. last : n \in Heights /\ Final(n)
  BY <1>1, <1>2, PassedAreFinal DEF WorkIsSnapshot
<1>5. last \in Heights
  <2>1. first <= scan.next /\ ConfirmedThrough(scan.head, first)
    BY <1>2 DEF WorkIsSnapshot
  <2>2. first # scan.next
    BY <1>1, <2>1
  <2>3. last \in first .. last
    BY <1>3, <2>1, <2>2 DEF Heights
  <2> QED BY <1>4, <2>3
<1>6. /\ Canonical(db') = Canonical(db) \cup (Snapshots!LogsIn(c, first .. last) \ Withheld(db))
      /\ Withheld(db') = Withheld(db)
      /\ Archived(db') = Archived(db) \cup Snapshots!LogsIn(c, first .. last)
      /\ Scanned(db') = Scanned(db) \cup (first .. last)
  BY <1>1, <1>2 DEF WorkIsSnapshot
<1>7. first .. last \subseteq {n \in Heights : Final(n)}
  BY <1>4
<1>8. Snapshots!Scan(c, first, last)
  <2>1. UNCHANGED <<block, {n \in Heights : Final(n)}>>
    BY <1>1 DEF chainVars, Final
  <2>2. /\ EventsThatAre("canonical")' = Canonical(db')
        /\ EventsThatAre("uncertain")' = Withheld(db')
        /\ {l \in Logs : db.raw[l] # NoRaw}' = Archived(db')
        /\ {n \in Heights : db.checkpoints[n] # NoHash}' = Scanned(db')
    BY DEF EventsThatAre, Canonical, Withheld, Archived, Scanned
  <2> QED BY <1>6, <1>7, <2>1, <2>2, SnapshotTables DEF Snapshots!Scan
<1> QED BY <1>3, <1>5, <1>8

LEMMA RollbackWithholds ==
  ASSUME IndexerInv, SnapshotInv, NEW c \in Contracts, NEW n \in Heights, Rollback(c, n)
  PROVE  Snapshots!Withhold(c, n)
<1>1. db' = RolledBack(db, c, n) /\ UNCHANGED chainVars
  BY DEF Rollback
<1> DEFINE undone == Canonical(db) \cap Snapshots!LogsIn(c, {m \in Heights : n <= m})
<1>2. /\ Canonical(db') = Canonical(db) \ undone
      /\ Withheld(db') = Withheld(db) \cup undone
      /\ Archived(db') = Archived(db)
      /\ Scanned(db') = {m \in Scanned(db) : m < n}
  BY <1>1, RolledBackShows DEF SnapshotInv
<1>3. UNCHANGED <<block, {m \in Heights : Final(m)}>>
  BY <1>1 DEF chainVars, Final
<1>4. /\ EventsThatAre("canonical")' = Canonical(db')
      /\ EventsThatAre("uncertain")' = Withheld(db')
      /\ {l \in Logs : db.raw[l] # NoRaw}' = Archived(db')
      /\ {m \in Heights : db.checkpoints[m] # NoHash}' = Scanned(db')
  BY DEF EventsThatAre, Canonical, Withheld, Archived, Scanned
<1> QED BY <1>2, <1>3, <1>4, SnapshotTables DEF Snapshots!Withhold

LEMMA RestoreShowsAgain ==
  ASSUME IndexerInv, SnapshotInv, ReplayPolicy # "any", NEW l \in Logs, NEW n \in Heights,
         NEW hash \in Hashes, IsReplayed(l), Restore(l, n, hash)
  PROVE  Snapshots!ShowAgain(l) \/ UNCHANGED Snapshots!snapshotVars
<1>1. UNCHANGED <<block, {m \in Heights : Final(m)}>>
  BY DEF Restore, chainVars, Final
<1>2. /\ EventsThatAre("canonical")' = Canonical(db')
      /\ EventsThatAre("uncertain")' = Withheld(db')
      /\ {k \in Logs : db.raw[k] # NoRaw}' = Archived(db')
      /\ {m \in Heights : db.checkpoints[m] # NoHash}' = Scanned(db')
  BY DEF EventsThatAre, Canonical, Withheld, Archived, Scanned
<1>3. Archived(db') = Archived(db) /\ Scanned(db') = Scanned(db)
  BY RestoreShows DEF SnapshotInv
<1>4. CASE Canonical(db') = Canonical(db) /\ Withheld(db') = Withheld(db)
  BY <1>1, <1>2, <1>3, <1>4, SnapshotTables DEF Snapshots!snapshotVars, Snapshots!tableVars
<1>5. CASE /\ l \in Withheld(db) /\ Final(n) /\ l \in block[n].logs
           /\ Canonical(db') = Canonical(db) \cup {l}
           /\ Withheld(db') = Withheld(db) \ {l}
  BY <1>1, <1>2, <1>3, <1>5, SnapshotTables DEF Snapshots!ShowAgain
<1> QED BY <1>4, <1>5, RestoreShows DEF SnapshotInv

LEMMA ChainMovesOn == IndexerInv /\ MoveChain => Snapshots!ChainMoves
<1> SUFFICES ASSUME IndexerInv, MoveChain PROVE Snapshots!ChainMoves
  OBVIOUS
<1>1. \A n \in Heights : Final(n) => Final(n)' /\ block'[n] = block[n]
  BY FinalBlocksStay DEF IndexerInv, MoveChain
<1>2. UNCHANGED Snapshots!tableVars
  BY DEF MoveChain, Snapshots!tableVars, EventsThatAre
<1> QED BY <1>1, <1>2 DEF Snapshots!ChainMoves

LEMMA SnapshotStep ==
  ASSUME Configured, ReplayPolicy # "any", IndexerInv, SnapshotInv, [Next]_vars
  PROVE  [Snapshots!SnapshotNext]_(Snapshots!snapshotVars)
<1> USE DEF Snapshots!SnapshotNext
<1>1. CASE MoveChain
  BY <1>1, ChainMovesOn
<1>2. CASE \/ \E c \in Contracts, start \in StartBlocks : BeginScan(c, start)
           \/ ReadHeader \/ ReadLogs \/ IngestLogs
  BY <1>2, TablesStay DEF BeginScan, ReadHeader, ReadLogs, IngestLogs
<1>3. CASE RefuseBlock \/ MissBlock \/ AbortScan
  BY <1>3, TablesStay DEF RefuseBlock, MissBlock, AbortScan, EndFailedScan, AfterFailure
<1>4. CASE CommitScan
  BY <1>4, CommitIsASnapshot
<1>5. ASSUME NEW c \in Contracts, NEW n \in Heights, Rollback(c, n)
      PROVE  Snapshots!SnapshotNext
  BY <1>5, RollbackWithholds
<1>6. ASSUME NEW l \in Logs, NEW n \in Heights, NEW hash \in Hashes, IsReplayed(l),
             Restore(l, n, hash)
      PROVE  Snapshots!SnapshotNext \/ UNCHANGED Snapshots!snapshotVars
  BY <1>6, RestoreShowsAgain
<1>7. CASE UNCHANGED vars
  BY <1>7, TablesStay DEF vars, chainVars
<1> HIDE DEF Snapshots!SnapshotNext
<1> QED BY <1>1, <1>2, <1>3, <1>4, <1>5, <1>6, <1>7 DEF Next, ScanStep, OperatorStep

\* Reading the head, headers and logs one by one from a chain that moves, in a
\* transaction that may fail anywhere, is reading each range at one instant:
\* PersistentIndexer implements SnapshotIndexer.
THEOREM ScansAreAtomic ==
  ASSUME Configured, ReplayPolicy # "any"
  PROVE  Spec => ScansAreSnapshots
<1>1. Init => SnapshotInv /\ Snapshots!SnapshotInit
  BY SnapshotInvInit, SnapshotsInit
<1>2. IndexerInv /\ SnapshotInv /\ [Next]_vars => SnapshotInv'
  BY SnapshotInvNext
<1>3. IndexerInv /\ SnapshotInv /\ [Next]_vars
        => [Snapshots!SnapshotNext]_(Snapshots!snapshotVars)
  BY SnapshotStep
<1> QED BY <1>1, <1>2, <1>3, IndexerInvariant, PTL
        DEF Spec, ScansAreSnapshots, Snapshots!SnapshotSpec
=============================================================================
