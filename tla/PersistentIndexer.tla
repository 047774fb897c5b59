----------------------------- MODULE PersistentIndexer -----------------------------
(***************************************************************************)
(* The durable event indexer: PersistentConfirmedScanOnce.run drives a       *)
(* PersistentConfirmedScanner over a range of confirmed blocks inside one    *)
(* database transaction; an operator rolls the projection back and replays   *)
(* events after a reorganisation.                                           *)
(*                                                                         *)
(* A scan reads the chain with separate RPC calls (head, then per block its   *)
(* header and its logs), and the chain moves between them.  Everything a     *)
(* scan writes becomes visible when its transaction commits, or never.  The  *)
(* code leaves scheduling, isolation and repair to its caller: transactions  *)
(* are serial here.  BlockCheckpoint.finalized is left out: it is TRUE in    *)
(* every checkpoint a scan writes, and nothing reads it.                     *)
(***************************************************************************)
EXTENDS Chain

CONSTANTS
  Contracts,      \* the indexed contracts, one scanner each, in one database
  ContractOf,     \* [Logs -> Contracts]
  Confirmations,  \* the configured confirmation depth
  StartBlocks,    \* the start blocks the scheduler passes to run
  MaxFaults,      \* bound on scans lost to RPC failures and crashes
  ReplayPolicy    \* which events the operator replays

ASSUME IndexerAssumption ==
  /\ Contracts # {}
  /\ ContractOf \in [Logs -> Contracts]
  /\ Confirmations \in Nat
  /\ StartBlocks \subseteq Heights
  /\ MaxFaults \in Nat
  /\ ReplayPolicy \in {"none", "recorded", "any"}

VARIABLES
  db,      \* the committed tables
  work,    \* the tables as the running scan's transaction sees them
  scan,    \* the running scan
  faults

vars == <<block, height, highest, mined, db, work, scan, faults>>

Statuses == {"absent", "unfinalized", "canonical", "uncertain"}

\* A row of canonical_events; "absent" stands for no row.
Records == [block: Heights \cup {0}, hash: Hashes \cup {NoHash}, status: Statuses]

Absent == [block |-> 0, hash |-> NoHash, status |-> "absent"]

\* A row of raw_chain_logs; the block is 0 where there is none.
RawLogs == [block: Heights \cup {0}, hash: Hashes \cup {NoHash}]

NoRaw == [block |-> 0, hash |-> NoHash]

Tables == [checkpoints: [Heights -> Hashes \cup {NoHash}],
           events: [Logs -> Records],
           raw: [Logs -> RawLogs]]

EmptyTables == [checkpoints |-> [n \in Heights |-> NoHash],
                events |-> [l \in Logs |-> Absent],
                raw |-> [l \in Logs |-> NoRaw]]

\* The scan is idle, or about to read the header of block `next`, or has read
\* the header and asks for the logs, or is about to store the logs it got.
Scans == [phase: {"idle", "header", "logs", "ingest"}, contract: Contracts,
          head: 0 .. MaxHeight, next: 0 .. MaxHeight + 1, hash: Hashes \cup {NoHash},
          logs: SUBSET Logs]

Idle == [phase |-> "idle", contract |-> CHOOSE c \in Contracts : TRUE,
         head |-> 0, next |-> 0, hash |-> NoHash, logs |-> {}]

TypeOK ==
  /\ ChainTypes
  /\ db \in Tables
  /\ work \in Tables
  /\ scan \in Scans
  /\ faults \in 0 .. MaxFaults

Init ==
  /\ ChainInit
  /\ db = EmptyTables
  /\ work = EmptyTables
  /\ scan = Idle
  /\ faults = 0

-----------------------------------------------------------------------------
(* The tables.                                                              *)

\* Faulty variant: a block that was scanned before is always a conflict.
CheckpointConflict_Known(d, n, hash) == d.checkpoints[n] # NoHash

CheckpointConflict(d, n, hash) == d.checkpoints[n] \notin {NoHash, hash}

\* Faulty variant: the same event in another block overwrites the record.
LogConflict_Never(d, l, n, hash) == FALSE

\* The event's identity was recorded with other content.
LogConflict(d, l, n, hash) ==
  \/ d.raw[l] # NoRaw /\ d.raw[l] # [block |-> n, hash |-> hash]
  \/ d.events[l] # Absent /\ (d.events[l].block # n \/ d.events[l].hash # hash)

\* Faulty variant: promotion takes every row that is not canonical yet.
FinalizeThrough_Withheld(events, c, through) ==
  [l \in Logs |->
     IF ContractOf[l] = c /\ events[l] # Absent /\ events[l].block <= through
       THEN [events[l] EXCEPT !.status = "canonical"]
       ELSE events[l]]

\* finalize_events_through: what has become deep enough is promoted.
FinalizeThrough(events, c, through) ==
  [l \in Logs |->
     IF ContractOf[l] = c /\ events[l].status = "unfinalized" /\ events[l].block <= through
       THEN [events[l] EXCEPT !.status = "canonical"]
       ELSE events[l]]

StatusAt(n, head) == IF head >= n + Confirmations THEN "canonical" ELSE "unfinalized"

\* insert_canonical_event: an existing row is returned as it is.
InsertEvent(record, n, hash, head) ==
  IF record = Absent THEN [block |-> n, hash |-> hash, status |-> StatusAt(n, head)]
                     ELSE record

\* A checkpoint, and the promotion that comes with it.
Checkpointed(d, c, n, hash, head) ==
  [d EXCEPT !.checkpoints[n] = hash,
            !.events = IF head >= Confirmations
                         THEN FinalizeThrough(d.events, c, head - Confirmations)
                         ELSE d.events]

\* The raw and the derived rows of a block's logs.
Ingested(d, n, hash, logs, head) ==
  [d EXCEPT
     !.events = [l \in Logs |-> IF l \in logs THEN InsertEvent(d.events[l], n, hash, head)
                                             ELSE d.events[l]],
     !.raw = [l \in Logs |-> IF l \in logs THEN [block |-> n, hash |-> hash] ELSE d.raw[l]]]

\* Faulty variant: a rollback spares the events of the block it starts at.
Affected_Beyond(n, b) == n < b

Affected(n, b) == n <= b

\* Events of the contract are withheld from block n on; the checkpoints,
\* which carry no contract, are removed for every contract.
RolledBack(d, c, n) ==
  [d EXCEPT
     !.checkpoints = [m \in Heights |-> IF n <= m THEN NoHash ELSE d.checkpoints[m]],
     !.events = [l \in Logs |->
        IF /\ ContractOf[l] = c
           /\ Affected(n, d.events[l].block)
           /\ d.events[l].status \in {"canonical", "unfinalized"}
          THEN [d.events[l] EXCEPT !.status = "uncertain"]
          ELSE d.events[l]]]

-----------------------------------------------------------------------------
(* A scan.                                                                  *)

\* Faulty variant: the range excludes its last block.
ConfirmedThrough_Exclusive(head, n) == n + Confirmations < head

\* Faulty variant: the range reaches one block further.
ConfirmedThrough_OffByOne(head, n) == n + Confirmations <= head + 1

\* Block n is in the confirmed range of a scan that saw this head.
ConfirmedThrough(head, n) == n + Confirmations <= head

\* run opens a transaction and reads the head.  With nothing confirmed from
\* the start block on it returns at once.
BeginScan(c, start) ==
  /\ scan.phase = "idle"
  /\ ConfirmedThrough(height, start)
  /\ scan' = [phase |-> "header", contract |-> c, head |-> height, next |-> start,
              hash |-> NoHash, logs |-> {}]
  /\ work' = db
  /\ UNCHANGED <<chainVars, db, faults>>

\* eth_getBlockByNumber answers the block's header.
ReadHeader ==
  /\ scan.phase = "header"
  /\ ConfirmedThrough(scan.head, scan.next)
  /\ scan.next <= height
  /\ scan' = [scan EXCEPT !.phase = "logs", !.hash = block[scan.next].hash]
  /\ UNCHANGED <<chainVars, db, work, faults>>

\* What eth_getLogs answers now, filtered by the contract's address.  The
\* scan attributes these logs to the block hash it read before.
LogsNow == {l \in block[scan.next].logs : ContractOf[l] = scan.contract}

\* The logs arrive.  The block is checkpointed before they are looked at.
ReadLogs ==
  /\ scan.phase = "logs"
  /\ ~CheckpointConflict(work, scan.next, scan.hash)
  /\ work' = Checkpointed(work, scan.contract, scan.next, scan.hash, scan.head)
  /\ scan' = [scan EXCEPT !.phase = "ingest", !.logs = LogsNow]
  /\ UNCHANGED <<chainVars, db, faults>>

IngestLogs ==
  /\ scan.phase = "ingest"
  /\ \A l \in scan.logs : ~LogConflict(work, l, scan.next, scan.hash)
  /\ work' = Ingested(work, scan.next, scan.hash, scan.logs, scan.head)
  /\ scan' = [scan EXCEPT !.phase = "header", !.next = @ + 1, !.hash = NoHash, !.logs = {}]
  /\ UNCHANGED <<chainVars, db, faults>>

CommitScan ==
  /\ scan.phase = "header"
  /\ ~ConfirmedThrough(scan.head, scan.next)
  /\ db' = work
  /\ scan' = Idle
  /\ work' = EmptyTables
  /\ UNCHANGED <<chainVars, faults>>

\* Faulty variant: what was stored before the failure stays.
AfterFailure_Keeps == work

AfterFailure == db

EndFailedScan ==
  /\ db' = AfterFailure
  /\ scan' = Idle
  /\ work' = EmptyTables
  /\ UNCHANGED chainVars

\* eth_getBlockByNumber answers null, an RpcError: the block is gone by now.
MissBlock ==
  /\ scan.phase = "header"
  /\ ConfirmedThrough(scan.head, scan.next)
  /\ scan.next > height
  /\ EndFailedScan
  /\ UNCHANGED faults

\* A conflict raises: the transaction is rolled back.
CheckpointRefused == scan.phase = "logs" /\ CheckpointConflict(work, scan.next, scan.hash)

LogRefused ==
  scan.phase = "ingest" /\ \E l \in scan.logs : LogConflict(work, l, scan.next, scan.hash)

RefuseBlock ==
  /\ CheckpointRefused \/ LogRefused
  /\ EndFailedScan
  /\ UNCHANGED faults

\* Every provider failed, a response was malformed, or the process died.
AbortScan ==
  /\ scan.phase # "idle"
  /\ faults < MaxFaults
  /\ faults' = faults + 1
  /\ EndFailedScan

-----------------------------------------------------------------------------
(* The operator.                                                            *)

Rollback(c, n) ==
  /\ scan.phase = "idle"
  /\ db' = RolledBack(db, c, n)
  /\ UNCHANGED <<chainVars, work, scan, faults>>

\* The environment: which events the operator passes to restore_replayed.
IsReplayed(l) ==
  \/ ReplayPolicy = "any"
  \/ ReplayPolicy = "recorded" /\ db.events[l] # Absent

\* restore_replayed of an event that is said to be in block n with this hash;
\* nobody asks the chain.  A row of the same content becomes canonical if it
\* was withheld, and so does an event that had no row.
Restore(l, n, hash) ==
  /\ scan.phase = "idle"
  /\ db.events[l] \in {Absent} \cup [block: {n}, hash: {hash}, status: Statuses]
  /\ db' = [db EXCEPT !.events[l] =
              IF @.status \in {"absent", "uncertain"}
                THEN [block |-> n, hash |-> hash, status |-> "canonical"]
                ELSE @]
  /\ UNCHANGED <<chainVars, work, scan, faults>>

MoveChain == ChainStep /\ UNCHANGED <<db, work, scan, faults>>

ScanStep ==
  \/ \E c \in Contracts, start \in StartBlocks : BeginScan(c, start)
  \/ ReadHeader
  \/ ReadLogs
  \/ IngestLogs
  \/ RefuseBlock
  \/ CommitScan
  \/ MissBlock
  \/ AbortScan

OperatorStep ==
  \E n \in Heights :
    \/ \E c \in Contracts : Rollback(c, n)
    \/ \E l \in Logs, hash \in Hashes : IsReplayed(l) /\ Restore(l, n, hash)

Next == MoveChain \/ ScanStep \/ OperatorStep

Spec == Init /\ [][Next]_vars

\* The scheduler comes back to the first block again and again, whatever other
\* ranges it scans between, and a running scan keeps going.
FairSpec ==
  /\ Spec
  /\ \A c \in Contracts : SF_vars(1 \in StartBlocks /\ BeginScan(c, 1))
  /\ WF_vars(ReadHeader)
  /\ WF_vars(ReadLogs)
  /\ WF_vars(IngestLogs)
  /\ WF_vars(RefuseBlock)
  /\ WF_vars(CommitScan)
  /\ WF_vars(MissBlock)

-----------------------------------------------------------------------------
(* Properties of a deployment whose confirmation depth covers the chain's    *)
(* reorganisations.                                                         *)

\* The log is in this block of the chain, and the block is there to stay.
Recorded(l, n, hash) ==
  /\ n \in Heights
  /\ Final(n)
  /\ l \in block[n].logs
  /\ hash = block[n].hash

TablesOnChain(d) ==
  /\ \A n \in Heights : d.checkpoints[n] # NoHash => Final(n) /\ d.checkpoints[n] = block[n].hash
  /\ \A l \in Logs : d.events[l] # Absent => Recorded(l, d.events[l].block, d.events[l].hash)
  /\ \A l \in Logs : d.raw[l] # NoRaw => Recorded(l, d.raw[l].block, d.raw[l].hash)

\* Whatever the projection recorded is on the chain, in the very block it
\* names, although a scan reads the head, the header and the logs apart.
ProjectionOnChain == TablesOnChain(db)

\* What a running scan has read is final, so it holds for all of the scan.
ScanOnChain ==
  /\ scan.phase # "idle" => /\ scan.head <= highest
                            /\ scan.next \in 1 .. MaxHeight + 1
  /\ scan.phase \in {"logs", "ingest"} =>
       /\ scan.next \in Heights
       /\ ConfirmedThrough(scan.head, scan.next)
       /\ scan.hash = block[scan.next].hash
  /\ scan.phase = "ingest" =>
       scan.logs = {l \in block[scan.next].logs : ContractOf[l] = scan.contract}

\* The inductive invariant: the committed tables and those of the running
\* scan hold final blocks only.
IndexerInv ==
  /\ TypeOK
  /\ ChainInv
  /\ ProjectionOnChain
  /\ TablesOnChain(work)
  /\ ScanOnChain

\* No scan meets a conflict, however often ranges are scanned again.
ScansAreNeverRefused == ~CheckpointRefused /\ ~LogRefused

\* AC-10: raw rows, derived rows and checkpoints commit together.  A block
\* that is checkpointed has all its logs recorded, whatever failed on the way.
\* (A checkpoint names no contract: this is about one scanner per database.)
CoversLogs(d, n) == \A l \in block[n].logs : d.events[l] # Absent /\ d.raw[l] # NoRaw

CheckpointsCoverLogs == \A n \in Heights : db.checkpoints[n] # NoHash => CoversLogs(db, n)

\* Inductive relative to IndexerInv: so it is within a scan, but for the block
\* that is checkpointed and not ingested yet.
CoverInv ==
  /\ CheckpointsCoverLogs
  /\ \A n \in Heights :
       work.checkpoints[n] # NoHash /\ ~(scan.phase = "ingest" /\ n = scan.next)
         => CoversLogs(work, n)

\* A scan is atomic: although it reads the head and, block by block, the header
\* and the logs with calls of their own, between which the chain moves, and
\* although scans fail half-way, the committed tables change as if each range
\* had been read at one instant and written at once.
EventsThatAre(status) == {l \in Logs : db.events[l].status = status}

Snapshots == INSTANCE SnapshotIndexer WITH
  chain <- block,
  final <- {n \in Heights : Final(n)},
  scanned <- {n \in Heights : db.checkpoints[n] # NoHash},
  canonical <- EventsThatAre("canonical"),
  withheld <- EventsThatAre("uncertain"),
  archived <- {l \in Logs : db.raw[l] # NoRaw}

ScansAreSnapshots == Snapshots!SnapshotSpec

\* A log that comes to stay in a confirmed block is recorded in the end: no
\* reorganisation, failed scan or rollback on the way blocks the indexer.
ConfirmedLogsAreRecorded ==
  \A l \in Logs :
    <>[](\E n \in Heights : l \in block[n].logs /\ n + Confirmations <= height)
      => <>(db.events[l] # Absent)

-----------------------------------------------------------------------------
(* Properties of any deployment, also one that reorganisations reach.       *)

\* ADR 0007: affected history is retained.  A recorded event keeps its block
\* and hash, its raw row likewise, and only its status moves.
HistoryIsKept ==
  [][\A l \in Logs :
       /\ db.events[l] # Absent => /\ db'.events[l].block = db.events[l].block
                                   /\ db'.events[l].hash = db.events[l].hash
       /\ db.raw[l] # NoRaw => db'.raw[l] = db.raw[l]]_vars

\* ADR 0007: uncertainty is sticky.  Scans read withheld events again, promote
\* what has become deep and commit long after they began, and rollbacks repeat:
\* none of it clears an event's uncertainty.  Only a replay does, between scans,
\* of just this event in the block it was recorded with, and it touches nothing
\* else.  (It does not ask whether that block is on the chain.)
OnlyReplaysClearUncertainty ==
  [][\A l \in Logs :
       db.events[l].status = "uncertain" /\ db'.events[l].status # "uncertain" =>
         /\ scan.phase = "idle"
         /\ db' = [db EXCEPT !.events[l].status = "canonical"]
         /\ UNCHANGED <<chainVars, work, scan, faults>>]_vars

\* THREAT-MODEL.md: reorg-affected output cannot silently remain canonical.
\* What is shown as canonical agrees with the checkpoint of its block.
CanonicalMatchesCheckpoints ==
  \A l \in Logs :
    db.events[l].status = "canonical" /\ db.checkpoints[db.events[l].block] # NoHash =>
      db.checkpoints[db.events[l].block] = db.events[l].hash

\* ADR 0007: block number and hash are part of an event's identity.  So a
\* transaction that is mined again does not collide with the record of the
\* orphaned block, which a rollback has withheld: a scan that reads it from
\* the chain stores it.
IdentityIncludesTheBlock ==
  scan.phase = "ingest" /\ scan.hash = block[scan.next].hash =>
    \A l \in scan.logs \cap block[scan.next].logs :
      work.events[l].status = "uncertain" => ~LogConflict(work, l, scan.next, scan.hash)
=============================================================================
