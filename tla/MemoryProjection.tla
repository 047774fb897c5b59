---------------------------- MODULE MemoryProjection ----------------------------
(***************************************************************************)
(* The in-memory projection (projector.py) filled by ConfirmedScanner            *)
(* (consumer.py): the durable indexer's reference.  There is no transaction         *)
(* around a scan, so a scan that fails leaves what it did, and a scan's              *)
(* confirmation depth is an argument of the call.  The chain moves between the        *)
(* calls of a scan, as in PersistentIndexer.  An event's key is the log, its            *)
(* content the block it was read from.                                                 *)
(***************************************************************************)
EXTENDS Naturals, FiniteSets

CONSTANTS
  Logs, MaxHeight, MaxHash, ReorgDepth,  \* of Chain
  Depths,           \* the confirmation depths scans are called with
  MaxScanFailures   \* bound: calls and decoders that fail, and rollbacks

ASSUME MemoryProjectionAssumption ==
  /\ MaxHeight \in Nat /\ MaxHash \in Nat /\ ReorgDepth \in Nat
  /\ Depths \subseteq Nat /\ MaxScanFailures \in Nat

VARIABLES
  block, tip, highest, mined,  \* the chain
  projection,     \* _blocks, _events and _uncertain_events
  memoryScan,     \* the scan in progress
  scanFailures,   \* bound: failures and rollbacks so far
  shallow,        \* history: a scan was less deep than the chain reorganises
  unfinished,     \* history: blocks checkpointed whose logs were not all projected
  backfilled      \* history: a scan began more than a block below the first one

evmVars == <<block, tip, highest, mined>>
memoryVars == <<evmVars, projection, memoryScan, scanFailures, shallow, unfinished, backfilled>>

Evm == INSTANCE Chain WITH height <- tip

Unknown == [block |-> 0, hash |-> Evm!NoHash]
NoScan == [phase |-> "idle"]

MemoryInit ==
  /\ Evm!ChainInit
  /\ projection = [blocks |-> [n \in Evm!Heights |-> Evm!NoHash],
                   events |-> [l \in Logs |-> Unknown],
                   uncertain |-> [l \in Logs |-> Unknown]]
  /\ memoryScan = NoScan
  /\ scanFailures = 0
  /\ shallow = FALSE /\ unfinished = {} /\ backfilled = FALSE

Checkpoints(p) == {n \in Evm!Heights : p.blocks[n] # Evm!NoHash}
-----------------------------------------------------------------------------
(***************************************************************************)
(* InMemoryProjection.                                                     *)
(***************************************************************************)
\* checkpoint raises for another hash of a block, and for a block that skips one;
\* _last_processed_block is the greatest block there is.
BlockConflict(p, n, hash) == p.blocks[n] \notin {Evm!NoHash, hash}

BlockGap(p, n) == Checkpoints(p) # {} /\ \A m \in Checkpoints(p) : m + 1 < n

\* ingest raises when the key is known, projected or withheld, with other content.
EventConflict(p, l, event) ==
  \/ p.events[l] \notin {Unknown, event}
  \/ p.events[l] = Unknown /\ p.uncertain[l] \notin {Unknown, event}

\* The logs of S are projected; one that was withheld is so no longer.
\* Faulty variant: a log of a block that was known is taken for projected.
IngestedIfNew(p, n, hash, S) ==
  [blocks |-> [p.blocks EXCEPT ![n] = hash],
   events |-> [l \in Logs |-> IF l \in S /\ p.blocks[n] = Evm!NoHash
                              THEN [block |-> n, hash |-> hash] ELSE p.events[l]],
   uncertain |-> [l \in Logs |-> IF l \in S THEN Unknown ELSE p.uncertain[l]]]
MemoryIngested(p, n, hash, S) ==
  [blocks |-> [p.blocks EXCEPT ![n] = hash],
   events |-> [l \in Logs |-> IF l \in S THEN [block |-> n, hash |-> hash] ELSE p.events[l]],
   uncertain |-> [l \in Logs |-> IF l \in S THEN Unknown ELSE p.uncertain[l]]]

\* Faulty variant: the events are removed and not withheld.
RolledBackForgetting(p, n) ==
  [blocks |-> [m \in Evm!Heights |-> IF m < n THEN p.blocks[m] ELSE Evm!NoHash],
   events |-> [l \in Logs |-> IF p.events[l].block < n THEN p.events[l] ELSE Unknown],
   uncertain |-> p.uncertain]
MemoryRolledBack(p, n) ==
  [blocks |-> [m \in Evm!Heights |-> IF m < n THEN p.blocks[m] ELSE Evm!NoHash],
   events |-> [l \in Logs |-> IF p.events[l].block < n THEN p.events[l] ELSE Unknown],
   uncertain |-> [l \in Logs |-> IF p.events[l].block < n THEN p.uncertain[l]
                                                          ELSE p.events[l]]]
-----------------------------------------------------------------------------
(***************************************************************************)
(* ConfirmedScanner.scan.                                                  *)
(***************************************************************************)
\* The head is read once; nothing happens when the range is empty.
BeginMemoryScan(start, depth, decodes) ==
  /\ memoryScan = NoScan
  /\ start + depth <= tip
  /\ memoryScan' = [phase |-> "header", next |-> start, through |-> tip - depth,
                    decodes |-> decodes]
  /\ shallow' = (shallow \/ depth < ReorgDepth)
  /\ backfilled' = (backfilled \/ /\ Checkpoints(projection) # {}
                                  /\ \A m \in Checkpoints(projection) : start + 1 < m)
  /\ UNCHANGED <<evmVars, projection, scanFailures, unfinished>>

ReadBlockHeader ==
  /\ memoryScan.phase = "header"
  /\ block[memoryScan.next].hash # Evm!NoHash
  /\ memoryScan' = [phase |-> "logs", next |-> memoryScan.next, through |-> memoryScan.through,
                    decodes |-> memoryScan.decodes, hash |-> block[memoryScan.next].hash]
  /\ UNCHANGED <<evmVars, projection, scanFailures, shallow, unfinished, backfilled>>

\* The provider fails, or has no such block any more.
MemoryScanFails ==
  /\ memoryScan.phase \in {"header", "logs"}
  /\ scanFailures < MaxScanFailures /\ scanFailures' = scanFailures + 1
  /\ memoryScan' = NoScan
  /\ UNCHANGED <<evmVars, projection, shallow, unfinished, backfilled>>

BlockVanished ==
  /\ memoryScan.phase = "header"
  /\ block[memoryScan.next].hash = Evm!NoHash
  /\ memoryScan' = NoScan
  /\ UNCHANGED <<evmVars, projection, scanFailures, shallow, unfinished, backfilled>>

\* The checkpoint is refused: the block of this height was another, or one is missing.
CheckpointRefused ==
  /\ memoryScan.phase = "logs"
  /\ \/ BlockConflict(projection, memoryScan.next, memoryScan.hash)
     \/ BlockGap(projection, memoryScan.next)
  /\ memoryScan' = NoScan
  /\ UNCHANGED <<evmVars, projection, scanFailures, shallow, unfinished, backfilled>>

\* The logs come, the block is checkpointed, then its logs are decoded and projected
\* one by one: all of them, or those of S before one that is refused or that the
\* decoder fails on.  Without a decoder there are only checkpoints.
IngestLogs(S) ==
  LET n == memoryScan.next
      p == projection
      logs == block[n].logs
      event == [block |-> n, hash |-> memoryScan.hash]
      refused == {l \in logs : EventConflict(p, l, event)}
      wanted == IF memoryScan.decodes THEN logs ELSE {}
      done == S = wanted
  IN  /\ memoryScan.phase = "logs"
      /\ ~ BlockConflict(p, n, memoryScan.hash) /\ ~ BlockGap(p, n)
      /\ S \subseteq wanted /\ S \cap refused = {}
      /\ projection' = MemoryIngested(p, n, memoryScan.hash, S)
      /\ IF done \/ refused \cap wanted # {} THEN UNCHANGED scanFailures
         ELSE scanFailures < MaxScanFailures /\ scanFailures' = scanFailures + 1
      /\ unfinished' =
           IF done /\ memoryScan.decodes THEN unfinished \ {n}
           ELSE IF p.blocks[n] = Evm!NoHash THEN unfinished \cup {n} ELSE unfinished
      /\ memoryScan' =
           IF ~ done \/ n = memoryScan.through THEN NoScan
           ELSE [phase |-> "header", next |-> n + 1, through |-> memoryScan.through,
                 decodes |-> memoryScan.decodes]
      /\ UNCHANGED <<evmVars, shallow, backfilled>>

RollbackFrom(n) ==
  /\ memoryScan = NoScan
  /\ scanFailures < MaxScanFailures /\ scanFailures' = scanFailures + 1
  /\ projection' = MemoryRolledBack(projection, n)
  /\ UNCHANGED <<evmVars, memoryScan, shallow, unfinished, backfilled>>

ChainMoves ==
  /\ Evm!ChainStep
  /\ UNCHANGED <<projection, memoryScan, scanFailures, shallow, unfinished, backfilled>>

MemoryNext ==
  \/ ChainMoves
  \/ \E n \in Evm!Heights :
       \/ \E depth \in Depths, decodes \in BOOLEAN : BeginMemoryScan(n, depth, decodes)
       \/ RollbackFrom(n)
  \/ ReadBlockHeader \/ MemoryScanFails \/ BlockVanished \/ CheckpointRefused
  \/ \E S \in SUBSET Logs : IngestLogs(S)
-----------------------------------------------------------------------------
(***************************************************************************)
(* Properties.                                                             *)
(***************************************************************************)
\* As long as scans wait for the blocks the chain may drop, what is checkpointed and
\* projected is the chain's, and a checkpointed block has all its logs projected or
\* is one where a scan stopped after the checkpoint: a scan of the block again heals
\* it, although its checkpoint is not new.
CheckpointsAreHealed ==
  ~ shallow =>
    \A n \in Checkpoints(projection) :
      /\ projection.blocks[n] = block[n].hash
      /\ \A l \in block[n].logs :
           \/ projection.events[l] = [block |-> n, hash |-> block[n].hash]
           \/ n \in unfinished

Content(p, l) == IF p.events[l] # Unknown THEN p.events[l] ELSE p.uncertain[l]

\* An event that was projected once is kept for ever, with its content, projected or
\* withheld, and never both, whatever is rolled back, refused or scanned again.
NoEventIsForgotten ==
  [][\A l \in Logs :
       /\ Content(projection, l) # Unknown =>
            Content(projection, l)' = Content(projection, l)
       /\ Unknown \in {projection'.events[l], projection'.uncertain[l]}]_memoryVars

\* The blocks have no gap, whatever fails and is rolled back, unless a scan began
\* more than one block below the first: checkpoint refuses gaps above the last block
\* and none below (verify_contiguous_blocks).
GapsComeFromBelow ==
  \/ backfilled
  \/ LET S == Checkpoints(projection)
     IN  \A m, n \in S : \A k \in m..n : k \in S

\* What a checkpoint stands for, although a scan is no transaction: the chain's block,
\* its logs, and those of all blocks since the first.
CheckpointsAreSound == CheckpointsAreHealed /\ GapsComeFromBelow
=============================================================================
