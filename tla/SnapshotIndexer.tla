----------------------------- MODULE SnapshotIndexer -----------------------------
(***************************************************************************)
(* What the durable indexer promises to a reader of its tables, with neither *)
(* RPC calls nor transactions nor failures: a scan reads all blocks of its    *)
(* range at one instant, finds them final, and shows all their logs at that   *)
(* instant.  An operator withholds what was shown, and shows it again.        *)
(***************************************************************************)
EXTENDS Naturals

CONSTANTS Logs, Heights, Contracts, ContractOf

VARIABLES
  chain,      \* [Heights -> the block of that height]
  final,      \* the heights whose block is there to stay
  scanned,    \* the heights with a checkpoint
  canonical,  \* the logs shown as canonical events
  withheld,   \* the logs whose events an operator has withdrawn
  archived    \* the logs of which the raw form is kept

tableVars == <<scanned, canonical, withheld, archived>>
snapshotVars == <<chain, final, tableVars>>

SnapshotInit ==
  /\ final = {}
  /\ scanned = {} /\ canonical = {} /\ withheld = {} /\ archived = {}

\* The logs of contract c in these blocks.
LogsIn(c, heights) == {l \in Logs : ContractOf[l] = c /\ \E n \in heights : l \in chain[n].logs}

\* The chain goes on; what is final stays as it is.
ChainMoves ==
  /\ final \subseteq final'
  /\ \A n \in final : chain'[n] = chain[n]
  /\ UNCHANGED tableVars

\* One snapshot of the range: every log of every block in it is shown, unless
\* an operator withheld it before.
Scan(c, first, last) ==
  /\ first .. last \subseteq final
  /\ scanned' = scanned \cup (first .. last)
  /\ canonical' = canonical \cup (LogsIn(c, first .. last) \ withheld)
  /\ archived' = archived \cup LogsIn(c, first .. last)
  /\ UNCHANGED <<chain, final, withheld>>

\* From block n on: the contract's events, and everybody's checkpoints.
Withhold(c, n) ==
  LET undone == canonical \cap LogsIn(c, {m \in Heights : n <= m})
  IN  /\ scanned' = {m \in scanned : m < n}
      /\ canonical' = canonical \ undone
      /\ withheld' = withheld \cup undone
      /\ UNCHANGED <<chain, final, archived>>

ShowAgain(l) ==
  /\ l \in withheld
  /\ \E n \in final : l \in chain[n].logs
  /\ withheld' = withheld \ {l}
  /\ canonical' = canonical \cup {l}
  /\ UNCHANGED <<chain, final, scanned, archived>>

SnapshotNext ==
  \/ ChainMoves
  \/ \E c \in Contracts, first, last \in Heights : Scan(c, first, last)
  \/ \E c \in Contracts, n \in Heights : Withhold(c, n)
  \/ \E l \in Logs : ShowAgain(l)

SnapshotSpec == SnapshotInit /\ [][SnapshotNext]_snapshotVars
=============================================================================
