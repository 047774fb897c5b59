--------------------------- MODULE MCPersistentIndexer ---------------------------
(***************************************************************************)
(* Finite instances of PersistentIndexer for TLC.                           *)
(***************************************************************************)
EXTENDS PersistentIndexer, TLC

CONSTANTS platform, legacy, l1, l2

\* One contract owns every log.
OneContract == [l \in Logs |-> platform]

\* Two contracts own one log each.
TwoContracts == (l1 :> platform) @@ (l2 :> legacy)

\* Scans may resume anywhere.
AnyStart == Heights

LogSymmetry == Permutations(Logs)
=============================================================================
