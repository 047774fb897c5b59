------------------------------ MODULE MCWorkspace ------------------------------
(***************************************************************************)
(* A finite instance of Workspace for TLC.                                  *)
(***************************************************************************)
EXTENDS Workspace

\* Two users of one bank and one provider.
WorkspaceTuples ==
  {[user |-> u, bank |-> "bank", tsp |-> "tsp", type |-> "TRANSACTIONS"] : u \in {"u1", "u2"}}

\* The console buffer is longer than the others; a truncated beacon carries nothing.
WorkspaceBuffers == [s \in Streams |-> IF s = "console" THEN 2 ELSE 1]
WorkspaceBeacon == [s \in Streams |-> 0]
=============================================================================
