------------------------- MODULE MCTransactionIntents -------------------------
(***************************************************************************)
(* Finite instances of TransactionIntents for TLC.                          *)
(***************************************************************************)
EXTENDS TransactionIntents, TLC

CONSTANTS k1, k2, k3

\* Two of the three pairs of subject and key hash to one primary key.
AmbiguousIds == (k1 :> 1) @@ (k2 :> 1) @@ (k3 :> 2)

\* What the writer creates.
Requested == {[status |-> "requested", txHash |-> NoTx]}
=============================================================================
