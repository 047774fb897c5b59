---------------------------- MODULE MCOpenBanking ----------------------------
(***************************************************************************)
(* A finite instance of OpenBanking for TLC.                                *)
(***************************************************************************)
EXTENDS OpenBanking, TLC

CONSTANTS alice, wallet, bank, provider, d1, d2

\* Every wallet is a user and every DID is as good as another.
Symmetry == Permutations(Dids) \cup Permutations(Wallets)
=============================================================================
