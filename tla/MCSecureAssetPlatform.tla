------------------------- MODULE MCSecureAssetPlatform -------------------------
(***************************************************************************)
(* Finite instances of SecureAssetPlatform for TLC.                         *)
(***************************************************************************)
EXTENDS SecureAssetPlatform, TLC

\* Bound of the custody and access runs: USER_ROLE, which no guard reads, stays
\* as registration leaves it.
UserRoleFollowsIdentity ==
  hasRole["USER_ROLE"] = {a \in Accounts \ {RootAdmin} : IsActive(a)}

\* Bound of the custody run: no auditors, whose role no ownership path reads.
OnlyManagerRoleVaries == UserRoleFollowsIdentity /\ hasRole["AUDITOR_ROLE"] = {}

\* Hash values are interchangeable.
HashSymmetry == Permutations(Dids) \cup Permutations(AssetIds)
=============================================================================
