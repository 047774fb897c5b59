------------------------ MODULE SecureAssetPlatformProofs ------------------------
(***************************************************************************)
(* Machine-checked proofs about SecureAssetPlatform, for every value of its *)
(* constants that satisfies ConstantsAssumption.                            *)
(***************************************************************************)
EXTENDS SecureAssetPlatform, SequenceTheorems, TLAPS

IdentityInv ==
  /\ IdentityTypes
  /\ DidBijection
  /\ ActiveIsRegistered
  /\ CapabilityNeedsActiveIdentity
  /\ RootAdminStays

\* The three named roles, the administrator's and the others do not overlap.
LEMMA RoleFacts ==
  /\ NamedRoles \subseteq Roles
  /\ GrantableRoles \subseteq Roles
  /\ AdminRole \in Roles
  /\ AdminRole \notin GrantableRoles
  /\ {"MANAGER_ROLE", "AUDITOR_ROLE", "USER_ROLE"} \subseteq NamedRoles
BY ConstantsAssumption
   DEF ConstantsAssumption, NamedRoles, GrantableRoles, Roles, AdminRole

LEMMA InitIdentityInv == Init => IdentityInv
<1> SUFFICES ASSUME Init PROVE IdentityInv
  OBVIOUS
<1> USE ConstantsAssumption DEF ConstantsAssumption
<1>1. IdentityTypes
  BY DEF Init, Profiles, NoProfile, IdentityTypes
<1>2. DidBijection
  BY DEF Init, DidBijection, IsRegistered, NoProfile
<1>3. CapabilityNeedsActiveIdentity
  BY RoleFacts DEF Init, CapabilityNeedsActiveIdentity, GrantableRoles
<1>4. RootAdminStays
  BY RoleFacts DEF Init, RootAdminStays, IsActive, IsRegistered
<1>5. ActiveIsRegistered
  BY DEF Init, ActiveIsRegistered, IsActive, IsRegistered, NoProfile
<1> QED
  BY <1>1, <1>2, <1>3, <1>4, <1>5 DEF IdentityInv

\* Activating or registering keeps the named roles with active identities,
\* and so does withdrawing one identity together with its named roles.
LEMMA RegisterIdentityInv ==
  ASSUME IdentityInv, NEW caller \in Accounts, NEW subject \in Accounts, NEW did \in Dids,
         RegisterIdentity(caller, subject, did)
  PROVE  IdentityInv'
<1> USE ConstantsAssumption DEF ConstantsAssumption, IdentityInv
<1>1. IdentityTypes'
  BY RoleFacts DEF IdentityTypes, RegisterIdentity, NewProfile, Profiles
<1>2. DidBijection'
  BY DEF IdentityTypes, DidBijection, RegisterIdentity, NewProfile, Profiles, IsRegistered, DidIsFree
<1>3. CapabilityNeedsActiveIdentity'
  BY RoleFacts DEF IdentityTypes, CapabilityNeedsActiveIdentity, RegisterIdentity, NewProfile,
     IsActive, IsRegistered, Profiles
<1>4. RootAdminStays'
  BY RoleFacts DEF IdentityTypes, RootAdminStays, RegisterIdentity, NewProfile, NamedRoles, AdminRole,
     IsActive, IsRegistered, Profiles
<1>5. ActiveIsRegistered'
  BY DEF IdentityTypes, ActiveIsRegistered, RegisterIdentity, NewProfile, IsActive, IsRegistered,
     Profiles
<1> QED
  BY <1>1, <1>2, <1>3, <1>4, <1>5

LEMMA WithdrawIdentityInv ==
  ASSUME IdentityInv, NEW subject \in Accounts, NotAdmin(subject), IsRegistered(subject),
         identityRegistry' = Deactivated(subject),
         hasRole' = WithoutNamedRoles(subject),
         identityByDidHash' = identityByDidHash
  PROVE  IdentityInv'
<1> USE ConstantsAssumption DEF ConstantsAssumption, IdentityInv
<1>1. IdentityTypes'
  BY RoleFacts DEF IdentityTypes, Deactivated, WithoutNamedRoles, Profiles
<1>2. DidBijection'
  BY DEF IdentityTypes, DidBijection, Deactivated, Profiles, IsRegistered
<1>3. CapabilityNeedsActiveIdentity'
  BY RoleFacts DEF IdentityTypes, CapabilityNeedsActiveIdentity, Deactivated, WithoutNamedRoles,
     IsActive, IsRegistered, Profiles
<1>4. RootAdminStays'
  BY RoleFacts DEF IdentityTypes, RootAdminStays, Deactivated, WithoutNamedRoles, NotAdmin,
     NamedRoles, AdminRole, IsActive, IsRegistered, Profiles
<1>5. ActiveIsRegistered'
  BY DEF IdentityTypes, ActiveIsRegistered, Deactivated, IsActive, IsRegistered, Profiles
<1> QED
  BY <1>1, <1>2, <1>3, <1>4, <1>5

LEMMA SetIdentityStatusInv ==
  ASSUME IdentityInv, NEW caller \in Accounts, NEW subject \in Accounts, NEW active \in BOOLEAN,
         SetIdentityStatus(caller, subject, active)
  PROVE  IdentityInv'
<1>1. CASE ~active
  BY <1>1, WithdrawIdentityInv DEF SetIdentityStatus, MaySetIdentityStatus
<1>2. CASE active
  <2> USE ConstantsAssumption DEF ConstantsAssumption, IdentityInv
  <2>1. /\ identityRegistry' = [identityRegistry EXCEPT ![subject].isActive = TRUE]
        /\ hasRole' = [hasRole EXCEPT !["USER_ROLE"] = @ \cup {subject}]
        /\ identityByDidHash' = identityByDidHash
        /\ IsRegistered(subject)
    BY <1>2 DEF SetIdentityStatus, MaySetIdentityStatus
  <2>2. IdentityTypes'
    BY <2>1, RoleFacts DEF IdentityTypes, Profiles
  <2>3. DidBijection'
    BY <2>1 DEF IdentityTypes, DidBijection, Profiles, IsRegistered
  <2>4. CapabilityNeedsActiveIdentity'
    BY <2>1, RoleFacts DEF IdentityTypes, CapabilityNeedsActiveIdentity, IsActive, IsRegistered,
       Profiles
  <2>5. RootAdminStays'
    BY <2>1, RoleFacts DEF IdentityTypes, RootAdminStays, NamedRoles, AdminRole, IsActive,
       IsRegistered, Profiles
  <2>6. ActiveIsRegistered'
    BY <2>1 DEF IdentityTypes, ActiveIsRegistered, IsActive, IsRegistered, Profiles
  <2> QED
    BY <2>2, <2>3, <2>4, <2>5, <2>6
<1> QED
  BY <1>1, <1>2

LEMMA ReplaceIdentityKeyInv ==
  ASSUME IdentityInv, NEW caller \in Accounts, NEW old \in Accounts, NEW new \in Accounts,
         NEW did \in Dids, ReplaceIdentityKey(caller, old, new, did)
  PROVE  IdentityInv'
<1> USE ConstantsAssumption DEF ConstantsAssumption, IdentityInv
<1>1. old # new /\ old # RootAdmin /\ new # RootAdmin
  BY DEF ReplaceIdentityKey, NotAdmin, RootAdminStays
<1>2. /\ DOMAIN identityRegistry' = Accounts
      /\ identityRegistry'[new] = NewProfile(did)
      /\ identityRegistry'[old] = [didHash |-> identityRegistry[old].didHash, isActive |-> FALSE,
                                   registered |-> identityRegistry[old].registered]
      /\ \A a \in Accounts \ {old, new} : identityRegistry'[a] = identityRegistry[a]
  BY <1>1, ZenonT(40) DEF ReplaceIdentityKey, Deactivated, IdentityTypes, Profiles
<1>3. IdentityTypes'
  <2>1. identityRegistry' \in [Accounts -> Profiles]
    <3>1. Deactivated(old) \in [Accounts -> Profiles]
      BY DEF IdentityTypes, Deactivated, Profiles
    <3>2. NewProfile(did) \in Profiles
      BY DEF NewProfile, Profiles
    <3> QED
      BY <3>1, <3>2 DEF ReplaceIdentityKey
  <2>2. hasRole' \in [Roles -> SUBSET Accounts]
    BY DEF IdentityTypes, ReplaceIdentityKey, HandedOverRoles
  <2> QED
    BY <2>1, <2>2 DEF IdentityTypes, ReplaceIdentityKey
<1>4. DidBijection'
  BY <1>1, <1>2 DEF IdentityTypes, DidBijection, ReplaceIdentityKey, NewProfile, Profiles,
     IsRegistered, DidIsFree
<1>5. CapabilityNeedsActiveIdentity'
  <2> SUFFICES ASSUME NEW r \in NamedRoles, NEW a \in hasRole'[r]
               PROVE  IsActive(a)' /\ IsRegistered(a)'
    BY DEF CapabilityNeedsActiveIdentity
  <2>1. a \in Accounts /\ a # old /\ (a = new \/ a \in hasRole[r])
    BY <1>1, RoleFacts DEF ReplaceIdentityKey, HandedOverRoles, IdentityTypes
  <2> QED
    BY <1>2, <2>1 DEF CapabilityNeedsActiveIdentity, IsActive, IsRegistered, NewProfile
<1>6. RootAdminStays'
  BY <1>1, <1>2, RoleFacts DEF IdentityTypes, RootAdminStays, ReplaceIdentityKey, HandedOverRoles,
     NamedRoles, AdminRole, IsActive, IsRegistered, Profiles
<1>7. ActiveIsRegistered'
  BY <1>2 DEF ActiveIsRegistered, IsActive, IsRegistered, NewProfile
<1> QED
  BY <1>3, <1>4, <1>5, <1>6, <1>7

\* Granting reaches active identities only; renouncing and revoking shrink a
\* role; the administrator's role is out of reach of all three.
LEMMA RoleStepInv == IdentityInv /\ RoleStep => IdentityInv'
<1> SUFFICES ASSUME IdentityInv, NEW caller \in Accounts, NEW role \in Roles, NEW account \in Accounts,
                    \/ RenounceRole(caller, role)
                    \/ GrantRole(caller, role, account)
                    \/ RevokeRole(caller, role, account)
             PROVE  IdentityInv'
  BY ConstantsAssumption DEF RoleStep, ConstantsAssumption
<1> USE ConstantsAssumption DEF ConstantsAssumption, IdentityInv
<1>1. /\ role # AdminRole
      /\ UNCHANGED <<identityRegistry, identityByDidHash>>
  BY DEF RenounceRole, GrantRole, RevokeRole
<1>2. \/ hasRole' = [hasRole EXCEPT ![role] = @ \cup {account}]
         /\ IsActive(account) /\ IsRegistered(account)
      \/ \E a \in Accounts : hasRole' = [hasRole EXCEPT ![role] = @ \ {a}]
  BY DEF RenounceRole, GrantRole, RevokeRole
<1>3. IdentityTypes'
  BY <1>1, <1>2 DEF IdentityTypes
<1>4. DidBijection'
  BY <1>1 DEF DidBijection, IsRegistered
<1>5. CapabilityNeedsActiveIdentity'
  BY <1>1, <1>2, RoleFacts DEF IdentityTypes, CapabilityNeedsActiveIdentity, IsActive, IsRegistered
<1>6. RootAdminStays'
  BY <1>1, <1>2, RoleFacts DEF IdentityTypes, RootAdminStays, IsActive, IsRegistered
<1>7. ActiveIsRegistered'
  BY <1>1 DEF ActiveIsRegistered, IsActive, IsRegistered
<1> QED
  BY <1>3, <1>4, <1>5, <1>6, <1>7

LEMMA IdentityStepInv == IdentityInv /\ IdentityStep => IdentityInv'
<1> SUFFICES ASSUME IdentityInv, NEW caller \in Accounts, NEW subject \in Accounts,
                    \/ \E did \in Dids : RegisterIdentity(caller, subject, did)
                    \/ \E active \in BOOLEAN : SetIdentityStatus(caller, subject, active)
                    \/ \E new \in Accounts, did \in Dids : ReplaceIdentityKey(caller, subject, new, did)
                    \/ OffboardIdentity(caller, subject)
             PROVE  IdentityInv'
  BY DEF IdentityStep
<1>1. CASE \E did \in Dids : RegisterIdentity(caller, subject, did)
  BY <1>1, RegisterIdentityInv
<1>2. CASE \E active \in BOOLEAN : SetIdentityStatus(caller, subject, active)
  BY <1>2, SetIdentityStatusInv
<1>3. CASE \E new \in Accounts, did \in Dids : ReplaceIdentityKey(caller, subject, new, did)
  BY <1>3, ReplaceIdentityKeyInv
<1>4. CASE OffboardIdentity(caller, subject)
  BY <1>4, WithdrawIdentityInv DEF OffboardIdentity
<1> QED
  BY <1>1, <1>2, <1>3, <1>4

\* Nothing but the identity and role operations touches the identities.
LEMMA IdentityFrame ==
  Next => IdentityStep \/ RoleStep \/ UNCHANGED identityVars
<1> SUFFICES ASSUME Next, ~IdentityStep, ~RoleStep
             PROVE  UNCHANGED identityVars
  OBVIOUS
<1>1. CASE AssetStep
  BY <1>1 DEF AssetStep, MintAndAllocateAsset, SetAssetStatus, TransferAsset, TransferFrom,
     SafeTransferFrom, identityVars
<1>2. CASE AccessStep
  BY <1>2 DEF AccessStep, RequestAccess, SetAccessRule
<1>3. CASE EmergencyStep
  BY <1>3 DEF EmergencyStep, Pause, Unpause
<1>4. CASE ReceiverReturns
  BY <1>4 DEF ReceiverReturns
<1>5. CASE NextBlock
  BY <1>5 DEF NextBlock
<1> QED
  BY <1>1, <1>2, <1>3, <1>4, <1>5 DEF Next

LEMMA IdentityInvStep == IdentityInv /\ [Next]_vars => IdentityInv'
<1> SUFFICES ASSUME IdentityInv, UNCHANGED identityVars PROVE IdentityInv'
  BY IdentityFrame, IdentityStepInv, RoleStepInv DEF vars, identityVars
<1> QED
  BY DEF identityVars, IdentityInv, IdentityTypes, DidBijection, ActiveIsRegistered,
     CapabilityNeedsActiveIdentity, RootAdminStays, IsActive, IsRegistered

\* The identity registry and the roles are consistent in every reachable
\* state: one subject per DID hash, named roles for active identities only,
\* and one administrator who cannot be removed.
THEOREM IdentitySafety == Spec => []IdentityInv
<1> QED
  BY InitIdentityInv, IdentityInvStep, PTL DEF Spec

-----------------------------------------------------------------------------
(* The asset ledger.                                                        *)

AssetInv ==
  /\ AssetTypes
  /\ AssetIdentity
  /\ callbacks \in Seq(Callbacks)
  /\ PendingTokensExist

LEMMA InitAssetInv == Init => AssetInv
<1> SUFFICES ASSUME Init PROVE AssetInv
  OBVIOUS
<1> USE ConstantsAssumption DEF ConstantsAssumption
<1>1. AssetTypes
  BY DEF Init, AssetTypes, Statuses
<1>2. AssetIdentity
  BY DEF Init, AssetIdentity, Exists, TokenIds
<1>3. callbacks \in Seq(Callbacks) /\ PendingTokensExist
  BY DEF Init, PendingTokensExist
<1> QED
  BY <1>1, <1>2, <1>3 DEF AssetInv

LEMMA PendingTokenFact ==
  ASSUME callbacks \in Seq(Callbacks), NEW i \in 1 .. Len(callbacks)
  PROVE  callbacks[i] \in Callbacks /\ callbacks[i].token \in Nat
<1>1. callbacks[i] \in Callbacks
  BY ElementOfSeq
<1> QED
  BY <1>1 DEF Callbacks, TokenIds

\* A pending callback more keeps the pending tokens among the minted.
LEMMA AwaitReceiverInv ==
  ASSUME AssetInv, NEW kind \in {"mint", "transfer"}, NEW token \in TokenIds, NEW to \in Accounts,
         token < nextTokenId', nextTokenId \in Nat, nextTokenId' \in Nat, nextTokenId <= nextTokenId',
         AwaitReceiver(kind, token, to)
  PROVE  callbacks' \in Seq(Callbacks) /\ PendingTokensExist'
<1> DEFINE frame == [kind |-> kind, token |-> token, to |-> to]
<1>1. frame \in Callbacks
  BY DEF Callbacks
<1>2. callbacks' = Append(callbacks, frame)
  BY DEF AwaitReceiver
<1>3. /\ callbacks' \in Seq(Callbacks)
      /\ Len(callbacks') = Len(callbacks) + 1
      /\ \A i \in 1 .. Len(callbacks) : callbacks'[i] = callbacks[i]
      /\ callbacks'[Len(callbacks) + 1] = frame
  BY <1>1, <1>2 DEF AssetInv
<1>4. ASSUME NEW i \in 1 .. Len(callbacks')
      PROVE  callbacks'[i].token < nextTokenId'
  <2>1. CASE i = Len(callbacks) + 1
    BY <1>3, <2>1
  <2>2. CASE i \in 1 .. Len(callbacks)
    <3>1. callbacks[i].token \in Nat /\ callbacks[i].token < nextTokenId
      BY <2>2, PendingTokenFact DEF AssetInv, PendingTokensExist
    <3> QED
      BY <1>3, <2>2, <3>1
  <2> QED
    BY <1>3, <2>1, <2>2 DEF AssetInv
<1> QED
  BY <1>3, <1>4 DEF PendingTokensExist

LEMMA MintInv ==
  ASSUME AssetInv, NEW caller \in Accounts, NEW recipient \in Accounts, NEW asset \in AssetIds,
         MintAndAllocateAsset(caller, recipient, asset)
  PROVE  AssetInv'
<1> USE ConstantsAssumption DEF ConstantsAssumption, AssetInv
<1> DEFINE n == nextTokenId
<1>1. /\ n \in TokenIds /\ n \in Nat
      /\ asset \notin assetIdExists
      /\ assetIdExists' = assetIdExists \cup {asset}
      /\ nextTokenId' = n + 1
      /\ assetIdByToken' = [assetIdByToken EXCEPT ![n] = asset]
      /\ ownerOf' = [ownerOf EXCEPT ![n] = recipient]
      /\ assetStatus' = assetStatus
  BY DEF MintAndAllocateAsset, NeverMinted, AssetTypes, TokenIds
<1>2. AssetTypes'
  BY <1>1 DEF AssetTypes, TokenIds
<1>3. AssetIdentity'
  <2>1. ASSUME NEW t \in TokenIds
        PROVE  /\ Exists(t)' <=> t < nextTokenId'
               /\ assetIdByToken'[t] # NoAsset <=> t < nextTokenId'
    BY <1>1 DEF AssetTypes, AssetIdentity, Exists, TokenIds
  <2>2. ASSUME NEW t \in TokenIds, NEW u \in TokenIds, t < n + 1, u < n + 1,
               assetIdByToken'[t] = assetIdByToken'[u]
        PROVE  t = u
    <3>1. \A v \in TokenIds : v < n + 1 /\ v # n => v < n /\ assetIdByToken[v] # asset
      BY <1>1 DEF AssetIdentity, TokenIds
    <3> QED
      BY <1>1, <2>2, <3>1 DEF AssetIdentity, AssetTypes
  <2>3. assetIdExists' = {assetIdByToken'[t] : t \in {u \in TokenIds : u < nextTokenId'}}
    <3>1. {u \in TokenIds : u < n + 1} = {u \in TokenIds : u < n} \cup {n}
      BY <1>1 DEF TokenIds
    <3>2. \A t \in TokenIds : assetIdByToken'[t] = IF t = n THEN asset ELSE assetIdByToken[t]
      BY <1>1 DEF AssetTypes
    <3>3. n \notin {u \in TokenIds : u < n}
      BY <1>1
    <3> QED
      BY <1>1, <3>1, <3>2, <3>3 DEF AssetIdentity
  <2> QED
    BY <1>1, <2>1, <2>2, <2>3 DEF AssetIdentity
<1>4. callbacks' \in Seq(Callbacks) /\ PendingTokensExist'
  <2>1. CASE UNCHANGED callbacks
    BY <1>1, <2>1, PendingTokenFact DEF PendingTokensExist
  <2>2. CASE AwaitReceiver("mint", n, recipient)
    BY <1>1, <2>2, AwaitReceiverInv
  <2> QED
    BY <2>1, <2>2 DEF MintAndAllocateAsset
<1> QED
  BY <1>2, <1>3, <1>4

LEMMA MoveInv ==
  ASSUME AssetInv, NEW from \in Accounts, NEW to \in Accounts, NEW token \in TokenIds,
         Exists(token), MoveToken(from, to, token),
         UNCHANGED <<nextTokenId, assetIdByToken, assetIdExists, assetStatus>>,
         UNCHANGED callbacks \/ AwaitReceiver("transfer", token, to)
  PROVE  AssetInv'
<1> USE ConstantsAssumption DEF ConstantsAssumption, AssetInv
<1>1. ownerOf' = [ownerOf EXCEPT ![token] = to]
  BY DEF MoveToken
<1>2. AssetTypes'
  BY <1>1 DEF AssetTypes
<1>3. AssetIdentity'
  <2>1. \A t \in TokenIds : Exists(t)' <=> Exists(t)
    BY <1>1 DEF AssetTypes, Exists
  <2> QED
    BY <2>1 DEF AssetIdentity
<1>4. callbacks' \in Seq(Callbacks) /\ PendingTokensExist'
  <2>1. CASE UNCHANGED callbacks
    BY <2>1 DEF PendingTokensExist
  <2>2. CASE AwaitReceiver("transfer", token, to)
    <3>1. token < nextTokenId /\ nextTokenId \in Nat
      BY DEF AssetIdentity, AssetTypes
    <3> QED
      BY <2>2, <3>1, AwaitReceiverInv
  <2> QED
    BY <2>1, <2>2
<1> QED
  BY <1>2, <1>3, <1>4

LEMMA AssetStepInv == AssetInv /\ AssetStep => AssetInv'
<1> SUFFICES ASSUME AssetInv, NEW caller \in Accounts,
                    \/ \E recipient \in Accounts, asset \in AssetIds :
                         MintAndAllocateAsset(caller, recipient, asset)
                    \/ \E token \in TokenIds, status \in Statuses :
                         SetAssetStatus(caller, token, status)
                    \/ \E from, to \in Accounts, token \in TokenIds :
                         \/ TransferAsset(caller, from, to, token)
                         \/ TransferFrom(caller, from, to, token)
                         \/ SafeTransferFrom(caller, from, to, token)
             PROVE  AssetInv'
  BY DEF AssetStep
<1>1. CASE \E recipient \in Accounts, asset \in AssetIds :
             MintAndAllocateAsset(caller, recipient, asset)
  BY <1>1, MintInv
<1>2. CASE \E token \in TokenIds, status \in Statuses : SetAssetStatus(caller, token, status)
  <2>1. /\ UNCHANGED <<nextTokenId, ownerOf, assetIdByToken, assetIdExists, callbacks>>
        /\ assetStatus' \in [TokenIds -> Statuses]
    BY <1>2 DEF SetAssetStatus, AssetInv, AssetTypes
  <2> QED
    BY <2>1 DEF AssetInv, AssetTypes, AssetIdentity, Exists, PendingTokensExist
<1>3. ASSUME NEW from \in Accounts, NEW to \in Accounts, NEW token \in TokenIds,
             \/ TransferAsset(caller, from, to, token)
             \/ TransferFrom(caller, from, to, token)
             \/ SafeTransferFrom(caller, from, to, token)
      PROVE  AssetInv'
  BY <1>3, MoveInv DEF TransferAsset, TransferFrom, SafeTransferFrom
<1> QED
  BY <1>1, <1>2, <1>3

LEMMA AssetFrame == Next => AssetStep \/ UNCHANGED assetVars
<1> SUFFICES ASSUME Next, ~AssetStep PROVE UNCHANGED assetVars
  OBVIOUS
<1>1. CASE IdentityStep
  BY <1>1 DEF IdentityStep, RegisterIdentity, SetIdentityStatus, ReplaceIdentityKey, OffboardIdentity
<1>2. CASE RoleStep
  BY <1>2 DEF RoleStep, RenounceRole, GrantRole, RevokeRole
<1>3. CASE AccessStep
  BY <1>3 DEF AccessStep, RequestAccess, SetAccessRule
<1>4. CASE EmergencyStep
  BY <1>4 DEF EmergencyStep, Pause, Unpause
<1>5. CASE ReceiverReturns \/ NextBlock
  BY <1>5 DEF ReceiverReturns, NextBlock
<1> QED
  BY <1>1, <1>2, <1>3, <1>4, <1>5 DEF Next

LEMMA CallbackFrame == Next => AssetStep \/ ReceiverReturns \/ UNCHANGED callbacks
<1> SUFFICES ASSUME Next, ~AssetStep, ~ReceiverReturns PROVE UNCHANGED callbacks
  OBVIOUS
<1>1. CASE IdentityStep
  BY <1>1 DEF IdentityStep, RegisterIdentity, SetIdentityStatus, ReplaceIdentityKey, OffboardIdentity
<1>2. CASE RoleStep
  BY <1>2 DEF RoleStep, RenounceRole, GrantRole, RevokeRole
<1>3. CASE AccessStep
  BY <1>3 DEF AccessStep, RequestAccess, SetAccessRule
<1>4. CASE EmergencyStep
  BY <1>4 DEF EmergencyStep, Pause, Unpause
<1>5. CASE NextBlock
  BY <1>5 DEF NextBlock
<1> QED
  BY <1>1, <1>2, <1>3, <1>4, <1>5 DEF Next

LEMMA AssetInvStep == AssetInv /\ [Next]_vars => AssetInv'
<1> SUFFICES ASSUME AssetInv, [Next]_vars, ~AssetStep PROVE AssetInv'
  BY AssetStepInv
<1>1. UNCHANGED assetVars
  BY AssetFrame DEF vars, assetVars
<1>2. callbacks' \in Seq(Callbacks) /\ PendingTokensExist'
  <2>1. CASE UNCHANGED callbacks
    BY <1>1, <2>1 DEF AssetInv, PendingTokensExist, assetVars
  <2>2. CASE ReceiverReturns
    <3>1. /\ callbacks' = SubSeq(callbacks, 1, Len(callbacks) - 1)
          /\ Len(callbacks) \in Nat \ {0}
      BY <2>2, EmptySeq DEF ReceiverReturns, AssetInv
    <3>2. \A i \in 1 .. Len(callbacks) - 1 : callbacks[i] \in Callbacks
      BY <3>1, PendingTokenFact DEF AssetInv
    <3>3. /\ callbacks' \in Seq(Callbacks)
          /\ Len(callbacks') = Len(callbacks) - 1
          /\ \A i \in 1 .. Len(callbacks) - 1 : callbacks'[i] = callbacks[i]
      <4> DEFINE n == Len(callbacks) - 1
      <4>1. n \in Nat /\ callbacks' = SubSeq(callbacks, 1, n)
        BY <3>1
      <4>2. \A i \in 1 .. n : callbacks[i] \in Callbacks
        BY <3>2
      <4> HIDE DEF n
      <4>3. /\ SubSeq(callbacks, 1, n) \in Seq(Callbacks)
            /\ Len(SubSeq(callbacks, 1, n)) = IF 1 <= n THEN n - 1 + 1 ELSE 0
            /\ \A i \in 1 .. n - 1 + 1 : SubSeq(callbacks, 1, n)[i] = callbacks[1 + i - 1]
        BY <4>1, <4>2, SubSeqProperties, Z3
      <4>4. /\ callbacks' \in Seq(Callbacks)
            /\ Len(callbacks') = n
            /\ \A i \in 1 .. n : callbacks'[i] = callbacks[i]
        BY <4>1, <4>3
      <4> QED
        BY <4>4 DEF n
    <3> QED
      BY <1>1, <3>1, <3>3 DEF AssetInv, PendingTokensExist, assetVars
  <2> QED
    BY <2>1, <2>2, CallbackFrame DEF vars
<1> QED
  BY <1>1, <1>2 DEF AssetInv, AssetTypes, AssetIdentity, Exists, assetVars

\* Each token carries an asset id of its own, tokens are minted in order and
\* the ids marked as existing are the minted ones, in every reachable state,
\* those inside a receiver's callback included.
THEOREM AssetIdentitySafety == Spec => []AssetInv
<1> QED
  BY InitAssetInv, AssetInvStep, PTL DEF Spec

-----------------------------------------------------------------------------
(* Rules, time and events: the rest of the type invariant.                  *)

ControlTypes ==
  /\ accessRules \in [TokenIds -> [AccessActions -> [Accounts -> Rules]]]
  /\ paused \in BOOLEAN
  /\ now \in Times
  /\ event \in Events

LEMMA InitControlTypes == Init => ControlTypes
<1> SUFFICES ASSUME Init PROVE ControlTypes
  OBVIOUS
<1>1. NoRule \in Rules
  BY DEF Rules, NoRule
<1>2. 1 \in Times
  BY ConstantsAssumption DEF Times, ConstantsAssumption
<1>3. [t \in TokenIds |-> [x \in AccessActions |-> [a \in Accounts |-> NoRule]]]
        \in [TokenIds -> [AccessActions -> [Accounts -> Rules]]]
  BY <1>1
<1> QED
  BY <1>1, <1>2, <1>3 DEF Init, ControlTypes, Events

LEMMA AccessStepTypes == ControlTypes /\ AccessStep => ControlTypes'
<1> SUFFICES ASSUME ControlTypes, NEW caller \in Accounts, NEW token \in TokenIds,
                    NEW action \in AccessActions,
                    \/ RequestAccess(caller, token, action)
                    \/ \E requester \in Accounts, allowed \in BOOLEAN, expiresAt \in Times \cup {0} :
                         SetAccessRule(caller, token, requester, action, allowed, expiresAt)
             PROVE  ControlTypes'
  BY DEF AccessStep
<1>1. CASE RequestAccess(caller, token, action)
  <2>1. Granted(token, caller, action) \in BOOLEAN
    BY DEF Granted
  <2>2. event' \in Events
    BY <1>1, <2>1 DEF RequestAccess, Events
  <2> QED
    BY <1>1, <2>2 DEF RequestAccess, ControlTypes
<1>2. ASSUME NEW requester \in Accounts, NEW allowed \in BOOLEAN, NEW expiresAt \in Times \cup {0},
             SetAccessRule(caller, token, requester, action, allowed, expiresAt)
      PROVE  ControlTypes'
  <2> DEFINE rule == [exists |-> TRUE, allowed |-> allowed, expiresAt |-> expiresAt]
  <2>1. rule \in Rules
    BY DEF Rules
  <2>2. accessRules' = [accessRules EXCEPT ![token][action][requester] = rule]
    BY <1>2 DEF SetAccessRule
  <2> HIDE DEF rule
  <2>3. accessRules' \in [TokenIds -> [AccessActions -> [Accounts -> Rules]]]
    BY <2>1, <2>2 DEF ControlTypes
  <2> QED
    BY <1>2, <2>3 DEF SetAccessRule, ControlTypes, Events
<1> QED
  BY <1>1, <1>2

LEMMA AssetStepTypes == AssetInv /\ ControlTypes /\ AssetStep => ControlTypes'
<1> SUFFICES ASSUME AssetInv, ControlTypes, NEW caller \in Accounts,
                    \/ \E recipient \in Accounts, asset \in AssetIds :
                         MintAndAllocateAsset(caller, recipient, asset)
                    \/ \E token \in TokenIds, status \in Statuses :
                         SetAssetStatus(caller, token, status)
                    \/ \E from, to \in Accounts, token \in TokenIds :
                         \/ TransferAsset(caller, from, to, token)
                         \/ TransferFrom(caller, from, to, token)
                         \/ SafeTransferFrom(caller, from, to, token)
             PROVE  ControlTypes'
  BY DEF AssetStep
<1>1. ASSUME NEW recipient \in Accounts, NEW asset \in AssetIds,
             MintAndAllocateAsset(caller, recipient, asset)
      PROVE  ControlTypes'
  <2>1. nextTokenId \in TokenIds
    BY <1>1, ConstantsAssumption
       DEF MintAndAllocateAsset, AssetInv, AssetTypes, TokenIds, ConstantsAssumption
  <2>2. event' \in Events
    BY <1>1, <2>1 DEF MintAndAllocateAsset, AwaitReceiver, Allocation, Events
  <2> QED
    BY <1>1, <2>2 DEF MintAndAllocateAsset, ControlTypes
<1>2. CASE \E token \in TokenIds, status \in Statuses : SetAssetStatus(caller, token, status)
  BY <1>2 DEF SetAssetStatus, ControlTypes, Events
<1>3. CASE \E from, to \in Accounts, token \in TokenIds :
             \/ TransferAsset(caller, from, to, token)
             \/ TransferFrom(caller, from, to, token)
             \/ SafeTransferFrom(caller, from, to, token)
  BY <1>3 DEF TransferAsset, TransferFrom, SafeTransferFrom, AwaitReceiver, ControlTypes, Events
<1> QED
  BY <1>1, <1>2, <1>3

\* The log after a callback needs the pending token to be minted.
LEMMA ReceiverReturnsTypes == AssetInv /\ ControlTypes /\ ReceiverReturns => ControlTypes'
<1> SUFFICES ASSUME AssetInv, ControlTypes, ReceiverReturns PROVE ControlTypes'
  OBVIOUS
<1> DEFINE call == callbacks[Len(callbacks)]
<1>1. Len(callbacks) \in 1 .. Len(callbacks)
  BY EmptySeq DEF ReceiverReturns, AssetInv
<1>2. call \in Callbacks /\ call.token < nextTokenId
  BY <1>1, PendingTokenFact DEF AssetInv, PendingTokensExist
<1>3. event' = AfterReceiver(call)
  BY DEF ReceiverReturns
<1> HIDE DEF call
<1>4. assetIdByToken[call.token] \in AssetIds
  BY <1>2 DEF AssetInv, AssetIdentity, AssetTypes, Callbacks
<1>5. event' \in Events
  BY <1>2, <1>3, <1>4 DEF AfterReceiver, Allocation, Callbacks, Events
<1> QED
  BY <1>5 DEF ReceiverReturns, ControlTypes

LEMMA ControlTypesStep == AssetInv /\ ControlTypes /\ [Next]_vars => ControlTypes'
<1> SUFFICES ASSUME AssetInv, ControlTypes, [Next]_vars PROVE ControlTypes'
  OBVIOUS
<1>1. CASE IdentityStep
  BY <1>1 DEF IdentityStep, RegisterIdentity, SetIdentityStatus, ReplaceIdentityKey, OffboardIdentity,
     ControlTypes, Events
<1>2. CASE RoleStep
  BY <1>2 DEF RoleStep, RenounceRole, GrantRole, RevokeRole, ControlTypes, Events
<1>3. CASE AssetStep
  BY <1>3, AssetStepTypes
<1>4. CASE AccessStep
  BY <1>4, AccessStepTypes
<1>5. CASE EmergencyStep
  BY <1>5 DEF EmergencyStep, Pause, Unpause, ControlTypes, Events
<1>6. CASE ReceiverReturns
  BY <1>6, ReceiverReturnsTypes
<1>7. CASE NextBlock
  BY <1>7, ConstantsAssumption DEF NextBlock, ControlTypes, Events, Times, ConstantsAssumption
<1>8. CASE UNCHANGED vars
  BY <1>8 DEF vars, ControlTypes
<1> QED
  BY <1>1, <1>2, <1>3, <1>4, <1>5, <1>6, <1>7, <1>8 DEF Next

\* Every variable of the contract stays within its type.
THEOREM TypeCorrect == Spec => []TypeOK
<1>1. Init => IdentityInv /\ AssetInv /\ ControlTypes
  BY InitIdentityInv, InitAssetInv, InitControlTypes
<1>2. (IdentityInv /\ AssetInv /\ ControlTypes) /\ [Next]_vars
        => (IdentityInv /\ AssetInv /\ ControlTypes)'
  BY IdentityInvStep, AssetInvStep, ControlTypesStep
<1>3. IdentityInv /\ AssetInv /\ ControlTypes => TypeOK
  BY DEF IdentityInv, AssetInv, ControlTypes, TypeOK
<1> QED
  BY <1>1, <1>2, <1>3, PTL DEF Spec
-----------------------------------------------------------------------------
(***************************************************************************)
(* The inductive invariant, the properties of steps that rest on it, and    *)
(* the proof that SecureAssetPlatform implements AssetLedger.               *)
(***************************************************************************)

\* A registered subject stays registered under its DID hash, and a DID hash
\* stays with the subject that first took it.
LEMMA BindingsPersist ==
  ASSUME IdentityInv, [Next]_vars
  PROVE  /\ \A d \in Dids : identityByDidHash[d] # NoAccount
                              => identityByDidHash'[d] = identityByDidHash[d]
         /\ \A a \in Accounts : IsRegistered(a)
              => /\ identityRegistry'[a].registered
                 /\ identityRegistry'[a].didHash = identityRegistry[a].didHash
<1> DEFINE Goal == /\ \A d \in Dids : identityByDidHash[d] # NoAccount
                                        => identityByDidHash'[d] = identityByDidHash[d]
                   /\ \A a \in Accounts : IsRegistered(a)
                        => /\ identityRegistry'[a].registered
                           /\ identityRegistry'[a].didHash = identityRegistry[a].didHash
<1>1. CASE UNCHANGED identityVars
  BY <1>1 DEF identityVars, IsRegistered
<1>2. CASE RoleStep
  BY <1>2 DEF RoleStep, RenounceRole, GrantRole, RevokeRole, IsRegistered
<1>3. ASSUME NEW caller \in Accounts, NEW subject \in Accounts, NEW did \in Dids,
             RegisterIdentity(caller, subject, did)
      PROVE  Goal
  BY <1>3 DEF RegisterIdentity, DidIsFree, IsRegistered, IdentityInv, IdentityTypes
<1>4. ASSUME NEW subject \in Accounts, identityRegistry' = Deactivated(subject),
             identityByDidHash' = identityByDidHash
      PROVE  Goal
  BY <1>4 DEF Deactivated, IsRegistered, IdentityInv, IdentityTypes, Profiles
<1>5. ASSUME NEW caller \in Accounts, NEW subject \in Accounts, NEW active \in BOOLEAN,
             SetIdentityStatus(caller, subject, active)
      PROVE  Goal
  <2>1. CASE ~active
    BY <1>4, <1>5, <2>1 DEF SetIdentityStatus
  <2>2. CASE active
    BY <1>5, <2>2 DEF SetIdentityStatus, IsRegistered, IdentityInv, IdentityTypes, Profiles
  <2> QED
    BY <2>1, <2>2
<1>6. ASSUME NEW caller \in Accounts, NEW old \in Accounts, NEW new \in Accounts, NEW did \in Dids,
             ReplaceIdentityKey(caller, old, new, did)
      PROVE  Goal
  <2>1. /\ \A a \in Accounts \ {new} : identityRegistry'[a].didHash = identityRegistry[a].didHash
        /\ \A a \in Accounts \ {new} : identityRegistry'[a].registered = identityRegistry[a].registered
    BY <1>6 DEF ReplaceIdentityKey, Deactivated, IdentityInv, IdentityTypes, Profiles
  <2> QED
    BY <1>6, <2>1 DEF ReplaceIdentityKey, DidIsFree, IsRegistered, IdentityInv, IdentityTypes
<1>7. CASE IdentityStep
  <2>1. PICK caller \in Accounts, subject \in Accounts :
          \/ \E did \in Dids : RegisterIdentity(caller, subject, did)
          \/ \E active \in BOOLEAN : SetIdentityStatus(caller, subject, active)
          \/ \E new \in Accounts, did \in Dids : ReplaceIdentityKey(caller, subject, new, did)
          \/ OffboardIdentity(caller, subject)
    BY <1>7 DEF IdentityStep
  <2>2. CASE OffboardIdentity(caller, subject)
    BY <1>4, <2>2 DEF OffboardIdentity
  <2> QED
    BY <1>3, <1>5, <1>6, <2>1, <2>2
<1> QED
  BY <1>1, <1>2, <1>7, IdentityFrame DEF vars, identityVars

\* The binding of a DID hash to its subject, and of a subject to its DID
\* hash, is never undone by any call.
THEOREM DidPermanence == Spec => DidBindingsArePermanent
<1> DEFINE Step == /\ \A d \in Dids : identityByDidHash[d] # NoAccount
                                        => identityByDidHash'[d] = identityByDidHash[d]
                   /\ \A a \in Accounts : IsRegistered(a)
                        => /\ identityRegistry'[a].registered
                           /\ identityRegistry'[a].didHash = identityRegistry[a].didHash
<1>1. IdentityInv /\ [Next]_vars => [Step]_vars
  BY BindingsPersist
<1> HIDE DEF Step
<1>2. Spec => [][Step]_vars
  BY <1>1, IdentitySafety, PTL DEF Spec
<1> QED
  BY <1>2 DEF Step, DidBindingsArePermanent

\* A stopped contract changes nothing but the stop itself.
THEOREM PauseFreezes == Spec => PauseFreezesState
<1>1. paused /\ paused' /\ Next => UNCHANGED <<identityVars, assetVars, accessRules>>
  <2> SUFFICES ASSUME paused, Next
               PROVE  UNCHANGED <<identityVars, assetVars, accessRules>>
    OBVIOUS
  <2>1. ~IdentityStep
    BY DEF IdentityStep, RegisterIdentity, SetIdentityStatus, ReplaceIdentityKey, OffboardIdentity,
       MaySetIdentityStatus, AdminCall
  <2>2. ~RoleStep
    BY DEF RoleStep, RenounceRole, GrantRole, RevokeRole, AdminCall
  <2>3. ~AssetStep
    BY DEF AssetStep, MintAndAllocateAsset, SetAssetStatus, TransferAsset, TransferFrom,
       SafeTransferFrom, ManagerCall
  <2>4. CASE AccessStep
    BY <2>4 DEF AccessStep, RequestAccess, SetAccessRule, ManagerCall
  <2>5. CASE EmergencyStep
    BY <2>5 DEF EmergencyStep, Pause, Unpause
  <2>6. CASE ReceiverReturns
    BY <2>6 DEF ReceiverReturns
  <2>7. CASE NextBlock
    BY <2>7 DEF NextBlock
  <2> QED
    BY <2>1, <2>2, <2>3, <2>4, <2>5, <2>6, <2>7 DEF Next
<1>2. [Next]_vars => [paused /\ paused' => UNCHANGED <<identityVars, assetVars, accessRules>>]_vars
  BY <1>1
<1> QED
  BY <1>2, PTL DEF Spec, PauseFreezesState

-----------------------------------------------------------------------------
(* What a token that is not minted yet can carry: nothing.                  *)

\* The contract's state as far as the mint's clean slate depends on it.
BaseInv == IdentityInv /\ AssetInv /\ ControlTypes

LEMMA BaseInvInit == Init => BaseInv
BY InitIdentityInv, InitAssetInv, InitControlTypes DEF BaseInv

LEMMA BaseInvStep == BaseInv /\ [Next]_vars => BaseInv'
BY IdentityInvStep, AssetInvStep, ControlTypesStep DEF BaseInv

\* What an asset operation does to each token.
LEMMA AssetStepEffect ==
  ASSUME BaseInv, AssetStep
  PROVE  \/ /\ UNCHANGED <<ownerOf, assetIdByToken, assetIdExists, nextTokenId>>
            /\ \E token \in TokenIds, status \in Statuses :
                 /\ Exists(token)
                 /\ ~paused
                 /\ IsValidAssetStatusTransition(assetStatus[token], status)
                 /\ assetStatus' = [assetStatus EXCEPT ![token] = status]
         \/ /\ UNCHANGED <<assetStatus, assetIdByToken, assetIdExists, nextTokenId>>
            /\ \E token \in TokenIds, to \in Accounts :
                 /\ Exists(token)
                 /\ ~paused
                 /\ assetStatus[token] = "ACTIVE"
                 /\ IsActive(ownerOf[token]) /\ IsActive(to)
                 /\ ownerOf' = [ownerOf EXCEPT ![token] = to]
         \/ /\ UNCHANGED assetStatus
            /\ \E to \in Accounts, asset \in AssetIds :
                 /\ ~paused
                 /\ IsActive(to)
                 /\ asset \notin assetIdExists
                 /\ nextTokenId \in TokenIds
                 /\ assetIdExists' = assetIdExists \cup {asset}
                 /\ nextTokenId' = nextTokenId + 1
                 /\ assetIdByToken' = [assetIdByToken EXCEPT ![nextTokenId] = asset]
                 /\ ownerOf' = [ownerOf EXCEPT ![nextTokenId] = to]
<1>1. PICK caller \in Accounts :
        \/ \E recipient \in Accounts, asset \in AssetIds :
             MintAndAllocateAsset(caller, recipient, asset)
        \/ \E token \in TokenIds, status \in Statuses : SetAssetStatus(caller, token, status)
        \/ \E from, to \in Accounts, token \in TokenIds :
             \/ TransferAsset(caller, from, to, token)
             \/ TransferFrom(caller, from, to, token)
             \/ SafeTransferFrom(caller, from, to, token)
  BY DEF AssetStep
<1>2. CASE \E token \in TokenIds, status \in Statuses : SetAssetStatus(caller, token, status)
  BY <1>2 DEF SetAssetStatus, ManagerCall
<1>3. CASE \E from, to \in Accounts, token \in TokenIds :
             \/ TransferAsset(caller, from, to, token)
             \/ TransferFrom(caller, from, to, token)
             \/ SafeTransferFrom(caller, from, to, token)
  BY <1>3 DEF TransferAsset, TransferFrom, SafeTransferFrom, MoveToken, UpdateAllowed
<1>4. CASE \E recipient \in Accounts, asset \in AssetIds :
             MintAndAllocateAsset(caller, recipient, asset)
  <2>1. nextTokenId < MaxTokens => nextTokenId \in TokenIds
    BY ConstantsAssumption DEF BaseInv, AssetInv, AssetTypes, TokenIds, ConstantsAssumption
  <2> QED
    BY <1>4, <2>1 DEF MintAndAllocateAsset, UpdateAllowed, NeverMinted
<1> QED
  BY <1>1, <1>2, <1>3, <1>4

LEMMA NothingPrecedesTheMintStep ==
  BaseInv /\ NothingPrecedesTheMint /\ [Next]_vars => NothingPrecedesTheMint'
<1> SUFFICES ASSUME BaseInv, NothingPrecedesTheMint, [Next]_vars, NEW t \in TokenIds
             PROVE  /\ Exists(t)' => IsRegistered(ownerOf[t])'
                    /\ ~Exists(t)' =>
                         /\ assetStatus'[t] = "ACTIVE"
                         /\ \A x \in AccessActions, a \in Accounts : accessRules'[t][x][a] = NoRule
  BY DEF NothingPrecedesTheMint, Exists
<1>1. \A a \in Accounts : IsRegistered(a) => IsRegistered(a)'
  BY BindingsPersist DEF BaseInv, IsRegistered
<1>2. /\ \A a \in Accounts : IsActive(a) => IsRegistered(a)
      /\ ownerOf \in [TokenIds -> Accounts \cup {NoAccount}]
  BY DEF BaseInv, IdentityInv, ActiveIsRegistered, AssetInv, AssetTypes
<1>3. CASE AssetStep
  <2>1. UNCHANGED accessRules
    BY <1>3 DEF AssetStep, MintAndAllocateAsset, SetAssetStatus, TransferAsset, TransferFrom,
       SafeTransferFrom
  <2>2. assetStatus \in [TokenIds -> Statuses]
    BY DEF BaseInv, AssetInv, AssetTypes
  <2> QED
    BY <1>1, <1>2, <1>3, <2>1, <2>2, AssetStepEffect, ConstantsAssumption
       DEF NothingPrecedesTheMint, Exists, ConstantsAssumption
<1>4. CASE UNCHANGED <<assetVars, accessRules>>
  BY <1>1, <1>2, <1>4 DEF NothingPrecedesTheMint, Exists, assetVars
<1>5. CASE AccessStep
  <2>1. UNCHANGED <<ownerOf, assetStatus>>
    BY <1>5 DEF AccessStep, RequestAccess, SetAccessRule, assetVars
  <2>2. Exists(t) \/ UNCHANGED accessRules[t]
    BY <1>5 DEF AccessStep, RequestAccess, SetAccessRule, BaseInv, ControlTypes
  <2> QED
    BY <1>1, <1>2, <2>1, <2>2 DEF NothingPrecedesTheMint, Exists
<1>6. CASE ~AssetStep /\ ~AccessStep
  <2>1. UNCHANGED assetVars
    BY <1>6, AssetFrame DEF vars, assetVars
  <2>2. UNCHANGED accessRules
    BY <1>6 DEF vars, Next, IdentityStep, RegisterIdentity, SetIdentityStatus, ReplaceIdentityKey,
       OffboardIdentity, RoleStep, RenounceRole, GrantRole, RevokeRole, EmergencyStep, Pause, Unpause,
       ReceiverReturns, NextBlock
  <2> QED
    BY <1>4, <2>1, <2>2
<1> QED
  BY <1>3, <1>5, <1>6

\* The invariant that is inductive: types, identities, roles, asset ids and
\* pending callbacks together.
THEOREM InductiveInvariantHolds == Spec => []InductiveInvariant
<1>1. Init => BaseInv /\ NothingPrecedesTheMint
  <2>1. Init => NothingPrecedesTheMint
    BY DEF Init, NothingPrecedesTheMint, Exists
  <2> QED
    BY <2>1, BaseInvInit
<1>2. (BaseInv /\ NothingPrecedesTheMint) /\ [Next]_vars => (BaseInv /\ NothingPrecedesTheMint)'
  BY BaseInvStep, NothingPrecedesTheMintStep
<1>3. BaseInv /\ NothingPrecedesTheMint => InductiveInvariant
  BY DEF BaseInv, IdentityInv, AssetInv, ControlTypes, TypeOK, InductiveInvariant
<1> QED
  BY <1>1, <1>2, <1>3, PTL DEF Spec

LEMMA InductiveInvariantFacts == InductiveInvariant => BaseInv /\ NothingPrecedesTheMint
BY DEF BaseInv, IdentityInv, AssetInv, ControlTypes, TypeOK, InductiveInvariant

\* A revoked or retired asset never changes hands and never returns to
\* service.
THEOREM WithdrawalFinal == Spec => WithdrawalIsFinal
<1> DEFINE Step == \A t \in TokenIds : assetStatus[t] \in {"REVOKED", "RETIRED"} =>
                     /\ ownerOf'[t] = ownerOf[t]
                     /\ assetStatus'[t] \in {assetStatus[t], "RETIRED"}
<1>1. InductiveInvariant /\ [Next]_vars => [Step]_vars
  <2> SUFFICES ASSUME InductiveInvariant, Next, NEW t \in TokenIds,
                      assetStatus[t] \in {"REVOKED", "RETIRED"}
               PROVE  /\ ownerOf'[t] = ownerOf[t]
                      /\ assetStatus'[t] \in {assetStatus[t], "RETIRED"}
    OBVIOUS
  <2>1. CASE UNCHANGED assetVars
    BY <2>1 DEF assetVars
  <2>2. CASE AssetStep
    <3>1. BaseInv /\ NothingPrecedesTheMint
      BY InductiveInvariantFacts
    <3>2. /\ assetStatus \in [TokenIds -> Statuses]
          /\ ownerOf \in [TokenIds -> Accounts \cup {NoAccount}]
          /\ t # nextTokenId
      <4>1. Exists(t)
        BY <3>1 DEF NothingPrecedesTheMint
      <4> QED
        BY <3>1, <4>1 DEF BaseInv, AssetInv, AssetTypes, AssetIdentity
    <3> QED
      BY <2>2, <3>1, <3>2, AssetStepEffect DEF IsValidAssetStatusTransition
  <2> QED
    BY <2>1, <2>2, AssetFrame
<1> HIDE DEF Step
<1>2. Spec => [][Step]_vars
  BY <1>1, InductiveInvariantHolds, PTL DEF Spec
<1> QED
  BY <1>2 DEF Step, WithdrawalIsFinal

\* Only requestAccess logs a decision.
LEMMA DecisionsAreRequested ==
  ASSUME Next, event'.name = "AccessDecision"
  PROVE  \E caller \in Accounts, token \in TokenIds, action \in AccessActions :
           RequestAccess(caller, token, action)
<1> DEFINE Decides == event'.name = "AccessDecision"
<1>1. ASSUME event' = NoEvent PROVE ~ Decides
  BY <1>1 DEF NoEvent
<1>2. ASSUME NEW token, NEW to, NEW asset, event' = Allocation(token, to, asset)
      PROVE  ~ Decides
  BY <1>2 DEF Allocation
<1> HIDE DEF Decides
<1>3. CASE IdentityStep
  BY <1>1, <1>3 DEF IdentityStep, RegisterIdentity, SetIdentityStatus, ReplaceIdentityKey,
     OffboardIdentity, Decides
<1>4. CASE RoleStep
  BY <1>1, <1>4 DEF RoleStep, RenounceRole, GrantRole, RevokeRole, Decides
<1>5. CASE AssetStep
  <2>1. ASSUME NEW caller \in Accounts, NEW recipient \in Accounts, NEW asset \in AssetIds,
               MintAndAllocateAsset(caller, recipient, asset)
        PROVE  ~ Decides
    BY <1>1, <1>2, <2>1 DEF MintAndAllocateAsset, AwaitReceiver
  <2>2. ASSUME NEW caller \in Accounts, NEW token \in TokenIds, NEW status \in Statuses,
               SetAssetStatus(caller, token, status)
        PROVE  ~ Decides
    BY <1>1, <2>2 DEF SetAssetStatus
  <2>3. ASSUME NEW caller \in Accounts, NEW from \in Accounts, NEW to \in Accounts,
               NEW token \in TokenIds,
               \/ TransferAsset(caller, from, to, token)
               \/ TransferFrom(caller, from, to, token)
               \/ SafeTransferFrom(caller, from, to, token)
        PROVE  ~ Decides
    BY <1>1, <2>3 DEF TransferAsset, TransferFrom, SafeTransferFrom, AwaitReceiver
  <2> QED
    BY <1>5, <2>1, <2>2, <2>3 DEF AssetStep, Decides
<1>6. CASE AccessStep
  BY <1>1, <1>6 DEF AccessStep, SetAccessRule, Decides
<1>7. CASE EmergencyStep
  BY <1>1, <1>7 DEF EmergencyStep, Pause, Unpause, Decides
<1>8. CASE ReceiverReturns
  BY <1>1, <1>2, <1>8 DEF ReceiverReturns, AfterReceiver, Decides
<1>9. CASE NextBlock
  BY <1>1, <1>9 DEF NextBlock, Decides
<1> QED
  BY <1>3, <1>4, <1>5, <1>6, <1>7, <1>8, <1>9 DEF Next

\* For any rules, roles, times and nesting of calls, access is granted to active identities
\* only, outside a stop, to an asset in service, and as the rule in force says.
THEOREM GrantsAreEarned == Spec => GrantsFollowPolicy
<1> DEFINE Grants == event'.name = "AccessDecision" /\ event'.granted
           Earned == LET r == event'.requester
                         t == event'.token
                         rule == accessRules[t][event'.action][r]
                     IN  /\ IsActive(r) /\ ~paused
                         /\ Exists(t) /\ assetStatus[t] = "ACTIVE"
                         /\ rule.exists => rule.allowed /\ (rule.expiresAt # 0 => now <= rule.expiresAt)
                         /\ ~rule.exists =>
                              \/ ownerOf[t] = r
                              \/ r \in hasRole["MANAGER_ROLE"] \cup hasRole["AUDITOR_ROLE"]
<1>1. InductiveInvariant /\ [Next]_vars => [Grants => Earned]_vars
  <2> SUFFICES ASSUME InductiveInvariant, Next, Grants PROVE Earned
    OBVIOUS
  <2>1. PICK r \in Accounts, t \in TokenIds, action \in AccessActions :
          RequestAccess(r, t, action)
    BY DecisionsAreRequested
  <2> DEFINE rule == accessRules[t][action][r]
  <2>2. /\ event'.requester = r /\ event'.token = t /\ event'.action = action
        /\ event'.granted = Granted(t, r, action)
        /\ IsActive(r) /\ ~paused
    BY <2>1 DEF RequestAccess
  <2>3. Granted(t, r, action)
    BY <2>2
  <2>4. rule.expiresAt \in Nat /\ now \in Nat
    <3>1. /\ accessRules \in [TokenIds -> [AccessActions -> [Accounts -> Rules]]]
          /\ now \in Times
      BY InductiveInvariantFacts DEF BaseInv, ControlTypes
    <3>2. Times \subseteq Nat
      BY DEF Times
    <3>3. rule \in Rules
      BY <3>1
    <3>4. rule.expiresAt \in Times \cup {0}
      BY <3>3 DEF Rules
    <3> HIDE DEF rule
    <3>5. Times \cup {0} \subseteq Nat
      BY <3>2
    <3> QED
      BY <3>1, <3>4, <3>5
  <2>5. /\ Exists(t) /\ assetStatus[t] = "ACTIVE"
        /\ rule.exists => rule.allowed /\ (rule.expiresAt # 0 => now <= rule.expiresAt)
        /\ ~rule.exists => \/ ownerOf[t] = r
                           \/ r \in hasRole["MANAGER_ROLE"] \cup hasRole["AUDITOR_ROLE"]
    BY <2>3, <2>4 DEF Granted
  <2> QED
    BY <2>2, <2>5
<1> HIDE DEF Grants, Earned
<1>2. Spec => [][Grants => Earned]_vars
  BY <1>1, InductiveInvariantHolds, PTL DEF Spec
<1> QED
  BY <1>2 DEF Grants, Earned, GrantsFollowPolicy

-----------------------------------------------------------------------------
(* SecureAssetPlatform implements AssetLedger.                              *)

\* Minted tokens and existing asset ids are each other's inverse images.
TokensAndIds ==
  /\ \A t \in TokenIds : t < nextTokenId =>
       /\ assetIdByToken[t] \in assetIdExists
       /\ TokenOf(assetIdByToken[t]) = t
  /\ \A a \in assetIdExists :
       /\ TokenOf(a) \in TokenIds
       /\ TokenOf(a) < nextTokenId
       /\ assetIdByToken[TokenOf(a)] = a

LEMMA TokensAndIdsHold == BaseInv => TokensAndIds
<1> SUFFICES ASSUME BaseInv PROVE TokensAndIds
  OBVIOUS
<1>1. ASSUME NEW t \in TokenIds, t < nextTokenId
      PROVE  /\ assetIdByToken[t] \in assetIdExists
             /\ TokenOf(assetIdByToken[t]) = t
  <2>1. /\ assetIdByToken[t] \in assetIdExists
        /\ assetIdByToken[t] # NoAsset
    BY <1>1 DEF BaseInv, AssetInv, AssetIdentity
  <2>2. \A u \in TokenIds : assetIdByToken[u] = assetIdByToken[t] => u = t
    BY <1>1, <2>1 DEF BaseInv, AssetInv, AssetIdentity
  <2> QED
    BY <2>1, <2>2 DEF TokenOf
<1>2. ASSUME NEW a \in assetIdExists
      PROVE  /\ TokenOf(a) \in TokenIds
             /\ TokenOf(a) < nextTokenId
             /\ assetIdByToken[TokenOf(a)] = a
  <2>1. PICK t \in TokenIds : t < nextTokenId /\ assetIdByToken[t] = a
    BY DEF BaseInv, AssetInv, AssetIdentity
  <2> QED
    BY <1>1, <2>1
<1> QED
  BY <1>1, <1>2 DEF TokensAndIds

LEMMA InitLedger == Init => Ledger!LedgerInit
<1> SUFFICES ASSUME Init PROVE Ledger!LedgerInit
  OBVIOUS
<1>1. \A a \in AssetIds : HolderOf(a) = NoAccount /\ StatusOf(a) = "ACTIVE"
  BY DEF Init, HolderOf, StatusOf
<1>2. ~paused
  BY DEF Init
<1> QED
  BY <1>1, <1>2 DEF Ledger!LedgerInit

\* A mint allocates its asset and leaves every other asset as it was.
LEMMA MintAllocates ==
  ASSUME BaseInv, BaseInv', NothingPrecedesTheMint,
         NEW to \in Accounts, NEW asset \in AssetIds,
         ~paused, UNCHANGED <<paused, identityVars, assetStatus>>, IsActive(to),
         asset \notin assetIdExists,
         nextTokenId \in TokenIds,
         assetIdExists' = assetIdExists \cup {asset},
         nextTokenId' = nextTokenId + 1,
         assetIdByToken' = [assetIdByToken EXCEPT ![nextTokenId] = asset],
         ownerOf' = [ownerOf EXCEPT ![nextTokenId] = to]
  PROVE  Ledger!Allocate(asset, to)
<1> DEFINE n == nextTokenId
<1>1. TokensAndIds /\ TokensAndIds'
  BY TokensAndIdsHold, PTL
<1>2. /\ ownerOf \in [TokenIds -> Accounts \cup {NoAccount}]
      /\ assetIdByToken \in [TokenIds -> AssetIds \cup {NoAsset}]
      /\ n \in Nat
  BY DEF BaseInv, AssetInv, AssetTypes
<1>3. TokenOf(asset)' = n
  BY <1>1, <1>2 DEF TokensAndIds
<1>4. ASSUME NEW a \in assetIdExists
      PROVE  a # asset /\ TokenOf(a)' = TokenOf(a) /\ TokenOf(a) # n
  <2>1. /\ TokenOf(a) \in TokenIds /\ TokenOf(a) < n /\ TokenOf(a) # n
        /\ assetIdByToken[TokenOf(a)] = a
    BY <1>1, <1>2 DEF TokensAndIds, TokenIds
  <2>2. \A u \in TokenIds : assetIdByToken'[u] = a <=> assetIdByToken[u] = a
    BY <1>2 DEF BaseInv, AssetInv, AssetIdentity
  <2> QED
    BY <2>1, <2>2 DEF TokenOf
<1>5. HolderOf(asset) = NoAccount /\ HolderOf(asset)' = to
  BY <1>2, <1>3 DEF HolderOf
<1>6. \A a \in AssetIds \ {asset} : HolderOf(a)' = HolderOf(a)
  BY <1>1, <1>2, <1>3, <1>4 DEF HolderOf, TokensAndIds
<1>7. \A a \in AssetIds : StatusOf(a)' = StatusOf(a)
  <2>1. assetStatus[n] = "ACTIVE"
    BY <1>2 DEF NothingPrecedesTheMint, BaseInv, AssetInv, AssetIdentity
  <2> QED
    BY <1>3, <1>4, <2>1 DEF StatusOf
<1> QED
  BY <1>5, <1>6, <1>7 DEF Ledger!Allocate, IsActive, identityVars

\* A controlled transfer moves the asset of its token and no other.
LEMMA TransferMoves ==
  ASSUME BaseInv, NEW token \in TokenIds, NEW to \in Accounts,
         UNCHANGED <<paused, identityVars, assetStatus, assetIdByToken, assetIdExists, nextTokenId>>,
         Exists(token), ~paused, assetStatus[token] = "ACTIVE",
         IsActive(ownerOf[token]), IsActive(to),
         ownerOf' = [ownerOf EXCEPT ![token] = to]
  PROVE  \E a \in AssetIds : Ledger!Move(a, to)
<1>1. TokensAndIds
  BY TokensAndIdsHold
<1>2. /\ ownerOf \in [TokenIds -> Accounts \cup {NoAccount}]
      /\ assetIdExists \subseteq AssetIds
      /\ token < nextTokenId
  BY DEF BaseInv, AssetInv, AssetTypes, AssetIdentity
<1>3. PICK asset \in AssetIds :
        asset \in assetIdExists /\ assetIdByToken[token] = asset /\ TokenOf(asset) = token
  BY <1>1, <1>2 DEF TokensAndIds
<1>4. \A a \in AssetIds : TokenOf(a)' = TokenOf(a)
  BY DEF TokenOf
<1>5. /\ HolderOf(asset) = ownerOf[token] /\ HolderOf(asset)' = to
      /\ StatusOf(asset) = "ACTIVE"
  BY <1>2, <1>3, <1>4 DEF HolderOf, StatusOf
<1>6. \A a \in AssetIds \ {asset} : HolderOf(a)' = HolderOf(a)
  BY <1>1, <1>2, <1>3, <1>4 DEF HolderOf, TokensAndIds
<1>7. \A a \in AssetIds : StatusOf(a)' = StatusOf(a)
  BY <1>4 DEF StatusOf
<1>8. ownerOf[token] \in Accounts
  BY <1>2 DEF Exists
<1>9. [a \in AssetIds |-> HolderOf(a)]' = [[a \in AssetIds |-> HolderOf(a)] EXCEPT ![asset] = to]
  BY <1>3, <1>5, <1>6
<1>10. [a \in AssetIds |-> StatusOf(a)]' = [a \in AssetIds |-> StatusOf(a)]
  BY <1>7
<1>11. Ledger!Move(asset, to)
  BY <1>3, <1>5, <1>8, <1>9, <1>10 DEF Ledger!Move, IsActive, identityVars
<1> QED
  BY <1>3, <1>11

\* A permitted status change advances the asset of its token and no other.
LEMMA StatusAdvances ==
  ASSUME BaseInv, NEW token \in TokenIds, NEW status \in Statuses,
         UNCHANGED <<paused, identityVars, ownerOf, assetIdByToken, assetIdExists, nextTokenId>>,
         Exists(token), ~paused,
         IsValidAssetStatusTransition(assetStatus[token], status),
         assetStatus' = [assetStatus EXCEPT ![token] = status]
  PROVE  \E a \in AssetIds : Ledger!Advance(a, status)
<1>1. TokensAndIds
  BY TokensAndIdsHold
<1>2. /\ assetStatus \in [TokenIds -> Statuses]
      /\ assetIdExists \subseteq AssetIds
      /\ token < nextTokenId
  BY DEF BaseInv, AssetInv, AssetTypes, AssetIdentity
<1>3. PICK asset \in AssetIds :
        asset \in assetIdExists /\ assetIdByToken[token] = asset /\ TokenOf(asset) = token
  BY <1>1, <1>2 DEF TokensAndIds
<1>4. \A a \in AssetIds : TokenOf(a)' = TokenOf(a)
  BY DEF TokenOf
<1>5. /\ HolderOf(asset) # NoAccount
      /\ StatusOf(asset) = assetStatus[token] /\ StatusOf(asset)' = status
  BY <1>2, <1>3, <1>4 DEF HolderOf, StatusOf, Exists
<1>6. \A a \in AssetIds \ {asset} : StatusOf(a)' = StatusOf(a)
  BY <1>1, <1>2, <1>3, <1>4 DEF StatusOf, TokensAndIds
<1>7. \A a \in AssetIds : HolderOf(a)' = HolderOf(a)
  BY <1>4 DEF HolderOf
<1>8. /\ status # assetStatus[token]
      /\ Ledger!Stage[status] >= Ledger!Stage[assetStatus[token]]
  BY <1>2 DEF IsValidAssetStatusTransition, Ledger!Stage, Statuses
<1>9. [a \in AssetIds |-> StatusOf(a)]' = [[a \in AssetIds |-> StatusOf(a)] EXCEPT ![asset] = status]
  BY <1>3, <1>5, <1>6
<1>10. [a \in AssetIds |-> HolderOf(a)]' = [a \in AssetIds |-> HolderOf(a)]
  BY <1>7
<1>11. Ledger!Advance(asset, status)
  BY <1>3, <1>5, <1>8, <1>9, <1>10 DEF Ledger!Advance, identityVars, IsActive
<1> QED
  BY <1>3, <1>11

\* Everything that is not an asset operation vets, opens or closes, or is
\* invisible to the ledger.
LEMMA OtherStepsMap ==
  ASSUME BaseInv, Next, UNCHANGED assetVars
  PROVE  Ledger!Vet \/ Ledger!OpenOrClose \/ UNCHANGED Ledger!ledgerVars
<1>1. \A a \in AssetIds : HolderOf(a)' = HolderOf(a) /\ StatusOf(a)' = StatusOf(a)
  BY DEF assetVars, HolderOf, StatusOf, TokenOf
<1>2. /\ [a \in AssetIds |-> HolderOf(a)]' = [a \in AssetIds |-> HolderOf(a)]
      /\ [a \in AssetIds |-> StatusOf(a)]' = [a \in AssetIds |-> StatusOf(a)]
  BY <1>1
<1>3. CASE IdentityStep
  <2>1. ~paused /\ UNCHANGED paused
    BY <1>3 DEF IdentityStep, RegisterIdentity, SetIdentityStatus, ReplaceIdentityKey,
       OffboardIdentity, MaySetIdentityStatus, AdminCall
  <2>2. {a \in Accounts : IsActive(a)}' \in SUBSET Accounts
    OBVIOUS
  <2> QED
    BY <1>2, <2>1, <2>2 DEF Ledger!Vet
<1>4. CASE EmergencyStep
  <2>1. paused' = ~paused /\ UNCHANGED identityRegistry
    BY <1>4 DEF EmergencyStep, Pause, Unpause, identityVars
  <2> QED
    BY <1>2, <2>1 DEF Ledger!OpenOrClose, IsActive
<1>5. CASE ~IdentityStep /\ ~EmergencyStep
  <2>1. UNCHANGED <<identityRegistry, paused>>
    BY <1>5 DEF Next, RoleStep, RenounceRole, GrantRole, RevokeRole, AssetStep, MintAndAllocateAsset,
       SetAssetStatus, TransferAsset, TransferFrom, SafeTransferFrom, AccessStep, RequestAccess,
       SetAccessRule, ReceiverReturns, NextBlock, identityVars
  <2> QED
    BY <1>2, <2>1 DEF Ledger!ledgerVars, IsActive
<1> QED
  BY <1>3, <1>4, <1>5

LEMMA LedgerStep ==
  InductiveInvariant /\ InductiveInvariant' /\ [Next]_vars => [Ledger!LedgerNext]_(Ledger!ledgerVars)
<1> SUFFICES ASSUME InductiveInvariant, InductiveInvariant', [Next]_vars
             PROVE  Ledger!LedgerNext \/ UNCHANGED Ledger!ledgerVars
  OBVIOUS
<1>1. BaseInv /\ BaseInv' /\ NothingPrecedesTheMint
  BY InductiveInvariantFacts, PTL
<1>2. CASE AssetStep
  <2>1. UNCHANGED <<paused, identityVars>>
    BY <1>2 DEF AssetStep, MintAndAllocateAsset, SetAssetStatus, TransferAsset, TransferFrom,
       SafeTransferFrom, identityVars
  <2>2. \/ \E a \in AssetIds, s \in Statuses : Ledger!Advance(a, s)
        \/ \E a \in AssetIds, to \in Accounts : Ledger!Move(a, to) \/ Ledger!Allocate(a, to)
    BY <1>1, <1>2, <2>1, AssetStepEffect, MintAllocates, TransferMoves, StatusAdvances
  <2>3. Statuses = DOMAIN Ledger!Stage
    BY DEF Statuses, Ledger!Stage
  <2> QED
    BY <2>2, <2>3 DEF Ledger!LedgerNext
<1>3. CASE Next /\ UNCHANGED assetVars
  BY <1>1, <1>3, OtherStepsMap DEF Ledger!LedgerNext
<1>4. CASE UNCHANGED vars
  <2>1. \A a \in AssetIds : HolderOf(a)' = HolderOf(a) /\ StatusOf(a)' = StatusOf(a)
    BY <1>4 DEF vars, HolderOf, StatusOf, TokenOf
  <2> QED
    BY <1>4, <2>1 DEF vars, Ledger!ledgerVars, IsActive
<1> QED
  BY <1>2, <1>3, <1>4, AssetFrame

\* The platform implements the abstract asset ledger: an asset id is
\* allocated once, moves between active identities only and only in service,
\* and its lifecycle runs one way, whatever the roles, pauses and callbacks.
THEOREM ImplementsLedger == Spec => LedgerRefinement
<1> QED
  BY InitLedger, LedgerStep, InductiveInvariantHolds, PTL DEF Spec, LedgerRefinement, Ledger!LedgerSpec

-----------------------------------------------------------------------------
(* The parts of the inductive invariant that the runs check by name.         *)

\* Each registered subject but the root administrator owns its own DID hash, and
\* a hash leads back to its subject, for any accounts, hashes and length of history.
THEOREM DidHashesAreOneToOne == Spec => []DidBijection
<1>1. InductiveInvariant => DidBijection
  BY DEF InductiveInvariant
<1> QED
  BY <1>1, InductiveInvariantHolds, PTL

\* Named roles are held by registered, active identities only, however roles and
\* identities are granted, withdrawn, replaced and offboarded.
THEOREM RolesNeedActiveIdentities == Spec => []CapabilityNeedsActiveIdentity
<1>1. InductiveInvariant => CapabilityNeedsActiveIdentity
  BY DEF InductiveInvariant
<1> QED
  BY <1>1, InductiveInvariantHolds, PTL

\* The root administrator is the only administrator, registered and active, for ever.
THEOREM RootIsNeverLockedOut == Spec => []RootAdminStays
<1>1. InductiveInvariant => RootAdminStays
  BY DEF InductiveInvariant
<1> QED
  BY <1>1, InductiveInvariantHolds, PTL

\* Tokens and asset ids correspond one to one, inside a receiver's callback as well.
THEOREM AssetIdsAreUnique == Spec => []AssetIdentity
<1>1. InductiveInvariant => AssetIdentity
  BY DEF InductiveInvariant
<1> QED
  BY <1>1, InductiveInvariantHolds, PTL

\* Owners are registered, and a token that was not minted has no history.
THEOREM NothingBeforeTheMint == Spec => []NothingPrecedesTheMint
<1>1. InductiveInvariant => NothingPrecedesTheMint
  BY DEF InductiveInvariant
<1> QED
  BY <1>1, InductiveInvariantHolds, PTL
-----------------------------------------------------------------------------
(* Assets whose owners were deactivated.                                    *)

\* An owner is registered for ever, and the administrator is there to call: an
\* asset stranded with a deactivated, offboarded or replaced owner has a way out.
THEOREM StrandedAssetsHaveAWayOut == Spec => []StrandedAssetsCanBeReleased
<1>1. InductiveInvariant => StrandedAssetsCanBeReleased
  <2> SUFFICES ASSUME InductiveInvariant, NEW t \in TokenIds, Exists(t), ~paused, callbacks = <<>>
               PROVE  MaySetIdentityStatus(RootAdmin, ownerOf[t], TRUE)
    BY DEF StrandedAssetsCanBeReleased
  <2>1. AdminCall(RootAdmin)
    BY DEF AdminCall, MayCall, InductiveInvariant, RootAdminStays
  <2>2. IsRegistered(ownerOf[t])
    BY DEF InductiveInvariant, NothingPrecedesTheMint
  <2> QED BY <2>1, <2>2 DEF MaySetIdentityStatus
<1> QED BY <1>1, InductiveInvariantHolds, PTL

\* And it is the way out: once the owner of an asset in service is active again,
\* nothing in _update stands against a transfer to the administrator.
ReleasedBy(caller, t) ==
  Exists(t) /\ assetStatus[t] = "ACTIVE" /\ SetIdentityStatus(caller, ownerOf[t], TRUE)
    => UpdateAllowed(t, RootAdmin)'

THEOREM ReactivationReleases ==
  Spec => [][\A t \in TokenIds, caller \in Accounts : ReleasedBy(caller, t)]_vars
<1>1. ASSUME InductiveInvariant, InductiveInvariant', NEW t \in TokenIds, NEW caller \in Accounts,
             Exists(t), assetStatus[t] = "ACTIVE", SetIdentityStatus(caller, ownerOf[t], TRUE)
      PROVE  UpdateAllowed(t, RootAdmin)'
  <2>1. ~paused' /\ UNCHANGED assetVars
    BY <1>1 DEF SetIdentityStatus, MaySetIdentityStatus, AdminCall
  <2>2. ownerOf[t] \in Accounts
    BY <1>1 DEF Exists, InductiveInvariant, TypeOK, AssetTypes
  <2>3. IsActive(ownerOf[t])'
    <3>1. identityRegistry' = [identityRegistry EXCEPT ![ownerOf[t]].isActive = TRUE]
      BY <1>1 DEF SetIdentityStatus
    <3>2. identityRegistry \in [Accounts -> Profiles]
      BY <1>1 DEF InductiveInvariant, TypeOK, IdentityTypes
    <3>3. ownerOf' = ownerOf
      BY <2>1 DEF assetVars
    <3> QED BY <2>2, <3>1, <3>2, <3>3 DEF IsActive, Profiles
  <2>4. IsActive(RootAdmin)'
    BY <1>1 DEF InductiveInvariant, RootAdminStays
  <2> QED BY <1>1, <2>1, <2>3, <2>4 DEF UpdateAllowed, assetVars, IsActive
<1>2. InductiveInvariant /\ InductiveInvariant'
        => [\A t \in TokenIds, caller \in Accounts : ReleasedBy(caller, t)]_vars
  BY <1>1 DEF ReleasedBy
<1> QED BY <1>2, InductiveInvariantHolds, PTL
=============================================================================
