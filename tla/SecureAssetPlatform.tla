---------------------------- MODULE SecureAssetPlatform ----------------------------
(***************************************************************************)
(* The Solidity contract SecureAssetPlatform: the identity registry, the    *)
(* roles, the ERC-721 asset ledger, the per-requester access rules and the   *)
(* emergency stop.                                                          *)
(*                                                                         *)
(* A step is one external call that succeeds, or one half of a call that    *)
(* hands control to a receiving contract in the middle (_safeMint and       *)
(* _safeTransfer call onERC721Received).  A call that reverts leaves no     *)
(* trace and is no step; so is a nested call whose effects are rolled back. *)
(* While a receiver runs, block time stands still and only contracts can    *)
(* call in.  Metadata hashes, offboarding reasons and zero-valued arguments *)
(* (each of which makes its call revert) are left out.                      *)
(***************************************************************************)
EXTENDS Naturals, Sequences

CONSTANTS
  Accounts,      \* non-zero addresses
  RootAdmin,     \* the constructor's rootAdmin
  Contracts,     \* the accounts that have code: they get receiver callbacks
  Dids,          \* non-zero DID hashes
  AssetIds,      \* non-zero asset identifiers
  AccessActions, \* non-zero action hashes that requestAccess may name
  OtherRoles,    \* role identifiers the contract declares no constant for
  MaxTokens,     \* token ids are 0 .. MaxTokens-1 (2^256-1 in the contract)
  MaxTime,       \* bound on block.timestamp
  MaxNesting,    \* bound on receiver callbacks within callbacks
  NoAccount, NoDid, NoAsset  \* address(0) and bytes32(0)

TokenIds == 0 .. (MaxTokens - 1)

Times == 1 .. MaxTime

AdminRole == "DEFAULT_ADMIN_ROLE"

NamedRoles == {"MANAGER_ROLE", "AUDITOR_ROLE", "USER_ROLE"}

\* Every role the immutable root administrator administers.
GrantableRoles == NamedRoles \cup OtherRoles

Roles == GrantableRoles \cup {AdminRole}

Statuses == {"ACTIVE", "SUSPENDED", "REVOKED", "RETIRED"}

ASSUME ConstantsAssumption ==
  /\ RootAdmin \in Accounts
  /\ Contracts \subseteq Accounts
  /\ NoAccount \notin Accounts
  /\ NoDid \notin Dids
  /\ NoAsset \notin AssetIds
  /\ AdminRole \notin OtherRoles
  /\ NamedRoles \cap OtherRoles = {}
  /\ MaxTokens \in Nat
  /\ MaxTime \in Nat \ {0}
  /\ MaxNesting \in Nat

VARIABLES
  identityRegistry,  \* [Accounts -> profile]
  identityByDidHash, \* [Dids -> the account that registered it]
  hasRole,           \* [Roles -> SUBSET Accounts]
  nextTokenId,
  ownerOf,           \* [TokenIds -> owner], NoAccount before the mint
  assetIdByToken,
  assetIdExists,     \* the asset ids minted so far
  assetStatus,
  accessRules,       \* [TokenIds -> [AccessActions -> [Accounts -> rule]]]
  paused,
  now,               \* block.timestamp of the running transaction
  callbacks,         \* the safe mints and transfers awaiting their receiver
  event              \* the decision or allocation this step logged

identityVars == <<identityRegistry, identityByDidHash, hasRole>>
assetVars == <<nextTokenId, ownerOf, assetIdByToken, assetIdExists, assetStatus>>
vars == <<identityRegistry, identityByDidHash, hasRole, nextTokenId, ownerOf,
          assetIdByToken, assetIdExists, assetStatus, accessRules, paused, now,
          callbacks, event>>

Profiles == [didHash: Dids \cup {NoDid}, isActive: BOOLEAN, registered: BOOLEAN]

NoProfile == [didHash |-> NoDid, isActive |-> FALSE, registered |-> FALSE]

\* expiresAt = 0 means that the rule does not expire.
Rules == [exists: BOOLEAN, allowed: BOOLEAN, expiresAt: Times \cup {0}]

NoRule == [exists |-> FALSE, allowed |-> FALSE, expiresAt |-> 0]

NoEvent == [name |-> "none"]

Events ==
  {NoEvent}
    \cup [name: {"AccessDecision"}, requester: Accounts, token: TokenIds,
          action: AccessActions, granted: BOOLEAN]
    \cup [name: {"AssetMintedAndAllocated"}, token: TokenIds, owner: Accounts,
          asset: AssetIds]

Callbacks == [kind: {"mint", "transfer"}, token: TokenIds, to: Accounts]

IdentityTypes ==
  /\ identityRegistry \in [Accounts -> Profiles]
  /\ identityByDidHash \in [Dids -> Accounts \cup {NoAccount}]
  /\ hasRole \in [Roles -> SUBSET Accounts]

AssetTypes ==
  /\ nextTokenId \in 0 .. MaxTokens
  /\ ownerOf \in [TokenIds -> Accounts \cup {NoAccount}]
  /\ assetIdByToken \in [TokenIds -> AssetIds \cup {NoAsset}]
  /\ assetIdExists \in SUBSET AssetIds
  /\ assetStatus \in [TokenIds -> Statuses]

TypeOK ==
  /\ IdentityTypes
  /\ AssetTypes
  /\ accessRules \in [TokenIds -> [AccessActions -> [Accounts -> Rules]]]
  /\ paused \in BOOLEAN
  /\ now \in Times
  /\ callbacks \in Seq(Callbacks)
  /\ event \in Events

Init ==
  /\ identityRegistry = [a \in Accounts |->
       IF a = RootAdmin THEN [didHash |-> NoDid, isActive |-> TRUE, registered |-> TRUE]
                        ELSE NoProfile]
  /\ identityByDidHash = [d \in Dids |-> NoAccount]
  /\ hasRole = [r \in Roles |-> IF r = AdminRole THEN {RootAdmin} ELSE {}]
  /\ nextTokenId = 0
  /\ ownerOf = [t \in TokenIds |-> NoAccount]
  /\ assetIdByToken = [t \in TokenIds |-> NoAsset]
  /\ assetIdExists = {}
  /\ assetStatus = [t \in TokenIds |-> "ACTIVE"]
  /\ accessRules = [t \in TokenIds |-> [x \in AccessActions |-> [a \in Accounts |-> NoRule]]]
  /\ paused = FALSE
  /\ now = 1
  /\ callbacks = <<>>
  /\ event = NoEvent

-----------------------------------------------------------------------------
(* Who is calling.  Between transactions anyone may; inside a receiver      *)
(* callback msg.sender is a contract.                                       *)

MayCall(caller) == callbacks = <<>> \/ caller \in Contracts

IsActive(a) == identityRegistry[a].isActive

IsRegistered(a) == identityRegistry[a].registered

AdminCall(caller) ==
  /\ MayCall(caller)
  /\ caller \in hasRole[AdminRole]
  /\ ~paused

ManagerCall(caller) ==
  /\ MayCall(caller)
  /\ caller \in hasRole["MANAGER_ROLE"]
  /\ IsActive(caller)
  /\ ~paused

-----------------------------------------------------------------------------
(* Identities and roles.                                                    *)

NewProfile(did) == [didHash |-> did, isActive |-> TRUE, registered |-> TRUE]

\* Faulty variant: the uniqueness check of a DID hash is forgotten.
DidIsFree_Unchecked(did) == TRUE

DidIsFree(did) == identityByDidHash[did] = NoAccount

\* Faulty variant: the root administrator is not exempted.
NotAdmin_Unchecked(a) == TRUE

NotAdmin(a) == a \notin hasRole[AdminRole]

\* Faulty variant: deactivation deletes the profile.
Deactivated_Deleted(a) == [identityRegistry EXCEPT ![a] = NoProfile]

Deactivated(a) == [identityRegistry EXCEPT ![a].isActive = FALSE]

\* Faulty variant: the auditor role survives a deactivation.
WithoutNamedRoles_KeepsAuditor(a) ==
  [r \in Roles |-> IF r \in {"MANAGER_ROLE", "USER_ROLE"} THEN hasRole[r] \ {a} ELSE hasRole[r]]

\* The roles a deactivation takes away: the three named ones.
WithoutNamedRoles(a) ==
  [r \in Roles |-> IF r \in NamedRoles THEN hasRole[r] \ {a} ELSE hasRole[r]]

RegisterIdentity(caller, subject, did) ==
  /\ AdminCall(caller)
  /\ ~IsRegistered(subject)
  /\ DidIsFree(did)
  /\ identityRegistry' = [identityRegistry EXCEPT ![subject] = NewProfile(did)]
  /\ identityByDidHash' = [identityByDidHash EXCEPT ![did] = subject]
  /\ hasRole' = [hasRole EXCEPT !["USER_ROLE"] = @ \cup {subject}]
  /\ event' = NoEvent
  /\ UNCHANGED <<assetVars, accessRules, paused, now, callbacks>>

\* Everything setIdentityStatus requires: with it, the call succeeds.
MaySetIdentityStatus(caller, subject, active) ==
  /\ AdminCall(caller)
  /\ IsRegistered(subject)
  /\ NotAdmin(subject) \/ active

SetIdentityStatus(caller, subject, active) ==
  /\ MaySetIdentityStatus(caller, subject, active)
  /\ identityRegistry' = IF active
                           THEN [identityRegistry EXCEPT ![subject].isActive = TRUE]
                           ELSE Deactivated(subject)
  /\ hasRole' = IF active
                  THEN [hasRole EXCEPT !["USER_ROLE"] = @ \cup {subject}]
                  ELSE WithoutNamedRoles(subject)
  /\ event' = NoEvent
  /\ UNCHANGED <<identityByDidHash, assetVars, accessRules, paused, now, callbacks>>

\* The new key takes over MANAGER_ROLE and AUDITOR_ROLE, and always USER_ROLE.
HandedOverRoles(old, new) ==
  [r \in Roles |->
     IF r \in NamedRoles
       THEN (hasRole[r] \ {old})
              \cup (IF r = "USER_ROLE" \/ old \in hasRole[r] THEN {new} ELSE {})
       ELSE hasRole[r]]

ReplaceIdentityKey(caller, old, new, did) ==
  /\ AdminCall(caller)
  /\ IsRegistered(old)
  /\ ~IsRegistered(new)
  /\ DidIsFree(did)
  /\ NotAdmin(old)
  /\ identityRegistry' = [Deactivated(old) EXCEPT ![new] = NewProfile(did)]
  /\ identityByDidHash' = [identityByDidHash EXCEPT ![did] = new]
  /\ hasRole' = HandedOverRoles(old, new)
  /\ event' = NoEvent
  /\ UNCHANGED <<assetVars, accessRules, paused, now, callbacks>>

OffboardIdentity(caller, subject) ==
  /\ AdminCall(caller)
  /\ IsRegistered(subject)
  /\ NotAdmin(subject)
  /\ identityRegistry' = Deactivated(subject)
  /\ hasRole' = WithoutNamedRoles(subject)
  /\ event' = NoEvent
  /\ UNCHANGED <<identityByDidHash, assetVars, accessRules, paused, now, callbacks>>

\* Anyone gives up a role of their own; holding it is not required.
RenounceRole(caller, role) ==
  /\ MayCall(caller)
  /\ ~paused
  /\ role # AdminRole
  /\ hasRole' = [hasRole EXCEPT ![role] = @ \ {caller}]
  /\ event' = NoEvent
  /\ UNCHANGED <<identityRegistry, identityByDidHash, assetVars, accessRules, paused, now, callbacks>>

GrantRole(caller, role, account) ==
  /\ AdminCall(caller)
  /\ role # AdminRole
  /\ IsRegistered(account)
  /\ IsActive(account)
  /\ hasRole' = [hasRole EXCEPT ![role] = @ \cup {account}]
  /\ event' = NoEvent
  /\ UNCHANGED <<identityRegistry, identityByDidHash, assetVars, accessRules, paused, now, callbacks>>

RevokeRole(caller, role, account) ==
  /\ AdminCall(caller)
  /\ role # AdminRole
  /\ hasRole' = [hasRole EXCEPT ![role] = @ \ {account}]
  /\ event' = NoEvent
  /\ UNCHANGED <<identityRegistry, identityByDidHash, assetVars, accessRules, paused, now, callbacks>>

-----------------------------------------------------------------------------
(* Assets.                                                                  *)

Exists(token) == ownerOf[token] # NoAccount

\* Faulty variant: only the receiving end of a move must be active.
UpdateAllowed_RecipientOnly(token, to) ==
  /\ ~paused
  /\ Exists(token) => assetStatus[token] = "ACTIVE"
  /\ IsActive(to)

\* _update's own checks, made on every path that changes an owner.
UpdateAllowed(token, to) ==
  /\ ~paused
  /\ Exists(token) => IsActive(ownerOf[token]) /\ assetStatus[token] = "ACTIVE"
  /\ IsActive(to)

\* A safe mint or transfer to a contract suspends until the receiver returns.
AwaitReceiver(kind, token, to) ==
  /\ Len(callbacks) < MaxNesting
  /\ callbacks' = Append(callbacks, [kind |-> kind, token |-> token, to |-> to])
  /\ event' = NoEvent

Allocation(token, to, asset) ==
  [name |-> "AssetMintedAndAllocated", token |-> token, owner |-> to, asset |-> asset]

\* Faulty variant: an asset id counts as minted once its receiver returned.
NeverMinted_BeforeCallback(asset) ==
  \A t \in TokenIds :
    assetIdByToken[t] = asset => \E i \in 1 .. Len(callbacks) : callbacks[i].token = t

NeverMinted(asset) == asset \notin assetIdExists

\* An asset id that was never minted becomes the next token.  The allocation
\* event follows the receiver's callback, when there is one.
MintAndAllocateAsset(caller, recipient, asset) ==
  /\ ManagerCall(caller)
  /\ IsActive(recipient)
  /\ NeverMinted(asset)
  /\ nextTokenId < MaxTokens
  /\ UpdateAllowed(nextTokenId, recipient)
  /\ ~Exists(nextTokenId)
  /\ assetIdExists' = assetIdExists \cup {asset}
  /\ nextTokenId' = nextTokenId + 1
  /\ assetIdByToken' = [assetIdByToken EXCEPT ![nextTokenId] = asset]
  /\ ownerOf' = [ownerOf EXCEPT ![nextTokenId] = recipient]
  /\ \/ /\ recipient \notin Contracts
        /\ event' = Allocation(nextTokenId, recipient, asset)
        /\ UNCHANGED callbacks
     \/ /\ recipient \in Contracts
        /\ AwaitReceiver("mint", nextTokenId, recipient)
  /\ UNCHANGED <<identityVars, assetStatus, accessRules, paused, now>>

\* Faulty variant: a revoked asset can be put back in service.
IsValidAssetStatusTransition_Reinstates(current, next) ==
  current # "RETIRED" /\ next # current

IsValidAssetStatusTransition(current, next) ==
  \/ current = "ACTIVE" /\ next \in {"SUSPENDED", "REVOKED", "RETIRED"}
  \/ current = "SUSPENDED" /\ next \in {"ACTIVE", "REVOKED", "RETIRED"}
  \/ current = "REVOKED" /\ next = "RETIRED"

SetAssetStatus(caller, token, status) ==
  /\ ManagerCall(caller)
  /\ Exists(token)
  /\ IsValidAssetStatusTransition(assetStatus[token], status)
  /\ assetStatus' = [assetStatus EXCEPT ![token] = status]
  /\ event' = NoEvent
  /\ UNCHANGED <<identityVars, nextTokenId, ownerOf, assetIdByToken, assetIdExists,
                 accessRules, paused, now, callbacks>>

\* ERC721._transfer: the token moves if `from` is its owner.
MoveToken(from, to, token) ==
  /\ UpdateAllowed(token, to)
  /\ ownerOf[token] = from
  /\ ownerOf' = [ownerOf EXCEPT ![token] = to]

TransferAsset(caller, from, to, token) ==
  /\ ManagerCall(caller)
  /\ IsActive(to)
  /\ Exists(token)
  /\ assetStatus[token] = "ACTIVE"
  /\ MoveToken(from, to, token)
  /\ event' = NoEvent
  /\ UNCHANGED <<identityVars, nextTokenId, assetIdByToken, assetIdExists, assetStatus,
                 accessRules, paused, now, callbacks>>

TransferFrom(caller, from, to, token) ==
  /\ ManagerCall(caller)
  /\ Exists(token)
  /\ assetStatus[token] = "ACTIVE"
  /\ MoveToken(from, to, token)
  /\ event' = NoEvent
  /\ UNCHANGED <<identityVars, nextTokenId, assetIdByToken, assetIdExists, assetStatus,
                 accessRules, paused, now, callbacks>>

SafeTransferFrom(caller, from, to, token) ==
  /\ ManagerCall(caller)
  /\ Exists(token)
  /\ assetStatus[token] = "ACTIVE"
  /\ MoveToken(from, to, token)
  /\ \/ to \notin Contracts /\ event' = NoEvent /\ UNCHANGED callbacks
     \/ to \in Contracts /\ AwaitReceiver("transfer", token, to)
  /\ UNCHANGED <<identityVars, nextTokenId, assetIdByToken, assetIdExists, assetStatus,
                 accessRules, paused, now>>

\* Faulty variant: the log reads the token counter again after the callback.
AfterReceiver_ReadsCounter(call) ==
  IF call.kind = "mint"
    THEN Allocation(call.token, call.to, assetIdByToken[nextTokenId % MaxTokens])
    ELSE NoEvent

\* What a call logs once its receiver has returned.
AfterReceiver(call) ==
  IF call.kind = "mint"
    THEN Allocation(call.token, call.to, assetIdByToken[call.token])
    ELSE NoEvent

\* Faulty variant: the owner is written again once the receiver has returned.
ReceiverReturns_WritesOwner ==
  /\ callbacks # <<>>
  /\ LET call == callbacks[Len(callbacks)]
     IN  /\ event' = AfterReceiver(call)
         /\ ownerOf' = [ownerOf EXCEPT ![call.token] = call.to]
  /\ callbacks' = SubSeq(callbacks, 1, Len(callbacks) - 1)
  /\ UNCHANGED <<identityVars, nextTokenId, assetIdByToken, assetIdExists, assetStatus,
                 accessRules, paused, now>>

\* The innermost receiver accepts: a mint still logs its allocation.
ReceiverReturns ==
  /\ callbacks # <<>>
  /\ event' = AfterReceiver(callbacks[Len(callbacks)])
  /\ callbacks' = SubSeq(callbacks, 1, Len(callbacks) - 1)
  /\ UNCHANGED <<identityVars, assetVars, accessRules, paused, now>>

-----------------------------------------------------------------------------
(* Access rules and decisions.                                              *)

SetAccessRule(caller, token, requester, action, allowed, expiresAt) ==
  /\ ManagerCall(caller)
  /\ Exists(token)
  /\ IsRegistered(requester)
  /\ IsActive(requester)
  /\ expiresAt = 0 \/ expiresAt >= now
  /\ accessRules' = [accessRules EXCEPT ![token][action][requester] =
                       [exists |-> TRUE, allowed |-> allowed, expiresAt |-> expiresAt]]
  /\ event' = NoEvent
  /\ UNCHANGED <<identityVars, assetVars, paused, now, callbacks>>

\* Faulty variant: an expired rule gives way to the default policy.
Granted_ExpiredFallsBack(token, requester, action) ==
  LET rule == accessRules[token][action][requester]
      live == rule.exists /\ (rule.expiresAt = 0 \/ rule.expiresAt >= now)
  IN  /\ Exists(token)
      /\ assetStatus[token] = "ACTIVE"
      /\ IF live THEN rule.allowed
                 ELSE \/ ownerOf[token] = requester
                      \/ requester \in hasRole["MANAGER_ROLE"]
                      \/ requester \in hasRole["AUDITOR_ROLE"]

\* A rule decides alone, also after it expired; without one, owners,
\* managers and auditors are let in.
Granted(token, requester, action) ==
  LET rule == accessRules[token][action][requester]
  IN  /\ Exists(token)
      /\ assetStatus[token] = "ACTIVE"
      /\ \/ /\ rule.exists
            /\ rule.allowed
            /\ rule.expiresAt = 0 \/ rule.expiresAt >= now
         \/ /\ ~rule.exists
            /\ \/ ownerOf[token] = requester
               \/ requester \in hasRole["MANAGER_ROLE"]
               \/ requester \in hasRole["AUDITOR_ROLE"]

RequestAccess(caller, token, action) ==
  /\ MayCall(caller)
  /\ IsActive(caller)
  /\ ~paused
  /\ event' = [name |-> "AccessDecision", requester |-> caller, token |-> token,
               action |-> action, granted |-> Granted(token, caller, action)]
  /\ UNCHANGED <<identityVars, assetVars, accessRules, paused, now, callbacks>>

-----------------------------------------------------------------------------
(* The emergency stop, and time.                                            *)

Pause(caller) ==
  /\ MayCall(caller)
  /\ caller \in hasRole[AdminRole]
  /\ IsActive(caller)
  /\ ~paused
  /\ paused' = TRUE
  /\ event' = NoEvent
  /\ UNCHANGED <<identityVars, assetVars, accessRules, now, callbacks>>

Unpause(caller) ==
  /\ MayCall(caller)
  /\ caller \in hasRole[AdminRole]
  /\ IsActive(caller)
  /\ paused
  /\ paused' = FALSE
  /\ event' = NoEvent
  /\ UNCHANGED <<identityVars, assetVars, accessRules, now, callbacks>>

\* Block time passes between transactions only.
NextBlock ==
  /\ callbacks = <<>>
  /\ now < MaxTime
  /\ now' = now + 1
  /\ event' = NoEvent
  /\ UNCHANGED <<identityVars, assetVars, accessRules, paused, callbacks>>

IdentityStep ==
  \E caller, subject \in Accounts :
    \/ \E did \in Dids : RegisterIdentity(caller, subject, did)
    \/ \E active \in BOOLEAN : SetIdentityStatus(caller, subject, active)
    \/ \E new \in Accounts, did \in Dids : ReplaceIdentityKey(caller, subject, new, did)
    \/ OffboardIdentity(caller, subject)

RoleStep ==
  \E caller \in Accounts, role \in Roles :
    \/ RenounceRole(caller, role)
    \/ \E account \in Accounts : GrantRole(caller, role, account)
    \/ \E account \in Accounts : RevokeRole(caller, role, account)

AssetStep ==
  \E caller \in Accounts :
    \/ \E recipient \in Accounts, asset \in AssetIds :
         MintAndAllocateAsset(caller, recipient, asset)
    \/ \E token \in TokenIds, status \in Statuses : SetAssetStatus(caller, token, status)
    \/ \E from, to \in Accounts, token \in TokenIds :
         \/ TransferAsset(caller, from, to, token)
         \/ TransferFrom(caller, from, to, token)
         \/ SafeTransferFrom(caller, from, to, token)

AccessStep ==
  \E caller \in Accounts, token \in TokenIds, action \in AccessActions :
    \/ RequestAccess(caller, token, action)
    \/ \E requester \in Accounts, allowed \in BOOLEAN, expiresAt \in Times \cup {0} :
         SetAccessRule(caller, token, requester, action, allowed, expiresAt)

EmergencyStep == \E caller \in Accounts : Pause(caller) \/ Unpause(caller)

Next ==
  \/ IdentityStep
  \/ RoleStep
  \/ AssetStep
  \/ AccessStep
  \/ EmergencyStep
  \/ ReceiverReturns
  \/ NextBlock

Spec == Init /\ [][Next]_vars

-----------------------------------------------------------------------------
(* Properties.                                                              *)

\* THREAT-MODEL.md: a DID hash commits to one subject.  Every registered
\* subject but the root administrator owns its own DID hash, and the reverse
\* lookup of a hash leads to the subject whose profile carries it, whatever
\* sequence of registrations, replacements and offboardings came before.
DidBijection ==
  /\ \A a \in Accounts : IsRegistered(a) /\ a # RootAdmin =>
       /\ identityRegistry[a].didHash \in Dids
       /\ identityByDidHash[identityRegistry[a].didHash] = a
  /\ \A d \in Dids : identityByDidHash[d] # NoAccount =>
       /\ IsRegistered(identityByDidHash[d])
       /\ identityRegistry[identityByDidHash[d]].didHash = d

\* ADR 0003: a named role is held by registered, active identities only, so
\* deactivating, offboarding or replacing a key leaves no capability behind.
\* (It says "non-root roles"; a role the contract has no constant for, which
\* grantRole accepts and no check reads, does survive its holder.)
CapabilityNeedsActiveIdentity ==
  \A r \in NamedRoles : \A a \in hasRole[r] : IsActive(a) /\ IsRegistered(a)

\* The root administrator is the only administrator and stays active: no
\* sequence of calls locks the contract or hands it over.
RootAdminStays ==
  /\ hasRole[AdminRole] = {RootAdmin}
  /\ IsActive(RootAdmin)
  /\ IsRegistered(RootAdmin)

\* Tokens are minted in order and never burned, each carries an asset id of
\* its own, and the ids marked as existing are exactly the minted ones; this
\* holds inside a receiver's callback as well.
AssetIdentity ==
  /\ \A t \in TokenIds :
       /\ Exists(t) <=> t < nextTokenId
       /\ assetIdByToken[t] # NoAsset <=> t < nextTokenId
  /\ \A t, u \in TokenIds :
       t < nextTokenId /\ u < nextTokenId /\ assetIdByToken[t] = assetIdByToken[u] => t = u
  /\ assetIdExists = {assetIdByToken[t] : t \in {u \in TokenIds : u < nextTokenId}}

\* An active identity has been registered.
ActiveIsRegistered == \A a \in Accounts : IsActive(a) => IsRegistered(a)

\* Only identities the administrator once registered own assets, and an
\* unminted token has neither a lifecycle nor rules a later owner inherits.
NothingPrecedesTheMint ==
  \A t \in TokenIds :
    /\ Exists(t) => IsRegistered(ownerOf[t])
    /\ ~Exists(t) => /\ assetStatus[t] = "ACTIVE"
                     /\ \A x \in AccessActions, a \in Accounts : accessRules[t][x][a] = NoRule

\* The tokens whose receivers are still running have been minted, so what
\* the mint logs after the callback is there to be read.
PendingTokensExist ==
  \A i \in 1 .. Len(callbacks) : callbacks[i].token < nextTokenId

\* The inductive invariant: together these survive every step.
InductiveInvariant ==
  /\ TypeOK
  /\ DidBijection
  /\ ActiveIsRegistered
  /\ CapabilityNeedsActiveIdentity
  /\ RootAdminStays
  /\ AssetIdentity
  /\ NothingPrecedesTheMint
  /\ PendingTokensExist

\* An asset whose owner was deactivated, offboarded or replaced cannot move,
\* but it is never lost: the administrator can reactivate that owner.
StrandedAssetsCanBeReleased ==
  \A t \in TokenIds :
    Exists(t) /\ ~IsActive(ownerOf[t]) /\ ~paused /\ callbacks = <<>>
      => MaySetIdentityStatus(RootAdmin, ownerOf[t], TRUE)

\* A DID hash is spent once and for all: neither offboarding nor a key
\* replacement frees it or moves it to another subject, and a registered
\* subject keeps the hash it registered with.
DidBindingsArePermanent ==
  [][/\ \A d \in Dids : identityByDidHash[d] # NoAccount
                           => identityByDidHash'[d] = identityByDidHash[d]
     /\ \A a \in Accounts : IsRegistered(a)
          => /\ identityRegistry'[a].registered
             /\ identityRegistry'[a].didHash = identityRegistry[a].didHash]_vars

\* AC-13: between pausing and unpausing nothing but the stop itself changes,
\* not even by what is left of a mint or a transfer whose receiver was running
\* when the pause came, or by the calls that receiver still makes.
PauseFreezesState ==
  [][paused /\ paused' => UNCHANGED <<identityVars, assetVars, accessRules>>]_vars

\* A revoked asset is never in service again and never changes hands, and a
\* retired one is final: no path of calls, nested ones included, leads back.
WithdrawalIsFinal ==
  [][\A t \in TokenIds : assetStatus[t] \in {"REVOKED", "RETIRED"} =>
       /\ ownerOf'[t] = ownerOf[t]
       /\ assetStatus'[t] \in {assetStatus[t], "RETIRED"}]_vars

\* AC-07: a grant is logged only for an active identity that acts outside a
\* stop, on an asset in service, and never against an explicit denial or a
\* rule that has expired by the block's time.
GrantsFollowPolicy ==
  [][event'.name = "AccessDecision" /\ event'.granted =>
       LET r == event'.requester
           t == event'.token
           rule == accessRules[t][event'.action][r]
       IN  /\ IsActive(r) /\ ~paused
           /\ Exists(t) /\ assetStatus[t] = "ACTIVE"
           /\ rule.exists => rule.allowed /\ (rule.expiresAt # 0 => now <= rule.expiresAt)
           /\ ~rule.exists => \/ ownerOf[t] = r
                              \/ r \in hasRole["MANAGER_ROLE"] \cup hasRole["AUDITOR_ROLE"]]_vars

\* The platform implements AssetLedger: an asset's holder and status are
\* those of the one token that carries its identifier.
TokenOf(asset) == CHOOSE t \in TokenIds : assetIdByToken[t] = asset

HolderOf(asset) == IF asset \in assetIdExists THEN ownerOf[TokenOf(asset)] ELSE NoAccount

StatusOf(asset) == IF asset \in assetIdExists THEN assetStatus[TokenOf(asset)] ELSE "ACTIVE"

Ledger == INSTANCE AssetLedger WITH
  holder <- [a \in AssetIds |-> HolderOf(a)],
  lifecycle <- [a \in AssetIds |-> StatusOf(a)],
  vetted <- {a \in Accounts : IsActive(a)},
  open <- ~paused

LedgerRefinement == Ledger!LedgerSpec
=============================================================================
