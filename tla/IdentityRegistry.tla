--------------------------- MODULE IdentityRegistry ---------------------------
(***************************************************************************)
(* IdentityRegistry.sol: one DID per wallet, verified and revoked by role    *)
(* holders, moved to another wallet by an administrator.  One action per     *)
(* external function; a call that reverts is no step.  Who holds the roles,  *)
(* the hash of the personal data and the timestamps are left out: a wallet   *)
(* is registered when it is in the domain of identities.                    *)
(***************************************************************************)
CONSTANTS Wallets, Dids

VARIABLES
  identities,  \* function from the registered wallets to [did, status]
  didOwners    \* function from the DIDs in use to wallets

identityVars == <<identities, didOwners>>

\* VERIFIED and SUSPENDED are declared in the code and never assigned.
IdentityStatuses == {"PENDING", "ACTIVE", "REVOKED"}

Identities == [did: Dids, status: IdentityStatuses]

IdentityTypeOK ==
  /\ DOMAIN identities \subseteq Wallets
  /\ identities \in [DOMAIN identities -> Identities]
  /\ DOMAIN didOwners \subseteq Dids
  /\ didOwners \in [DOMAIN didOwners -> Wallets]

IdentityInit == /\ identities = [w \in {} |-> w]
                /\ didOwners = [d \in {} |-> d]

\* Function f with k set to v, and function f without k.
Put(f, k, v) == [j \in DOMAIN f \cup {k} |-> IF j = k THEN v ELSE f[j]]

Drop(f, k) == [j \in DOMAIN f \ {k} |-> f[j]]

IsIdentityActive(w) == w \in DOMAIN identities /\ identities[w].status = "ACTIVE"

RegisterIdentity(w, d) ==
  /\ w \notin DOMAIN identities
  /\ d \notin DOMAIN didOwners
  /\ identities' = Put(identities, w, [did |-> d, status |-> "PENDING"])
  /\ didOwners' = Put(didOwners, d, w)

\* Verification of an active identity again only renews its timestamp.
VerifyIdentity(w) ==
  /\ w \in DOMAIN identities
  /\ identities[w].status # "REVOKED"
  /\ identities' = [identities EXCEPT ![w].status = "ACTIVE"]
  /\ UNCHANGED didOwners

RevokeIdentity(w) ==
  /\ w \in DOMAIN identities
  /\ identities[w].status # "REVOKED"
  /\ identities' = [identities EXCEPT ![w].status = "REVOKED"]
  /\ UNCHANGED didOwners

\* Faulty variant: the DID stays registered to the old wallet.
RebindWallet_KeepsOwner(old, new) ==
  /\ old \in DOMAIN identities
  /\ new \notin DOMAIN identities
  /\ identities' = Drop(Put(identities, new, identities[old]), old)
  /\ UNCHANGED didOwners

\* Faulty variant: the old wallet keeps its record.
RebindWallet_Copies(old, new) ==
  /\ old \in DOMAIN identities
  /\ new \notin DOMAIN identities
  /\ identities' = Put(identities, new, identities[old])
  /\ didOwners' = [didOwners EXCEPT ![identities[old].did] = new]

\* Faulty variant: the moved record starts over as pending.
RebindWallet_Resets(old, new) ==
  /\ old \in DOMAIN identities
  /\ new \notin DOMAIN identities
  /\ identities' = Drop(Put(identities, new, [identities[old] EXCEPT !.status = "PENDING"]), old)
  /\ didOwners' = [didOwners EXCEPT ![identities[old].did] = new]

\* The record moves with its status, and the old wallet is free again.
RebindWallet(old, new) ==
  /\ old \in DOMAIN identities
  /\ new \notin DOMAIN identities
  /\ identities' = Drop(Put(identities, new, identities[old]), old)
  /\ didOwners' = [didOwners EXCEPT ![identities[old].did] = new]

IdentityNext ==
  \E w \in Wallets :
    \/ \E d \in Dids : RegisterIdentity(w, d)
    \/ VerifyIdentity(w)
    \/ RevokeIdentity(w)
    \/ \E new \in Wallets : RebindWallet(w, new)
=============================================================================
