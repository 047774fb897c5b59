------------------------------ MODULE OpenBanking ------------------------------
(***************************************************************************)
(* The Open Banking contracts together: the three registries and             *)
(* AccessControlManager, which reads all of them in one transaction.          *)
(* Each external call is one step of one registry.  isAccessAllowed and       *)
(* checkAccessAllowedView change no state: they are the operator             *)
(* AccessAllowed.  AuditRegistry is called by none of them.                  *)
(***************************************************************************)
EXTENDS IdentityRegistry, OrganizationRegistry, ConsentManager

ASSUME OpenBankingAssumption ==
  Users \subseteq Wallets /\ Banks \subseteq Orgs /\ Providers \subseteq Orgs

vars == <<identities, didOwners, organizations, now, consents, newest>>

AccessAllowed(t) == /\ IsIdentityActive(t.user)
                    /\ IsOrganizationApproved(t.bank)
                    /\ IsOrganizationApproved(t.tsp)
                    /\ CheckConsent(t)

Init == IdentityInit /\ OrganizationInit /\ ConsentInit

IdentityStep == IdentityNext /\ UNCHANGED <<organizations, now, consents, newest>>

OrganizationStep == OrganizationNext /\ UNCHANGED <<identities, didOwners, now, consents, newest>>

ConsentStep == ConsentNext /\ UNCHANGED <<identities, didOwners, organizations>>

Next == IdentityStep \/ OrganizationStep \/ ConsentStep

Spec == Init /\ [][Next]_vars
-----------------------------------------------------------------------------
(***************************************************************************)
(* Properties.                                                             *)
(***************************************************************************)
TypeOK == IdentityTypeOK /\ OrganizationTypeOK /\ ConsentTypeOK

\* didOwners and the DIDs in identities are inverse to each other, over every
\* sequence of registrations and moves to other wallets: one DID has one wallet
\* and no wallet is left with a DID that has moved on.
DidsAreOwned ==
  /\ \A d \in DOMAIN didOwners : /\ didOwners[d] \in DOMAIN identities
                                 /\ identities[didOwners[d]].did = d
  /\ \A w \in DOMAIN identities : /\ identities[w].did \in DOMAIN didOwners
                                  /\ didOwners[identities[w].did] = w

\* activeTupleConsentId points to the last consent the user gave for the tuple,
\* which is not revoked; a tuple without a pointer had its last consent revoked,
\* or has none.  (checkConsent relies on it; revokeConsent deletes the pointer
\* only when it is to the revoked consent.)
NewestIsLast ==
  \A t \in Tuples :
    LET ids == {i \in DOMAIN consents[t.user] : consents[t.user][i].tuple = t}
    IN  IF t \in DOMAIN newest
        THEN /\ newest[t][1] = t.user
             /\ newest[t][2] \in ids
             /\ \A i \in ids : i <= newest[t][2]
             /\ ConsentOf(newest[t]).active
        ELSE \A i \in ids : (\A j \in ids : j <= i) => ~ consents[t.user][i].active

\* Every consent of a user is filed under that user, for a period that was
\* still to come.
ConsentsAreFiled ==
  \A u \in Users : \A i \in DOMAIN consents[u] :
    consents[u][i].tuple.user = u /\ consents[u][i].expiresAt > 0

\* The inductive invariant of the three registries.
OpenBankingInv == TypeOK /\ DidsAreOwned /\ NewestIsLast /\ ConsentsAreFiled

\* The DIDs whose identity is revoked.
RevokedDids == {d \in DOMAIN didOwners : identities[didOwners[d]].status = "REVOKED"}

\* A revoked DID stays revoked on whatever wallet it is moved to, and a revoked
\* organization stays revoked: no sequence of calls gives either access again.
RevocationIsFinal ==
  [][/\ RevokedDids \subseteq RevokedDids'
     /\ \A o \in DOMAIN organizations :
          organizations[o].status = "REVOKED" => organizations'[o].status = "REVOKED"]_vars

\* At most one wallet of a DID has access, and none of a revoked DID: a move to
\* another wallet takes the access along with the identity.
AccessIsPerDid ==
  \A s, t \in Tuples :
    AccessAllowed(s) /\ AccessAllowed(t) =>
      /\ identities[t.user].did \notin RevokedDids
      /\ identities[s.user].did = identities[t.user].did => s.user = t.user

\* The last consent the user gave for a tuple, 0 if there is none.
LastConsent(t) ==
  LET ids == {i \in DOMAIN consents[t.user] : consents[t.user][i].tuple = t}
  IN  IF ids = {} THEN 0 ELSE CHOOSE i \in ids : \A j \in ids : j <= i

\* This step added a consent of the tuple.
IsGranted(t) ==
  LET list == consents'[t.user]
  IN  Len(list) > Len(consents[t.user]) /\ list[Len(list)].tuple = t

\* Only a grant turns the answer of checkConsent to yes: neither a revocation nor
\* the passing of time lets an older consent through again.  And it turns to no
\* only when the last consent of the tuple is revoked or expires: revoking an
\* older one, which shares the pointer of the tuple, costs the user nothing.
CheckFollowsDecisions ==
  [][\A t \in Tuples :
       /\ CheckConsent(t)' /\ ~CheckConsent(t) => IsGranted(t)
       /\ CheckConsent(t) /\ ~CheckConsent(t)' =>
            LET last == consents'[t.user][LastConsent(t)]
            IN  ~last.active \/ ~(now' <= last.expiresAt)]_vars

\* ConsentManager.sol:108: checkConsent validates whether an active, non-expired
\* consent exists for the tuple.
CheckFindsEveryConsent ==
  \A t \in Tuples :
    CheckConsent(t) <=>
      \E i \in DOMAIN consents[t.user] :
        LET c == consents[t.user][i] IN c.tuple = t /\ c.active /\ Unexpired(c)
=============================================================================
