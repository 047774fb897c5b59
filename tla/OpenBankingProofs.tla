--------------------------- MODULE OpenBankingProofs ---------------------------
(***************************************************************************)
(* Proofs about OpenBanking, for any sets of wallets, DIDs, organizations,   *)
(* users and data types and any number of consents.                         *)
(***************************************************************************)
EXTENDS OpenBanking, SequenceTheorems, TLAPS

IdentityInv == IdentityTypeOK /\ DidsAreOwned

ConsentInv == ConsentTypeOK /\ NewestIsLast /\ ConsentsAreFiled

\* The registries start empty, in states that satisfy the invariant.
LEMMA InitInv == Init => OpenBankingInv
<1> SUFFICES ASSUME Init PROVE OpenBankingInv
  OBVIOUS
<1>1. IdentityInv
  BY DEF Init, IdentityInit, IdentityInv, IdentityTypeOK, DidsAreOwned
<1>2. OrganizationTypeOK
  BY DEF Init, OrganizationInit, OrganizationTypeOK
<1>3. ConsentTypeOK
  BY ConsentAssumption DEF Init, ConsentInit, ConsentTypeOK
<1>4. \A t \in Tuples : t.user \in Users
  BY DEF Tuples
<1>5. NewestIsLast /\ ConsentsAreFiled
  BY <1>4 DEF Init, ConsentInit, NewestIsLast, ConsentsAreFiled
<1> QED BY <1>1, <1>2, <1>3, <1>5 DEF OpenBankingInv, TypeOK, IdentityInv

\* Registration: the wallet and the DID are both new.
LEMMA RegisterIdentityStep ==
  ASSUME IdentityInv, NEW w \in Wallets, NEW d \in Dids, RegisterIdentity(w, d)
  PROVE  IdentityInv'
BY DEF IdentityInv, IdentityTypeOK, DidsAreOwned, RegisterIdentity, Put, Identities, IdentityStatuses

\* Verification and revocation change one status.
LEMMA StatusStep ==
  ASSUME IdentityInv, NEW w \in Wallets, VerifyIdentity(w) \/ RevokeIdentity(w)
  PROVE  IdentityInv'
<1>1. PICK s \in IdentityStatuses : /\ identities' = [identities EXCEPT ![w].status = s]
                                    /\ w \in DOMAIN identities /\ UNCHANGED didOwners
  BY DEF VerifyIdentity, RevokeIdentity, IdentityStatuses
<1>2. /\ DOMAIN identities' = DOMAIN identities
      /\ \A v \in DOMAIN identities : identities'[v].did = identities[v].did
      /\ \A v \in DOMAIN identities : identities'[v] \in Identities
  BY <1>1 DEF IdentityInv, IdentityTypeOK, Identities
<1> QED BY <1>1, <1>2 DEF IdentityInv, IdentityTypeOK, DidsAreOwned

\* What a move to another wallet leaves.
LEMMA RebindStep ==
  ASSUME IdentityInv, NEW old \in Wallets, NEW new \in Wallets, RebindWallet(old, new)
  PROVE  /\ IdentityInv'
         /\ DOMAIN didOwners' = DOMAIN didOwners
         /\ \A d \in DOMAIN didOwners : identities'[didOwners'[d]] = identities[didOwners[d]]
<1> DEFINE did == identities[old].did
<1>1. /\ old \in DOMAIN identities /\ new \notin DOMAIN identities /\ old # new
      /\ did \in DOMAIN didOwners /\ didOwners[did] = old
  BY DEF RebindWallet, IdentityInv, DidsAreOwned
<1>2. /\ DOMAIN identities' = (DOMAIN identities \cup {new}) \ {old}
      /\ identities'[new] = identities[old]
      /\ \A w \in DOMAIN identities \ {old} : identities'[w] = identities[w]
  BY <1>1 DEF RebindWallet, Put, Drop
<1>3. identities' \in [DOMAIN identities' -> Identities]
  BY <1>1, <1>2 DEF RebindWallet, Put, Drop, IdentityInv, IdentityTypeOK
<1>4. /\ DOMAIN didOwners' = DOMAIN didOwners /\ didOwners'[did] = new
      /\ \A d \in DOMAIN didOwners : d # did => didOwners'[d] = didOwners[d]
      /\ didOwners' \in [DOMAIN didOwners' -> Wallets]
  BY <1>1 DEF RebindWallet, IdentityInv, IdentityTypeOK
<1>5. \A d \in DOMAIN didOwners : identities'[didOwners'[d]] = identities[didOwners[d]]
  BY <1>1, <1>2, <1>4 DEF IdentityInv, DidsAreOwned
<1>6. DidsAreOwned'
  BY <1>1, <1>2, <1>4 DEF IdentityInv, DidsAreOwned
<1> QED BY <1>1, <1>2, <1>3, <1>4, <1>5, <1>6 DEF IdentityInv, IdentityTypeOK

\* Every call of the identity registry keeps its part of the invariant.
LEMMA IdentityNextInv == IdentityInv /\ IdentityNext => IdentityInv'
BY RegisterIdentityStep, StatusStep, RebindStep DEF IdentityNext

\* Every call of the organization registry keeps its type.
LEMMA OrganizationNextInv == OrganizationTypeOK /\ OrganizationNext => OrganizationTypeOK'
<1> SUFFICES ASSUME OrganizationTypeOK, OrganizationNext PROVE OrganizationTypeOK'
  OBVIOUS
<1>1. ASSUME NEW o \in Orgs, NEW role \in OrgRoles, RegisterOrganization(o, role)
      PROVE  OrganizationTypeOK'
  BY <1>1 DEF RegisterOrganization, OrganizationTypeOK, OrgStatuses
<1>2. ASSUME NEW o \in Orgs, NEW from, NEW s \in OrgStatuses, ChangeStatus(o, from, s)
      PROVE  OrganizationTypeOK'
  BY <1>2 DEF ChangeStatus, OrganizationTypeOK
<1> QED BY <1>1, <1>2 DEF OrganizationNext, ApproveOrganization, SuspendOrganization,
                          RevokeOrganization, OrgStatuses

\* The positions of a tuple's consents in its user's list.
IdsOf(t) == {i \in DOMAIN consents[t.user] : consents[t.user][i].tuple = t}

\* NewestIsLast for one tuple.
Last(t) ==
  IF t \in DOMAIN newest
  THEN /\ newest[t][1] = t.user
       /\ newest[t][2] \in IdsOf(t)
       /\ \A i \in IdsOf(t) : i <= newest[t][2]
       /\ consents[t.user][newest[t][2]].active
  ELSE \A i \in IdsOf(t) : (\A j \in IdsOf(t) : j <= i) => ~ consents[t.user][i].active

LEMMA LastByTuple == NewestIsLast <=> \A t \in Tuples : Last(t)
BY DEF NewestIsLast, Last, IdsOf, ConsentOf

\* A grant: the new consent is the last of its tuple, and the other tuples keep
\* theirs.
LEMMA GrantStep ==
  ASSUME ConsentInv, NEW t \in Tuples, NEW duration \in Durations, GrantConsent(t, duration)
  PROVE  ConsentInv'
<1> DEFINE u == t.user
           n == Len(consents[u]) + 1
           c == [tuple |-> t, expiresAt |-> now + duration, active |-> TRUE]
<1>1. /\ u \in Users /\ consents[u] \in Seq(ConsentRecords) /\ now \in 1 .. MaxTime
      /\ now \in Nat /\ duration \in Nat /\ duration > 0 /\ MaxTime \in Nat
  BY ConsentAssumption DEF ConsentInv, ConsentTypeOK, Tuples
<1>2. c \in ConsentRecords /\ c.expiresAt > 0 /\ c.tuple = t /\ c.active
  BY <1>1 DEF ConsentRecords
<1>3. /\ consents' = [consents EXCEPT ![u] = Append(consents[u], c)]
      /\ newest' = [s \in DOMAIN newest \cup {t} |-> IF s = t THEN <<u, n>> ELSE newest[s]]
      /\ now' = now
  BY DEF GrantConsent
<1> HIDE DEF c
<1>4. /\ Append(consents[u], c) \in Seq(ConsentRecords)
      /\ DOMAIN Append(consents[u], c) = DOMAIN consents[u] \cup {n}
      /\ Append(consents[u], c)[n] = c
      /\ \A i \in DOMAIN consents[u] : Append(consents[u], c)[i] = consents[u][i]
      /\ \A i \in DOMAIN consents[u] : i \in Nat /\ i < n
      /\ n \in Nat \ {0}
  BY <1>1, <1>2
<1>5. /\ consents'[u] = Append(consents[u], c)
      /\ \A v \in Users : v # u => consents'[v] = consents[v]
      /\ consents' \in [Users -> Seq(ConsentRecords)]
  BY <1>1, <1>3, <1>4 DEF ConsentInv, ConsentTypeOK
<1> HIDE DEF n
<1>6. ConsentTypeOK'
  BY <1>1, <1>3, <1>4, <1>5 DEF ConsentInv, ConsentTypeOK, ConsentIds
<1>7. ConsentsAreFiled'
  <2> SUFFICES ASSUME NEW v \in Users, NEW i \in DOMAIN consents'[v]
               PROVE  consents'[v][i].tuple.user = v /\ consents'[v][i].expiresAt > 0
    BY DEF ConsentsAreFiled
  <2>1. \A j \in DOMAIN consents[v] : consents[v][j].tuple.user = v /\ consents[v][j].expiresAt > 0
    BY DEF ConsentInv, ConsentsAreFiled
  <2>2. CASE v # u
    BY <1>5, <2>1, <2>2
  <2>3. CASE v = u /\ i = n
    BY <1>2, <1>4, <1>5, <2>3
  <2>4. CASE v = u /\ i # n
    <3>1. i \in DOMAIN consents[u] /\ consents'[u][i] = consents[u][i]
      BY <1>4, <1>5, <2>4
    <3> QED BY <2>1, <2>4, <3>1
  <2> QED BY <2>2, <2>3, <2>4
<1>8. ASSUME NEW s \in Tuples PROVE Last(s)'
  <2>1. s.user \in Users /\ Last(s)
    BY LastByTuple DEF Tuples, ConsentInv
  <2>2. CASE s = t
    <3>1. s \in DOMAIN newest' /\ newest'[s] = <<u, n>>
      BY <1>3, <2>2
    <3>2. n \in IdsOf(s)' /\ \A i \in IdsOf(s)' : i <= n
      BY <1>2, <1>4, <1>5, <2>2 DEF IdsOf
    <3>3. newest'[s][1] = u /\ newest'[s][2] = n /\ s.user = u
      BY <2>2, <3>1
    <3>4. consents'[u][n].active
      BY <1>2, <1>4, <1>5
    <3> QED BY <3>1, <3>2, <3>3, <3>4 DEF Last
  <2>3. CASE s # t
    <3>1. (s \in DOMAIN newest' <=> s \in DOMAIN newest)
          /\ (s \in DOMAIN newest => newest'[s] = newest[s])
      BY <1>3, <2>3
    <3>2. IdsOf(s)' = IdsOf(s)
      <4>1. CASE s.user # u
        BY <1>5, <2>1, <4>1 DEF IdsOf
      <4>2. CASE s.user = u
        <5>1. /\ DOMAIN consents'[u] = DOMAIN consents[u] \cup {n}
              /\ consents'[u][n].tuple = t
              /\ \A i \in DOMAIN consents[u] : consents'[u][i] = consents[u][i]
          BY <1>2, <1>4, <1>5
        <5> QED BY <1>4, <2>3, <4>2, <5>1 DEF IdsOf
      <4> QED BY <4>1, <4>2
    <3>3. \A i \in IdsOf(s) : consents'[s.user][i] = consents[s.user][i]
      BY <1>4, <1>5, <2>1 DEF IdsOf
    <3> QED BY <2>1, <3>1, <3>2, <3>3 DEF Last
  <2> QED BY <2>2, <2>3
<1>9. NewestIsLast'
  BY <1>8 DEF NewestIsLast, Last, IdsOf, ConsentOf
<1> QED BY <1>6, <1>7, <1>9 DEF ConsentInv

\* A revocation: the pointer goes with the last consent of the tuple, and stays
\* for an earlier one.
LEMMA RevokeStep ==
  ASSUME ConsentInv, NEW u \in Users, NEW k \in 1 .. MaxConsents, RevokeConsent(u, k)
  PROVE  ConsentInv'
<1>1. PICK t : t = consents[u][k].tuple
  OBVIOUS
<1>2. /\ consents[u] \in Seq(ConsentRecords) /\ k \in DOMAIN consents[u]
      /\ consents' = [consents EXCEPT ![u][k].active = FALSE]
      /\ newest' = [s \in {s \in DOMAIN newest : s # t \/ newest[s] # <<u, k>>} |-> newest[s]]
      /\ now' = now
  BY <1>1 DEF RevokeConsent, ConsentInv, ConsentTypeOK
<1>3. /\ DOMAIN consents[u] \subseteq Nat
      /\ \A i \in DOMAIN consents[u] : consents[u][i] \in ConsentRecords
  BY <1>2
<1>4. /\ DOMAIN consents'[u] = DOMAIN consents[u]
      /\ \A i \in DOMAIN consents[u] : i # k => consents'[u][i] = consents[u][i]
      /\ consents'[u][k] \in ConsentRecords /\ ~ consents'[u][k].active
      /\ consents'[u][k].tuple = consents[u][k].tuple
      /\ consents'[u][k].expiresAt = consents[u][k].expiresAt
      /\ \A v \in Users : v # u => consents'[v] = consents[v]
  BY <1>2, <1>3 DEF ConsentInv, ConsentTypeOK, ConsentRecords
<1>5. consents'[u] \in Seq(ConsentRecords)
  <2>1. consents'[u] = [consents[u] EXCEPT ![k].active = FALSE]
    BY <1>2 DEF ConsentInv, ConsentTypeOK
  <2>2. [consents[u][k] EXCEPT !.active = FALSE] \in ConsentRecords
    BY <1>2, <1>3 DEF ConsentRecords
  <2>3. [consents[u] EXCEPT ![k] = [consents[u][k] EXCEPT !.active = FALSE]] \in Seq(ConsentRecords)
    BY <1>2, <2>2, ExceptSeq
  <2> QED BY <2>1, <2>3
<1>6. consents' \in [Users -> Seq(ConsentRecords)]
  BY <1>2, <1>4, <1>5 DEF ConsentInv, ConsentTypeOK
<1>7. ConsentTypeOK'
  BY <1>2, <1>6 DEF ConsentInv, ConsentTypeOK
<1>8. ConsentsAreFiled'
  BY <1>4 DEF ConsentInv, ConsentsAreFiled
<1>9. t \in Tuples /\ t.user = u
  BY <1>1, <1>2, <1>3 DEF ConsentInv, ConsentsAreFiled, ConsentRecords
<1>10. ASSUME NEW s \in Tuples PROVE Last(s)'
  <2>1. s.user \in Users /\ Last(s)
    BY LastByTuple DEF Tuples, ConsentInv
  <2>2. IdsOf(s)' = IdsOf(s)
    BY <1>4, <2>1 DEF IdsOf
  <2>3. CASE s # t
    <3>1. /\ s \in DOMAIN newest' <=> s \in DOMAIN newest
          /\ s \in DOMAIN newest => newest'[s] = newest[s]
      BY <1>2, <2>3
    <3>2. \A i \in IdsOf(s) : consents'[s.user][i] = consents[s.user][i]
      BY <1>1, <1>4, <2>1, <2>3 DEF IdsOf
    <3> QED BY <2>1, <2>2, <3>1, <3>2 DEF Last
  <2>4. CASE s = t /\ s \in DOMAIN newest'
    <3>1. s \in DOMAIN newest /\ newest'[s] = newest[s] /\ newest[s] # <<u, k>>
      BY <1>2, <2>4
    <3>2. newest[s] \in ConsentIds
      BY <3>1 DEF ConsentInv, ConsentTypeOK
    <3>3. newest[s][2] # k
      BY <1>9, <2>1, <2>4, <3>1, <3>2 DEF Last, ConsentIds
    <3>4. consents'[u][newest[s][2]] = consents[u][newest[s][2]]
      BY <1>4, <1>9, <2>1, <2>4, <3>1, <3>3 DEF Last, IdsOf
    <3> QED BY <1>9, <2>1, <2>2, <2>4, <3>1, <3>4 DEF Last
  <2>5. CASE s = t /\ s \notin DOMAIN newest'
    <3>1. s \notin DOMAIN newest \/ newest[s] = <<u, k>>
      BY <1>2, <2>5
    <3>2. \A i \in IdsOf(s) : ~ consents[u][i].active => ~ consents'[u][i].active
      BY <1>4, <1>9, <2>5 DEF IdsOf
    <3>3. CASE s \notin DOMAIN newest
      BY <1>9, <2>1, <2>2, <2>5, <3>2, <3>3 DEF Last
    <3>4. CASE s \in DOMAIN newest /\ newest[s] = <<u, k>>
      <4>1. k \in IdsOf(s) /\ \A i \in IdsOf(s) : i <= k
        BY <2>1, <3>4 DEF Last
      <4>2. \A i \in IdsOf(s) : (\A j \in IdsOf(s) : j <= i) => i = k
        BY <1>3, <1>9, <2>5, <4>1 DEF IdsOf
      <4> QED BY <1>4, <1>9, <2>2, <2>5, <4>2 DEF Last
    <3> QED BY <3>1, <3>3, <3>4
  <2> QED BY <2>3, <2>4, <2>5
<1>11. NewestIsLast'
  BY <1>10 DEF NewestIsLast, Last, IdsOf, ConsentOf
<1> QED BY <1>7, <1>8, <1>11 DEF ConsentInv

\* Time changes no consent.
LEMMA BlockStep == ConsentInv /\ NextBlock => ConsentInv'
BY ConsentAssumption DEF ConsentInv, NextBlock, ConsentTypeOK, NewestIsLast, ConsentsAreFiled, ConsentOf

\* Every call of the consent contract keeps its part of the invariant.
LEMMA ConsentNextInv == ConsentInv /\ ConsentNext => ConsentInv'
BY GrantStep, RevokeStep, BlockStep DEF ConsentNext

\* Every step of the three contracts keeps the invariant.
LEMMA NextInv == OpenBankingInv /\ [Next]_vars => OpenBankingInv'
<1> SUFFICES ASSUME OpenBankingInv, [Next]_vars PROVE OpenBankingInv'
  OBVIOUS
<1>1. IdentityInv /\ OrganizationTypeOK /\ ConsentInv
  BY DEF OpenBankingInv, TypeOK, IdentityInv, ConsentInv
<1>2. UNCHANGED identityVars => IdentityInv'
  BY <1>1 DEF identityVars, IdentityInv, IdentityTypeOK, DidsAreOwned
<1>3. UNCHANGED organizations => OrganizationTypeOK'
  BY <1>1 DEF OrganizationTypeOK
<1>4. UNCHANGED consentVars => ConsentInv'
  BY <1>1 DEF consentVars, ConsentInv, ConsentTypeOK, NewestIsLast, ConsentsAreFiled, ConsentOf
<1>5. IdentityInv' /\ OrganizationTypeOK' /\ ConsentInv'
  BY <1>1, <1>2, <1>3, <1>4, IdentityNextInv, OrganizationNextInv, ConsentNextInv
     DEF Next, IdentityStep, OrganizationStep, ConsentStep, vars, identityVars, consentVars
<1> QED BY <1>5 DEF OpenBankingInv, TypeOK, IdentityInv, ConsentInv

\* Identities and DIDs are one-to-one, and every tuple's pointer is to its last
\* consent, in every state that the contracts reach together.
THEOREM RegistriesConsistent == Spec => []OpenBankingInv
<1>1. Init => OpenBankingInv
  BY InitInv
<1>2. OpenBankingInv /\ [Next]_vars => OpenBankingInv'
  BY NextInv
<1> QED BY <1>1, <1>2, PTL DEF Spec

\* A call of the identity registry leaves every revoked DID revoked.
LEMMA RevokedDidStep ==
  ASSUME IdentityInv, IdentityNext PROVE RevokedDids \subseteq RevokedDids'
<1> SUFFICES ASSUME NEW d \in DOMAIN didOwners, identities[didOwners[d]].status = "REVOKED"
             PROVE  d \in DOMAIN didOwners' /\ identities'[didOwners'[d]].status = "REVOKED"
  BY DEF RevokedDids
<1> DEFINE w == didOwners[d]
<1>1. w \in DOMAIN identities /\ identities[w].did = d /\ identities[w] \in Identities
  BY DEF IdentityInv, DidsAreOwned, IdentityTypeOK
<1>2. ASSUME NEW v \in Wallets, NEW e \in Dids, RegisterIdentity(v, e)
      PROVE  d \in DOMAIN didOwners' /\ identities'[didOwners'[d]].status = "REVOKED"
  BY <1>1, <1>2 DEF RegisterIdentity, Put
<1>3. ASSUME NEW v \in Wallets, VerifyIdentity(v) \/ RevokeIdentity(v)
      PROVE  d \in DOMAIN didOwners' /\ identities'[didOwners'[d]].status = "REVOKED"
  <2>1. v # w /\ didOwners' = didOwners
    BY <1>3 DEF VerifyIdentity, RevokeIdentity
  <2>2. identities'[w] = identities[w]
    BY <1>1, <1>3, <2>1 DEF VerifyIdentity, RevokeIdentity
  <2> QED BY <2>1, <2>2
<1>4. ASSUME NEW old \in Wallets, NEW new \in Wallets, RebindWallet(old, new)
      PROVE  d \in DOMAIN didOwners' /\ identities'[didOwners'[d]].status = "REVOKED"
  BY <1>4, RebindStep
<1> QED BY <1>2, <1>3, <1>4 DEF IdentityNext

\* A call of the organization registry leaves every revoked organization revoked.
LEMMA RevokedOrganizationStep ==
  ASSUME OrganizationTypeOK, OrganizationNext, NEW o \in DOMAIN organizations,
         organizations[o].status = "REVOKED"
  PROVE  organizations'[o].status = "REVOKED"
<1>1. ASSUME NEW p \in Orgs, NEW role \in OrgRoles, RegisterOrganization(p, role)
      PROVE  organizations'[o].status = "REVOKED"
  BY <1>1 DEF RegisterOrganization
<1>2. ASSUME NEW p \in Orgs, NEW from, NEW s, "REVOKED" \notin from, ChangeStatus(p, from, s)
      PROVE  organizations'[o].status = "REVOKED"
  BY <1>2 DEF ChangeStatus
<1> QED BY <1>1, <1>2 DEF OrganizationNext, ApproveOrganization, SuspendOrganization,
                          RevokeOrganization

\* Revocation is final, of a DID across its wallets and of an organization.
THEOREM RevocationHolds == Spec => RevocationIsFinal
<1>1. ASSUME OpenBankingInv, [Next]_vars
      PROVE  [/\ RevokedDids \subseteq RevokedDids'
              /\ \A o \in DOMAIN organizations :
                   organizations[o].status = "REVOKED" => organizations'[o].status = "REVOKED"]_vars
  <2>1. IdentityInv /\ OrganizationTypeOK
    BY <1>1 DEF OpenBankingInv, TypeOK, IdentityInv
  <2>2. IdentityNext \/ UNCHANGED identityVars
    BY <1>1 DEF Next, IdentityStep, OrganizationStep, ConsentStep, vars, identityVars
  <2>3. OrganizationNext \/ UNCHANGED organizations
    BY <1>1 DEF Next, IdentityStep, OrganizationStep, ConsentStep, vars
  <2>4. RevokedDids \subseteq RevokedDids'
    BY <2>1, <2>2, RevokedDidStep DEF RevokedDids, identityVars
  <2>5. \A o \in DOMAIN organizations :
          organizations[o].status = "REVOKED" => organizations'[o].status = "REVOKED"
    BY <2>1, <2>3, RevokedOrganizationStep
  <2> QED BY <2>4, <2>5
<1> QED BY <1>1, RegistriesConsistent, PTL DEF Spec, RevocationIsFinal

\* Access belongs to one wallet of a DID, and to none of a revoked one.
THEOREM AccessHolds == Spec => []AccessIsPerDid
<1>1. OpenBankingInv => AccessIsPerDid
  BY DEF OpenBankingInv, DidsAreOwned, AccessIsPerDid, AccessAllowed, IsIdentityActive, RevokedDids
<1> QED BY <1>1, RegistriesConsistent, PTL

\* The pointer of a tuple is to its last consent.
LEMMA PointerIsLast ==
  ASSUME ConsentInv, NEW t \in Tuples, t \in DOMAIN newest
  PROVE  /\ t.user \in Users /\ newest[t] = <<t.user, LastConsent(t)>>
         /\ LastConsent(t) \in DOMAIN consents[t.user]
<1> DEFINE m == CHOOSE i \in IdsOf(t) : \A j \in IdsOf(t) : j <= i
<1>1. t.user \in Users /\ Last(t)
  BY LastByTuple DEF Tuples, ConsentInv
<1>2. /\ newest[t] \in ConsentIds /\ newest[t][1] = t.user
      /\ newest[t][2] \in IdsOf(t) /\ \A i \in IdsOf(t) : i <= newest[t][2]
  BY <1>1 DEF Last, ConsentInv, ConsentTypeOK
<1>3. IdsOf(t) \subseteq Nat
  BY <1>1 DEF ConsentInv, ConsentTypeOK, IdsOf
<1>4. m \in IdsOf(t) /\ \A i \in IdsOf(t) : i <= m
  BY <1>2
<1>5. m = newest[t][2]
  BY <1>2, <1>3, <1>4
<1>6. LastConsent(t) = m
  BY <1>2 DEF LastConsent, IdsOf
<1>7. newest[t] = <<newest[t][1], newest[t][2]>>
  BY <1>2 DEF ConsentIds
<1> QED BY <1>1, <1>2, <1>4, <1>5, <1>6, <1>7 DEF IdsOf

\* What the pointer of a tuple leads to says what the check answers.
LEMMA CheckByLast ==
  ASSUME ConsentInv, NEW t \in Tuples
  PROVE  CheckConsent(t) <=> /\ t \in DOMAIN newest
                             /\ consents[t.user][LastConsent(t)].active
                             /\ now <= consents[t.user][LastConsent(t)].expiresAt
BY PointerIsLast DEF CheckConsent, ConsentOf, Unexpired

\* The part of CheckFollowsDecisions that is about one tuple.
Opens(t) == CheckConsent(t)' /\ ~CheckConsent(t) => IsGranted(t)

Closes(t) ==
  CheckConsent(t) /\ ~CheckConsent(t)' =>
    LET last == consents'[t.user][LastConsent(t)]
    IN  ~last.active \/ ~(now' <= last.expiresAt)

\* A pointer that stays, to a consent that stays, keeps the answer until it expires.
LEMMA SamePointer ==
  ASSUME ConsentInv, NEW t \in Tuples, now' \in Nat, now <= now',
         t \in DOMAIN newest' <=> t \in DOMAIN newest,
         t \in DOMAIN newest => /\ newest'[t] = newest[t]
                                /\ ConsentOf(newest[t])' = ConsentOf(newest[t])
  PROVE  Opens(t) /\ Closes(t)
<1>1. CASE t \notin DOMAIN newest
  BY <1>1 DEF Opens, Closes, CheckConsent
<1>2. CASE t \in DOMAIN newest
  <2> DEFINE c == consents[t.user][LastConsent(t)]
  <2>1. /\ newest[t] = <<t.user, LastConsent(t)>> /\ t.user \in Users
        /\ LastConsent(t) \in DOMAIN consents[t.user]
    BY <1>2, PointerIsLast
  <2>2. c \in ConsentRecords /\ now \in Nat
    BY <2>1, ConsentAssumption DEF ConsentInv, ConsentTypeOK
  <2>3. consents'[t.user][LastConsent(t)] = c
    BY <1>2, <2>1 DEF ConsentOf
  <2>4. CheckConsent(t) <=> c.active /\ now <= c.expiresAt
    BY <1>2, CheckByLast
  <2>5. CheckConsent(t)' <=> c.active /\ now' <= c.expiresAt
    BY <1>2, <2>1, <2>3 DEF CheckConsent, ConsentOf, Unexpired
  <2>6. c.expiresAt \in Nat
    BY <2>2 DEF ConsentRecords
  <2> HIDE DEF c
  <2> QED BY <2>2, <2>3, <2>4, <2>5, <2>6 DEF Opens, Closes
<1> QED BY <1>1, <1>2

\* checkConsent turns to yes by a grant only, and to no only when the last consent of
\* the tuple is revoked or expires.
THEOREM CheckChangesByDecisions == Spec => CheckFollowsDecisions
<1>1. ASSUME OpenBankingInv, [Next]_vars, NEW t \in Tuples
      PROVE  Opens(t) /\ Closes(t)
  <2>1. ConsentInv /\ now \in Nat /\ t.user \in Users
    BY <1>1, ConsentAssumption DEF OpenBankingInv, TypeOK, ConsentInv, ConsentTypeOK, Tuples
  <2>2. CASE UNCHANGED consentVars
    BY <2>1, <2>2, SamePointer DEF consentVars, ConsentOf
  <2>3. ASSUME NEW s \in Tuples, NEW d \in Durations, GrantConsent(s, d)
        PROVE  Opens(t) /\ Closes(t)
    <3> DEFINE u == s.user
               c == [tuple |-> s, expiresAt |-> now + d, active |-> TRUE]
    <3>0. u \in Users /\ consents \in [Users -> Seq(ConsentRecords)]
      BY <2>1 DEF ConsentInv, ConsentTypeOK, Tuples
    <3>1. /\ u \in Users /\ consents[u] \in Seq(ConsentRecords) /\ c \in ConsentRecords
          /\ consents'[u] = Append(consents[u], c)
          /\ \A v \in Users : v # u => consents'[v] = consents[v]
          /\ now' = now
      <4>1. d \in Nat /\ now + d \in Nat
        BY <2>1, ConsentAssumption
      <4>2. c \in ConsentRecords
        BY <4>1 DEF ConsentRecords
      <4>3. consents' = [consents EXCEPT ![u] = Append(consents[u], c)] /\ now' = now
        BY <2>3 DEF GrantConsent
      <4> HIDE DEF c, u
      <4> QED BY <3>0, <4>2, <4>3
    <3>2. CASE t = s
      <4>1. /\ Len(consents'[u]) = Len(consents[u]) + 1 /\ Len(consents[u]) \in Nat
            /\ consents'[u][Len(consents'[u])] = c
        BY <3>1
      <4>2. IsGranted(t)
        BY <3>2, <4>1 DEF IsGranted
      <4>3. t \in DOMAIN newest' /\ newest'[t] = <<u, Len(consents'[u])>>
        BY <2>3, <3>2, <4>1 DEF GrantConsent
      <4>4. now' <= c.expiresAt /\ c.active
        BY <2>1, <3>1, ConsentAssumption
      <4>5. CheckConsent(t)'
        BY <4>1, <4>3, <4>4 DEF CheckConsent, ConsentOf, Unexpired
      <4> QED BY <4>2, <4>5 DEF Opens, Closes
    <3>3. CASE t # s
      <4>1. /\ t \in DOMAIN newest' <=> t \in DOMAIN newest
            /\ t \in DOMAIN newest => newest'[t] = newest[t]
        BY <2>3, <3>3 DEF GrantConsent
      <4>2. ASSUME t \in DOMAIN newest
            PROVE  ConsentOf(newest[t])' = ConsentOf(newest[t])
        <5>1. newest[t] = <<t.user, LastConsent(t)>> /\ LastConsent(t) \in DOMAIN consents[t.user]
          BY <2>1, <4>2, PointerIsLast
        <5>2. consents'[t.user][LastConsent(t)] = consents[t.user][LastConsent(t)]
          <6> HIDE DEF c, u
          <6> QED BY <2>1, <3>1, <5>1
        <5> QED BY <4>1, <4>2, <5>1, <5>2 DEF ConsentOf
      <4> QED BY <2>1, <3>1, <4>1, <4>2, SamePointer
    <3> QED BY <3>2, <3>3
  <2>4. ASSUME NEW u \in Users, NEW k \in 1 .. MaxConsents, RevokeConsent(u, k)
        PROVE  Opens(t) /\ Closes(t)
    <3>1. /\ \A v \in Users : \A i \in DOMAIN consents[v] :
                <<v, i>> # <<u, k>> => consents'[v][i] = consents[v][i]
          /\ ~ consents'[u][k].active /\ now' = now
      <4>1. /\ consents' = [consents EXCEPT ![u][k].active = FALSE] /\ now' = now
            /\ k \in DOMAIN consents[u] /\ consents \in [Users -> Seq(ConsentRecords)]
        BY <2>1, <2>4 DEF RevokeConsent, ConsentInv, ConsentTypeOK
      <4>2. consents[u] \in Seq(ConsentRecords) /\ consents[u][k] \in ConsentRecords
        BY <4>1
      <4>3. ~ consents'[u][k].active
        BY <4>1, <4>2 DEF ConsentRecords
      <4> QED BY <4>1, <4>2, <4>3
    <3>2. CASE t \in DOMAIN newest /\ newest[t] = <<u, k>>
      <4>1. t.user = u /\ LastConsent(t) = k
        BY <2>1, <3>2, PointerIsLast
      <4>2. consents[u][k].tuple = t
        BY <2>1, <3>2, LastByTuple DEF Last, IdsOf, ConsentInv
      <4>3. t \notin DOMAIN newest'
        BY <2>4, <3>2, <4>2 DEF RevokeConsent
      <4> QED BY <3>1, <4>1, <4>3 DEF Opens, Closes, CheckConsent
    <3>3. CASE ~ (t \in DOMAIN newest /\ newest[t] = <<u, k>>)
      <4>1. /\ t \in DOMAIN newest' <=> t \in DOMAIN newest
            /\ t \in DOMAIN newest => newest'[t] = newest[t]
        BY <2>4, <3>3 DEF RevokeConsent
      <4>2. ASSUME t \in DOMAIN newest
            PROVE  ConsentOf(newest[t])' = ConsentOf(newest[t])
        <5>1. newest[t] = <<t.user, LastConsent(t)>> /\ LastConsent(t) \in DOMAIN consents[t.user]
          BY <2>1, <4>2, PointerIsLast
        <5>2. consents'[t.user][LastConsent(t)] = consents[t.user][LastConsent(t)]
          BY <2>1, <3>1, <3>3, <4>2, <5>1
        <5> QED BY <4>1, <4>2, <5>1, <5>2 DEF ConsentOf
      <4> QED BY <2>1, <3>1, <4>1, <4>2, SamePointer
    <3> QED BY <3>2, <3>3
  <2>5. CASE NextBlock
    BY <2>1, <2>5, SamePointer DEF NextBlock, ConsentOf
  <2>6. ConsentNext \/ UNCHANGED consentVars
    BY <1>1 DEF Next, IdentityStep, OrganizationStep, ConsentStep, vars, consentVars
  <2> QED BY <2>2, <2>3, <2>4, <2>5, <2>6 DEF ConsentNext
<1>2. OpenBankingInv /\ [Next]_vars => [\A t \in Tuples : Opens(t) /\ Closes(t)]_vars
  BY <1>1
<1>3. [\A t \in Tuples : Opens(t) /\ Closes(t)]_vars
        => [\A t \in Tuples :
              /\ CheckConsent(t)' /\ ~CheckConsent(t) => IsGranted(t)
              /\ CheckConsent(t) /\ ~CheckConsent(t)' =>
                   LET last == consents'[t.user][LastConsent(t)]
                   IN  ~last.active \/ ~(now' <= last.expiresAt)]_vars
  BY DEF Opens, Closes
<1> QED BY <1>2, <1>3, RegistriesConsistent, PTL DEF Spec, CheckFollowsDecisions
=============================================================================
