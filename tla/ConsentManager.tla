---------------------------- MODULE ConsentManager ----------------------------
(***************************************************************************)
(* ConsentManager.sol: a user grants a provider access to one kind of data    *)
(* at a bank for a time, and may revoke it.  activeTupleConsentId points      *)
(* from the tuple <<user, bank, provider, data>> to its newest consent, which *)
(* is all that checkConsent looks at.                                       *)
(*                                                                         *)
(* A consent id hashes the user and the number of consents the user had, so  *)
(* it is that pair here, and userConsentIds is the user's list.  now is the  *)
(* block timestamp: several calls may share it.                             *)
(***************************************************************************)
EXTENDS Naturals, Sequences

CONSTANTS
  Users, Banks, Providers, DataTypes,
  Durations,    \* the durations users ask for, in seconds
  MaxTime,      \* bound on the clock
  MaxConsents   \* bound on the consents of one user

ASSUME ConsentAssumption ==
  /\ Durations \subseteq Nat \ {0}
  /\ MaxTime \in Nat \ {0}
  /\ MaxConsents \in Nat

VARIABLES
  now,       \* block.timestamp
  consents,  \* per user, the sequence of the user's consents
  newest     \* activeTupleConsentId, a function from the tuples that point

consentVars == <<now, consents, newest>>

Tuples == [user: Users, bank: Banks, tsp: Providers, data: DataTypes]

ConsentRecords == [tuple: Tuples, expiresAt: Nat, active: BOOLEAN]

ConsentIds == Users \X (Nat \ {0})

ConsentTypeOK ==
  /\ now \in 1 .. MaxTime
  /\ consents \in [Users -> Seq(ConsentRecords)]
  /\ DOMAIN newest \subseteq Tuples
  /\ newest \in [DOMAIN newest -> ConsentIds]

ConsentInit == /\ now = 1
               /\ consents = [u \in Users |-> << >>]
               /\ newest = [t \in {} |-> t]

ConsentOf(id) == consents[id[1]][id[2]]

Unexpired(c) == now <= c.expiresAt

\* The newest consent of a tuple replaces an older one, active or not.
GrantConsent(t, duration) ==
  LET u == t.user
  IN  /\ Len(consents[u]) < MaxConsents
      /\ consents' = [consents EXCEPT ![u] = Append(@,
                        [tuple |-> t, expiresAt |-> now + duration, active |-> TRUE])]
      /\ newest' = [s \in DOMAIN newest \cup {t} |->
                      IF s = t THEN <<u, Len(consents[u]) + 1>> ELSE newest[s]]
      /\ UNCHANGED now

\* Faulty variant: the pointer of the tuple is deleted with any of its consents.
RevokeConsent_AnyConsent(u, i) ==
  /\ i \in DOMAIN consents[u]
  /\ consents[u][i].active
  /\ consents' = [consents EXCEPT ![u][i].active = FALSE]
  /\ newest' = [s \in DOMAIN newest \ {consents[u][i].tuple} |-> newest[s]]
  /\ UNCHANGED now

\* Only the user who granted it revokes a consent; an older consent of the
\* tuple leaves the pointer alone.
RevokeConsent(u, i) ==
  /\ i \in DOMAIN consents[u]
  /\ consents[u][i].active
  /\ consents' = [consents EXCEPT ![u][i].active = FALSE]
  /\ LET t == consents[u][i].tuple
     IN  newest' = [s \in {s \in DOMAIN newest : s # t \/ newest[s] # <<u, i>>} |-> newest[s]]
  /\ UNCHANGED now

CheckConsent(t) == /\ t \in DOMAIN newest
                   /\ ConsentOf(newest[t]).active
                   /\ Unexpired(ConsentOf(newest[t]))

\* Time passes from block to block.
NextBlock == /\ now < MaxTime
             /\ now' = now + 1
             /\ UNCHANGED <<consents, newest>>

ConsentNext ==
  \/ \E t \in Tuples, duration \in Durations : GrantConsent(t, duration)
  \/ \E u \in Users : \E i \in 1 .. MaxConsents : RevokeConsent(u, i)
  \/ NextBlock
=============================================================================
