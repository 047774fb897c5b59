---------------------------- MODULE OpenBankingApi ----------------------------
(***************************************************************************)
(* The Open Banking backend: dictionaries that imitate the contracts, shared   *)
(* by requests which FastAPI runs in a thread pool.  A short handler is one    *)
(* step; granting, evaluating an access and serving a bank call are requests   *)
(* in a slot, and every read or write of the dictionaries is a step of its own. *)
(* blockchain_service.py and the routes of open_banking_app.py, which the        *)
(* *_routes.py files repeat word for word.                                      *)
(***************************************************************************)
EXTENDS Naturals, Sequences, FiniteSets

CONSTANTS
  Tuples,        \* the [user, bank, tsp, type] combinations clients name
  Durations,     \* for how many seconds a consent is granted
  TokenTtl,      \* ttl_seconds of an access token
  Slots,         \* threads: requests that can be in progress at once
  MaxSecond,     \* bound: the last value of the clock
  MaxCalls       \* bound: calls made by clients

ASSUME OpenBankingApiAssumption ==
  /\ IsFiniteSet(Tuples) /\ IsFiniteSet(Slots)
  /\ Durations \subseteq Nat /\ TokenTtl \in Nat /\ MaxSecond \in Nat /\ MaxCalls \in Nat

Users == {t.user : t \in Tuples}
Organizations == {t.bank : t \in Tuples} \cup {t.tsp : t \in Tuples}

VARIABLES
  users,          \* db.users: the status of a wallet, "NONE" when it is not there
  organizations,  \* db.organizations, likewise
  bankConsents,   \* db.consents: id -> [expires, active]; an id is [tuple, created]
  auditLogs,      \* db.audit_logs, the newest record first
  second,         \* int(time.time())
  tokens,         \* the access tokens that were issued
  request,        \* the request each thread is working on
  facts,          \* history: what held at some moment of the request so far
  calls           \* bound: calls made so far

databaseVars == <<users, organizations, bankConsents, auditLogs, second>>
apiVars == <<users, organizations, bankConsents, auditLogs, second, tokens, request, facts, calls>>

Idle == [at |-> "idle"]

\* The active consents of a tuple, and those that also have not expired.
ActiveConsents(t, cs) == {i \in DOMAIN cs : i.tuple = t /\ cs[i].active}
LiveConsents(t, cs, now) == {i \in ActiveConsents(t, cs) : now <= cs[i].expires}

\* ConsentManager's promise and the other conditions of an access, by name.
Holding(t, us, os, cs, now) ==
  {f \in {"identity", "bank", "tsp", "consent"} :
     \/ f = "identity" /\ us[t.user] = "ACTIVE"
     \/ f = "bank" /\ os[t.bank] = "APPROVED"
     \/ f = "tsp" /\ os[t.tsp] = "APPROVED"
     \/ f = "consent" /\ LiveConsents(t, cs, now) # {}}

OpenBankingApiInit ==
  /\ users \in [Users -> {"NONE", "ACTIVE"}]
  /\ organizations = [o \in Organizations |-> "APPROVED"]
  /\ bankConsents = [i \in {} |-> [expires |-> 0, active |-> FALSE]]
  /\ auditLogs = <<>>
  /\ second = 0
  /\ tokens = {}
  /\ request = [s \in Slots |-> Idle]
  /\ facts = [s \in Slots |-> {}]
  /\ calls = 0

Call == calls < MaxCalls /\ calls' = calls + 1
-----------------------------------------------------------------------------
(***************************************************************************)
(* Handlers that are one step.                                             *)
(***************************************************************************)
RegisterIdentity(u) ==
  /\ users' = [users EXCEPT ![u] = "PENDING"]
  /\ UNCHANGED <<organizations, bankConsents, auditLogs, second>>

VerifyIdentity(u) ==
  /\ users[u] # "NONE"
  /\ users' = [users EXCEPT ![u] = "ACTIVE"]
  /\ UNCHANGED <<organizations, bankConsents, auditLogs, second>>

RegisterOrganization(o) ==
  /\ organizations' = [organizations EXCEPT ![o] = "PENDING"]
  /\ UNCHANGED <<users, bankConsents, auditLogs, second>>

ApproveOrganization(o) ==
  /\ organizations[o] # "NONE"
  /\ organizations' = [organizations EXCEPT ![o] = "APPROVED"]
  /\ UNCHANGED <<users, bankConsents, auditLogs, second>>

RevokeConsent(i) ==
  /\ i \in DOMAIN bankConsents
  /\ bankConsents' = [bankConsents EXCEPT ![i].active = FALSE]
  /\ UNCHANGED <<users, organizations, auditLogs, second>>

Tick == /\ second < MaxSecond
        /\ second' = second + 1
        /\ UNCHANGED <<users, organizations, bankConsents, auditLogs>>
-----------------------------------------------------------------------------
(***************************************************************************)
(* Requests in a slot.  A request is [at, kind, tuple, began] with the locals  *)
(* of its current phase; began is the number of audit records when it began.   *)
(***************************************************************************)
Begin(s, r) == /\ request[s] = Idle
               /\ Call
               /\ request' = [request EXCEPT ![s] = r]
               /\ UNCHANGED <<databaseVars, tokens>>

Goto(s, r) == request' = [request EXCEPT ![s] = r]

\* The id of a consent and its record are computed from the time read first.
\* Faulty variant: the id is of the tuple alone.
ConsentIdOfTuple(t, now) == [tuple |-> t, created |-> 0]

ConsentId(t, now) == [tuple |-> t, created |-> now]

BeginGrant(s, t, d) ==
  Begin(s, [at |-> "insert consent", kind |-> "grant", tuple |-> t, began |-> 0,
            now |-> second, duration |-> d])

InsertedConsent(cs, i, d) ==
  [j \in DOMAIN cs \cup {i} |-> IF j = i THEN [expires |-> i.created + d, active |-> TRUE]
                                         ELSE cs[j]]

InsertConsent(s) ==
  LET r == request[s]
  IN  /\ r.at = "insert consent"
      /\ bankConsents' = InsertedConsent(bankConsents, ConsentId(r.tuple, r.now), r.duration)
      /\ Goto(s, Idle)
      /\ UNCHANGED <<users, organizations, auditLogs, second, tokens>>

BeginEvaluate(s, t) ==
  Begin(s, [at |-> "identity", kind |-> "evaluate", tuple |-> t, began |-> Len(auditLogs)])

Phase(r, at) == [at |-> at, kind |-> r.kind, tuple |-> r.tuple, began |-> r.began]

\* for c in db.consents.values(): the size is remembered, now was read before.
Iterating(r, at) == [at |-> at, kind |-> r.kind, tuple |-> r.tuple, began |-> r.began,
                     now |-> second, size |-> Cardinality(DOMAIN bankConsents), seen |-> {}]

Decided(r, allowed) ==
  [at |-> "length", kind |-> r.kind, tuple |-> r.tuple, began |-> r.began, granted |-> allowed]

\* The three checks of is_access_allowed before the consent, one by one.
CheckParty(s, at, ok, next) ==
  /\ request[s].at = at
  /\ Goto(s, IF ok THEN next ELSE Decided(request[s], FALSE))
  /\ UNCHANGED <<databaseVars, tokens>>

CheckIdentity(s) ==
  /\ request[s] # Idle
  /\ CheckParty(s, "identity", users[request[s].tuple.user] = "ACTIVE", Phase(request[s], "bank"))
\* Faulty variant: the bank's approval is not checked.
SkipBank(s) == /\ request[s] # Idle
               /\ CheckParty(s, "bank", TRUE, Phase(request[s], "tsp"))

CheckBank(s) ==
  /\ request[s] # Idle
  /\ CheckParty(s, "bank", organizations[request[s].tuple.bank] = "APPROVED",
                Phase(request[s], "tsp"))
CheckTsp(s) ==
  /\ request[s] # Idle
  /\ CheckParty(s, "tsp", organizations[request[s].tuple.tsp] = "APPROVED",
                Iterating(request[s], "consent"))

\* A bank call verifies its token and then checks the consent of the token.
BeginBankCall(s, token) ==
  /\ second <= token.exp
  /\ Begin(s, Iterating([kind |-> "bank", tuple |-> token.tuple, began |-> Len(auditLogs)],
                        "consent"))

\* The next consent of an iteration: the matching one given first, of those not
\* seen yet.  (Consents of other tuples are passed over without effect.)
Unseen(r) == {i \in DOMAIN bankConsents : i.tuple = r.tuple /\ i.created \notin r.seen}
IsNext(r, i) == i \in Unseen(r) /\ \A j \in Unseen(r) : i.created <= j.created

\* RuntimeError: dictionary changed size during iteration.  The request fails.
IterationFails(s) ==
  LET r == request[s]
  IN  /\ r.at \in {"consent", "look"}
      /\ r.size # Cardinality(DOMAIN bankConsents)
      /\ Goto(s, Idle)
      /\ UNCHANGED <<databaseVars, tokens>>

\* Does the consent end the search?
Matches(r, i) == i \in LiveConsents(r.tuple, bankConsents, r.now)

CheckConsent(s) ==
  LET r == request[s]
  IN  /\ r.at = "consent"
      /\ r.size = Cardinality(DOMAIN bankConsents)
      /\ \/ \E i \in DOMAIN bankConsents :
              /\ IsNext(r, i)
              /\ Goto(s, IF ~ Matches(r, i)
                         THEN [r EXCEPT !.seen = @ \cup {i.created}]
                         ELSE IF r.kind = "bank" THEN Phase(r, "served")
                         ELSE Decided(r, TRUE))
         \/ Unseen(r) = {} /\ Goto(s, Decided(r, FALSE))
      /\ UNCHANGED <<databaseVars, tokens>>

\* log_audit_event: the id from the length, then the record at the front.
\* Faulty variant: the id from the number of tokens issued.
ReadTokens(s) ==
  LET r == request[s]
  IN  /\ r.at = "length"
      /\ Goto(s, [at |-> "insert log", kind |-> r.kind, tuple |-> r.tuple, began |-> r.began,
                  granted |-> r.granted, number |-> Cardinality(tokens) + 1])
      /\ UNCHANGED <<databaseVars, tokens>>

ReadLength(s) ==
  LET r == request[s]
  IN  /\ r.at = "length"
      /\ Goto(s, [at |-> "insert log", kind |-> r.kind, tuple |-> r.tuple, began |-> r.began,
                  granted |-> r.granted, number |-> Len(auditLogs) + 1])
      /\ UNCHANGED <<databaseVars, tokens>>

InsertLog(s) ==
  LET r == request[s]
  IN  /\ r.at = "insert log"
      /\ auditLogs' = <<[id |-> r.number, tuple |-> r.tuple, granted |-> r.granted,
                         began |-> r.began]>> \o auditLogs
      /\ Goto(s, IF r.granted THEN Iterating(r, "look") ELSE Idle)
      /\ UNCHANGED <<users, organizations, bankConsents, second, tokens>>

\* A token names one consent, or none: consent_id is then "cst_active".
Token(t, ids, seen) == [tuple |-> t, names |-> ids, exp |-> second + TokenTtl, facts |-> seen]

\* The consent is looked up again for the token: the first active one, expired or
\* not, if there is one.
LookAgain(s) ==
  LET r == request[s]
  IN  /\ r.at = "look"
      /\ r.size = Cardinality(DOMAIN bankConsents)
      /\ \/ \E i \in ActiveConsents(r.tuple, bankConsents) :
              /\ IsNext(r, i)
              /\ tokens' = tokens \cup {Token(r.tuple, {i}, facts[s])}
              /\ Goto(s, Idle)
         \/ \E i \in DOMAIN bankConsents \ ActiveConsents(r.tuple, bankConsents) :
              /\ IsNext(r, i)
              /\ Goto(s, [r EXCEPT !.seen = @ \cup {i.created}])
              /\ UNCHANGED tokens
         \/ /\ Unseen(r) = {}
            /\ tokens' = tokens \cup {Token(r.tuple, {}, facts[s])}
            /\ Goto(s, Idle)
      /\ UNCHANGED databaseVars

Serve(s) == /\ request[s].at = "served"
            /\ Goto(s, Idle)
            /\ UNCHANGED <<databaseVars, tokens>>
-----------------------------------------------------------------------------
\* History: what held at some moment of a request, and whether a consent of its
\* tuple was revoked while it ran.  Expiry counts by the clock as the request read
\* it: a thread may be paused between time.time() and the look at a consent.
Observe ==
  facts' = [s \in Slots |->
    IF request'[s] = Idle THEN {}
    ELSE LET t == request'[s].tuple
             before == IF request[s] = Idle THEN {} ELSE facts[s]
             revoked == ActiveConsents(t, bankConsents) \ ActiveConsents(t, bankConsents')
         IN  before \cup Holding(t, users', organizations', bankConsents',
                              IF request'[s].at = "consent" THEN request'[s].now ELSE second')
                    \cup (IF revoked # {} THEN {"revoked"} ELSE {})]

ShortCall ==
  /\ \/ \E u \in Users : RegisterIdentity(u) \/ VerifyIdentity(u)
     \/ \E o \in Organizations : RegisterOrganization(o) \/ ApproveOrganization(o)
     \/ \E i \in DOMAIN bankConsents : RevokeConsent(i)
  /\ Call
  /\ UNCHANGED <<tokens, request>>

BeginRequest ==
  \E s \in Slots : \/ \E t \in Tuples, d \in Durations : BeginGrant(s, t, d)
                   \/ \E t \in Tuples : BeginEvaluate(s, t)
                   \/ \E token \in tokens : BeginBankCall(s, token)

ContinueRequest ==
  /\ \E s \in Slots : \/ InsertConsent(s) \/ CheckIdentity(s) \/ CheckBank(s) \/ CheckTsp(s)
                      \/ CheckConsent(s) \/ IterationFails(s) \/ ReadLength(s) \/ InsertLog(s)
                      \/ LookAgain(s) \/ Serve(s)
  /\ UNCHANGED calls

TimePasses == Tick /\ UNCHANGED <<tokens, request, calls>>

OpenBankingApiNext ==
  /\ ShortCall \/ BeginRequest \/ ContinueRequest \/ TimePasses
  /\ Observe
-----------------------------------------------------------------------------
(***************************************************************************)
(* Properties.                                                             *)
(***************************************************************************)
\* A token is issued only for an access whose four conditions each held at some
\* moment of the request, and which the audit log has as granted; it names no
\* consent only if one of the tuple was revoked while the request ran.
\* (evaluate_access: check, log, look again.)
TokensAreEarned ==
  \A token \in tokens :
    /\ {"identity", "bank", "tsp", "consent"} \subseteq token.facts
    /\ token.names = {} => "revoked" \in token.facts
    /\ \E n \in DOMAIN auditLogs : auditLogs[n].tuple = token.tuple /\ auditLogs[n].granted

\* A revocation or expiry is effective for every bank call that begins after it,
\* whatever token it presents: a served call saw a live consent while it ran.
\* (_verify_authorization checks the consent again.)
ServedWhileLive ==
  \A s \in Slots : request[s].at = "served" => "consent" \in facts[s]

\* What the two checks of a consent promise together: access is given, as a token or
\* as data, only on conditions that held while it was decided.
AccessIsEarned == TokensAreEarned /\ ServedWhileLive

\* Two audit records have one id only if their requests overlapped: the later one
\* had begun when the earlier was inserted.  Requests one after the other get
\* distinct ids.  (log_audit_event derives the id from the length of the list.)
LogIdsClashOnlyInOverlap ==
  \A m, n \in DOMAIN auditLogs :
    m < n /\ auditLogs[m].id = auditLogs[n].id
      => auditLogs[m].began <= Len(auditLogs) - n

\* A consent that was revoked, whose second is over and of which no grant is still
\* in progress.
Buried(i) ==
  /\ i \in DOMAIN bankConsents /\ ~ bankConsents[i].active
  /\ i.created < second
  /\ \A s \in Slots : ~ /\ request[s].at = "insert consent"
                        /\ ConsentId(request[s].tuple, request[s].now) = i

\* A consent revoked in an earlier second stays revoked for ever: a later grant of
\* the tuple is another consent.  (Within its second a grant has the same id and
\* brings it back; grant_consent.)
RevocationsStick == [][\A i \in DOMAIN bankConsents : Buried(i) => Buried(i)']_apiVars
=============================================================================
