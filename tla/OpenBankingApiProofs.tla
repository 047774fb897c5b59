------------------------- MODULE OpenBankingApiProofs -------------------------
(***************************************************************************)
(* For any number of threads, users and consents: access is given only on     *)
(* conditions that held while it was decided, and a revocation stays.            *)
(* Every step of a request is justified by the facts of the moment before it;     *)
(* that facts only grow, and that a consent which is no longer active was         *)
(* revoked, carries this over to the moment after it (Carried).                    *)
(***************************************************************************)
EXTENDS OpenBankingApi, TLAPS

ApiSpec == OpenBankingApiInit /\ [][OpenBankingApiNext]_apiVars

AuditRecord == [id : Nat, tuple : Tuples, granted : BOOLEAN, began : Nat]

DatabaseOK ==
  /\ auditLogs \in Seq(AuditRecord)
  /\ second \in Nat
  /\ DOMAIN bankConsents \subseteq [tuple : Tuples, created : Nat]
  /\ \A i \in DOMAIN bankConsents : "active" \in DOMAIN bankConsents[i]
  /\ DOMAIN request = Slots
  /\ \A token \in tokens : token.tuple \in Tuples

Searching == {"consent", "look"}
Recording == {"length", "insert log"}

\* What a request is made of, as far as its later steps depend on it.
Shape(r) ==
  /\ r # Idle => r.at # "idle" /\ r.tuple \in Tuples /\ r.began \in Nat
  /\ r.at \in Searching =>
       DOMAIN r = {"at", "kind", "tuple", "began", "now", "size", "seen"}
  /\ r.at \in Recording => r.granted \in BOOLEAN
  /\ r.at = "insert log" => r.number \in Nat
  /\ r.at = "insert consent" => r.now \in Nat

\* The facts a request has gathered when it reaches a phase.
Conditions == {"identity", "bank", "tsp", "consent"}
Earned(r, seen) ==
  /\ r.at = "bank" => "identity" \in seen
  /\ r.at = "tsp" => {"identity", "bank"} \subseteq seen
  /\ r.at = "consent" /\ r.kind # "bank" => {"identity", "bank", "tsp"} \subseteq seen
  /\ r.at \in Recording /\ r.granted => Conditions \subseteq seen
  /\ r.at = "look" => Conditions \subseteq seen
  /\ r.at = "served" => "consent" \in seen

\* Once access is granted, the second search finds a consent, unless one was revoked.
Findable(r, seen, cs) ==
  /\ r.at \in Recording /\ r.granted =>
       "revoked" \in seen \/ ActiveConsents(r.tuple, cs) # {}
  /\ r.at = "look" =>
       "revoked" \in seen \/ \E i \in ActiveConsents(r.tuple, cs) : i.created \notin r.seen

\* The time by which a request judges consents.
ClockOf(r, now) == IF r.at = "consent" THEN r.now ELSE now

Observed == \A s \in Slots :
  request[s] # Idle =>
    Holding(request[s].tuple, users, organizations, bankConsents, ClockOf(request[s], second))
      \subseteq facts[s]

Logged(t, logs) == \E n \in DOMAIN logs : logs[n].tuple = t /\ logs[n].granted

RequestsOK == \A s \in Slots : /\ Shape(request[s])
                               /\ Earned(request[s], facts[s])
                               /\ Findable(request[s], facts[s], bankConsents)
                               /\ request[s].at = "look" => Logged(request[s].tuple, auditLogs)

ApiInv == DatabaseOK /\ Observed /\ RequestsOK /\ TokensAreEarned
-----------------------------------------------------------------------------
\* What a step makes of a request: it ends it, begins one, or takes it a phase
\* further, on the facts and consents of the moment before.
Begun(r) == /\ Shape(r)
            /\ \/ r.at \in {"insert consent", "identity"}
               \/ r.at = "consent" /\ r.kind = "bank"
Continued(s) == /\ request[s] # Idle /\ request'[s].tuple = request[s].tuple
                /\ Shape(request'[s])
                /\ Earned(request'[s], facts[s])
                /\ Findable(request'[s], facts[s], bankConsents)
                /\ request'[s].at = "look" => request[s].at = "look" \/ InsertLog(s)
Carried(s) == \/ request'[s] = Idle
              \/ request[s] = Idle /\ Begun(request'[s])
              \/ Continued(s)

\* An idle slot is in no phase.
LEMMA IdleIsNoPhase == Idle.at = "idle"
BY DEF Idle

\* No request is in progress at first.
LEMMA InitApiInv == OpenBankingApiInit => ApiInv
<1>1. SUFFICES ASSUME OpenBankingApiInit PROVE ApiInv
  OBVIOUS
<1>2. \A s \in Slots : request[s] = Idle
  BY <1>1 DEF OpenBankingApiInit
<1>3. DatabaseOK /\ TokensAreEarned
  BY <1>1 DEF OpenBankingApiInit, DatabaseOK, TokensAreEarned
<1>4. Shape(Idle) /\ Earned(Idle, {}) /\ Idle.at = "idle"
  BY DEF Idle, Shape, Earned, Searching, Recording
<1>5. Observed /\ RequestsOK
  BY <1>1, <1>2, <1>4 DEF Observed, RequestsOK, Idle, Shape, Earned, Findable, Searching,
                          Recording
<1>6. QED
  BY <1>3, <1>5 DEF ApiInv

\* A slot that is not touched carries its request on.
LEMMA UntouchedIsCarried ==
  ASSUME ApiInv, NEW s \in Slots, request'[s] = request[s]
  PROVE  Carried(s)
BY DEF ApiInv, RequestsOK, Carried, Continued

\* If one slot is changed, and carried, all are.
LEMMA OneSlotIsEnough ==
  ASSUME ApiInv, NEW s \in Slots, NEW STATE r, request' = [request EXCEPT ![s] = r], Carried(s)
  PROVE  \A p \in Slots : Carried(p)
<1>1. SUFFICES ASSUME NEW p \in Slots PROVE Carried(p)
  OBVIOUS
<1>2. CASE p = s
  BY <1>2
<1>3. CASE p # s
  <2>1. request'[p] = request[p]
    BY <1>3 DEF ApiInv, DatabaseOK
  <2>2. QED
    BY <2>1, UntouchedIsCarried
<1>4. QED
  BY <1>2, <1>3

\* Short calls and the clock leave the requests alone.
LEMMA ShortCarried == ApiInv /\ (ShortCall \/ TimePasses) => \A s \in Slots : Carried(s)
<1>1. SUFFICES ASSUME ApiInv, ShortCall \/ TimePasses, NEW s \in Slots PROVE Carried(s)
  OBVIOUS
<1>2. request' = request
  BY <1>1 DEF ShortCall, TimePasses
<1>3. QED
  BY <1>1, <1>2, UntouchedIsCarried

\* A request that begins.
LEMMA BeginCarried == ApiInv /\ BeginRequest => \A s \in Slots : Carried(s)
<1>1. SUFFICES ASSUME ApiInv, BeginRequest PROVE \A s \in Slots : Carried(s)
  OBVIOUS
<1>2. PICK s \in Slots : \/ \E t \in Tuples, d \in Durations : BeginGrant(s, t, d)
                         \/ \E t \in Tuples : BeginEvaluate(s, t)
                         \/ \E token \in tokens : BeginBankCall(s, token)
  BY <1>1 DEF BeginRequest
<1>3. DOMAIN request = Slots /\ second \in Nat /\ Len(auditLogs) \in Nat
  BY <1>1 DEF ApiInv, DatabaseOK
<1>4. ASSUME NEW STATE r, Begin(s, r), Begun(r)
      PROVE  \A p \in Slots : Carried(p)
  <2>1. request' = [request EXCEPT ![s] = r] /\ request[s] = Idle
    BY <1>4 DEF Begin
  <2>2. request'[s] = r
    BY <2>1, <1>3
  <2>3. Carried(s)
    BY <1>4, <2>1, <2>2 DEF Carried
  <2>4. QED
    BY <1>1, <2>1, <2>3, OneSlotIsEnough
<1>5. ASSUME NEW t \in Tuples, NEW d \in Durations, BeginGrant(s, t, d)
      PROVE  \A p \in Slots : Carried(p)
  <2>1. Begun([at |-> "insert consent", kind |-> "grant", tuple |-> t, began |-> 0,
               now |-> second, duration |-> d])
    BY <1>3 DEF Begun, Shape, Searching, Recording
  <2>2. QED
    BY <1>5, <2>1, <1>4 DEF BeginGrant
<1>6. ASSUME NEW t \in Tuples, BeginEvaluate(s, t)
      PROVE  \A p \in Slots : Carried(p)
  <2>1. Begun([at |-> "identity", kind |-> "evaluate", tuple |-> t, began |-> Len(auditLogs)])
    BY <1>3 DEF Begun, Shape, Searching, Recording
  <2>2. QED
    BY <1>6, <2>1, <1>4 DEF BeginEvaluate
<1>7. ASSUME NEW token \in tokens, BeginBankCall(s, token)
      PROVE  \A p \in Slots : Carried(p)
  <2> DEFINE call == [kind |-> "bank", tuple |-> token.tuple, began |-> Len(auditLogs)]
  <2>1. token.tuple \in Tuples
    BY <1>1, <1>7 DEF ApiInv, DatabaseOK
  <2>2. Begun(Iterating(call, "consent"))
    BY <1>3, <2>1 DEF Begun, Shape, Searching, Recording, Iterating
  <2>3. QED
    BY <1>7, <2>2, <1>4 DEF BeginBankCall
<1>8. QED
  BY <1>2, <1>5, <1>6, <1>7

\* What the phases before the first search make of an evaluation.
LEMMA PartyCarried ==
  ASSUME ApiInv, NEW s \in Slots, CheckIdentity(s) \/ CheckBank(s) \/ CheckTsp(s)
  PROVE  Carried(s)
<1> DEFINE r == request[s]
<1>1. /\ DOMAIN request = Slots /\ r # Idle
      /\ Shape(r) /\ Earned(r, facts[s])
      /\ Holding(r.tuple, users, organizations, bankConsents, ClockOf(r, second))
           \subseteq facts[s]
  BY DEF ApiInv, DatabaseOK, RequestsOK, Observed, CheckIdentity, CheckBank, CheckTsp
<1>2. ASSUME NEW STATE next, NEW STATE ok, NEW at, CheckParty(s, at, ok, next),
             ok => /\ next.tuple = r.tuple /\ next.at # "look" /\ Shape(next)
                   /\ Earned(next, facts[s]) /\ Findable(next, facts[s], bankConsents)
      PROVE  Carried(s)
  <2>1. request'[s] = IF ok THEN next ELSE Decided(r, FALSE)
    BY <1>1, <1>2 DEF CheckParty, Goto
  <2>2. /\ Decided(r, FALSE).tuple = r.tuple /\ Decided(r, FALSE).at # "look"
        /\ Shape(Decided(r, FALSE)) /\ Earned(Decided(r, FALSE), facts[s])
        /\ Findable(Decided(r, FALSE), facts[s], bankConsents)
    BY <1>1 DEF Decided, Shape, Earned, Findable, Searching, Recording
  <2>3. QED
    BY <1>1, <1>2, <2>1, <2>2 DEF Carried, Continued
<1>3. CASE CheckIdentity(s)
  <2>1. users[r.tuple.user] = "ACTIVE" => "identity" \in facts[s]
    BY <1>1 DEF Holding
  <2>2. users[r.tuple.user] = "ACTIVE" =>
          /\ Phase(r, "bank").tuple = r.tuple /\ Phase(r, "bank").at # "look"
          /\ Shape(Phase(r, "bank"))
          /\ Earned(Phase(r, "bank"), facts[s])
          /\ Findable(Phase(r, "bank"), facts[s], bankConsents)
    BY <1>1, <2>1 DEF Phase, Shape, Earned, Findable, Searching, Recording
  <2>3. QED
    BY <1>2, <1>3, <2>2 DEF CheckIdentity
<1>4. CASE CheckBank(s)
  <2>1. organizations[r.tuple.bank] = "APPROVED" => "bank" \in facts[s]
    BY <1>1 DEF Holding
  <2>2. "identity" \in facts[s]
    BY <1>1, <1>4 DEF CheckBank, CheckParty, Earned
  <2>3. organizations[r.tuple.bank] = "APPROVED" =>
          /\ Phase(r, "tsp").tuple = r.tuple /\ Phase(r, "tsp").at # "look"
          /\ Shape(Phase(r, "tsp"))
          /\ Earned(Phase(r, "tsp"), facts[s])
          /\ Findable(Phase(r, "tsp"), facts[s], bankConsents)
    BY <1>1, <2>1, <2>2 DEF Phase, Shape, Earned, Findable, Searching, Recording
  <2>4. QED
    BY <1>2, <1>4, <2>3 DEF CheckBank
<1>5. CASE CheckTsp(s)
  <2>1. organizations[r.tuple.tsp] = "APPROVED" => "tsp" \in facts[s]
    BY <1>1 DEF Holding
  <2>2. {"identity", "bank"} \subseteq facts[s]
    BY <1>1, <1>5 DEF CheckTsp, CheckParty, Earned
  <2>3. organizations[r.tuple.tsp] = "APPROVED" =>
          /\ Iterating(r, "consent").tuple = r.tuple /\ Iterating(r, "consent").at # "look"
          /\ Shape(Iterating(r, "consent"))
          /\ Earned(Iterating(r, "consent"), facts[s])
          /\ Findable(Iterating(r, "consent"), facts[s], bankConsents)
    BY <1>1, <2>1, <2>2 DEF Iterating, Shape, Earned, Findable, Searching, Recording
  <2>4. QED
    BY <1>2, <1>5, <2>3 DEF CheckTsp
<1>6. QED
  BY <1>3, <1>4, <1>5

\* The first search: a match is a live consent, and so an active one.
LEMMA SearchCarried ==
  ASSUME ApiInv, NEW s \in Slots, CheckConsent(s)
  PROVE  Carried(s)
<1> DEFINE r == request[s]
<1>1. /\ DOMAIN request = Slots /\ r.at = "consent" /\ r # Idle
      /\ Shape(r) /\ Earned(r, facts[s])
      /\ Holding(r.tuple, users, organizations, bankConsents, r.now) \subseteq facts[s]
  BY DEF ApiInv, DatabaseOK, RequestsOK, Observed, CheckConsent, Idle, ClockOf
<1>2. CASE \E i \in DOMAIN bankConsents : ~ Matches(r, i) /\
             Goto(s, [r EXCEPT !.seen = @ \cup {i.created}])
  <2>1. PICK i \in DOMAIN bankConsents : Goto(s, [r EXCEPT !.seen = @ \cup {i.created}])
    BY <1>2
  <2> DEFINE q == [r EXCEPT !.seen = @ \cup {i.created}]
  <2>2. request'[s] = q
    BY <1>1, <2>1 DEF Goto
  <2>3. /\ DOMAIN q = DOMAIN r /\ q.at = r.at /\ q.kind = r.kind /\ q.tuple = r.tuple
        /\ q.began = r.began /\ q # Idle
    BY <1>1 DEF Shape, Searching, Idle
  <2>4. Shape(q) /\ Earned(q, facts[s]) /\ Findable(q, facts[s], bankConsents)
    BY <1>1, <2>3 DEF Shape, Earned, Findable, Searching, Recording
  <2>5. QED
    BY <1>1, <2>2, <2>3, <2>4 DEF Carried, Continued
<1>3. CASE \E i \in DOMAIN bankConsents : Matches(r, i) /\
             Goto(s, IF r.kind = "bank" THEN Phase(r, "served") ELSE Decided(r, TRUE))
  <2>1. request'[s] = IF r.kind = "bank" THEN Phase(r, "served") ELSE Decided(r, TRUE)
    BY <1>1, <1>3 DEF Goto
  <2>2. "consent" \in facts[s] /\ ActiveConsents(r.tuple, bankConsents) # {}
    BY <1>1, <1>3 DEF Matches, Holding, LiveConsents
  <2>3. CASE r.kind = "bank"
    <3>1. /\ Phase(r, "served").tuple = r.tuple /\ Phase(r, "served").at # "look"
          /\ Shape(Phase(r, "served"))
          /\ Earned(Phase(r, "served"), facts[s])
          /\ Findable(Phase(r, "served"), facts[s], bankConsents)
      BY <1>1, <2>2 DEF Phase, Shape, Earned, Findable, Searching, Recording
    <3>2. QED
      BY <1>1, <2>1, <2>3, <3>1 DEF Carried, Continued
  <2>4. CASE r.kind # "bank"
    <3>1. /\ Decided(r, TRUE).tuple = r.tuple /\ Decided(r, TRUE).at # "look"
          /\ Shape(Decided(r, TRUE))
          /\ Earned(Decided(r, TRUE), facts[s])
          /\ Findable(Decided(r, TRUE), facts[s], bankConsents)
      BY <1>1, <2>2, <2>4
      DEF Decided, Shape, Earned, Findable, Searching, Recording, Conditions
    <3>2. QED
      BY <1>1, <2>1, <2>4, <3>1 DEF Carried, Continued
  <2>5. QED
    BY <2>3, <2>4
<1>4. CASE Goto(s, Decided(r, FALSE))
  <2>1. request'[s] = Decided(r, FALSE)
    BY <1>1, <1>4 DEF Goto
  <2>2. /\ Decided(r, FALSE).tuple = r.tuple /\ Decided(r, FALSE).at # "look"
        /\ Shape(Decided(r, FALSE)) /\ Earned(Decided(r, FALSE), facts[s])
        /\ Findable(Decided(r, FALSE), facts[s], bankConsents)
    BY <1>1 DEF Decided, Shape, Earned, Findable, Searching, Recording
  <2>3. QED
    BY <1>1, <2>1, <2>2 DEF Carried, Continued
<1>5. QED
  BY <1>2, <1>3, <1>4 DEF CheckConsent

\* Recording the decision, and going on to the second search if it was to grant.
LEMMA RecordCarried ==
  ASSUME ApiInv, NEW s \in Slots, ReadLength(s) \/ InsertLog(s)
  PROVE  Carried(s)
<1> DEFINE r == request[s]
<1>1. /\ DOMAIN request = Slots /\ r # Idle /\ r.at \in Recording
      /\ Shape(r) /\ Earned(r, facts[s]) /\ Findable(r, facts[s], bankConsents)
      /\ Len(auditLogs) \in Nat
  <2>1. r.at \in Recording
    BY DEF ReadLength, InsertLog, Recording
  <2>2. r # Idle
    <3>1. Idle.at = "idle"
      BY DEF Idle
    <3>2. QED
      BY <2>1, <3>1 DEF Recording
  <2>3. Len(auditLogs) \in Nat
    BY DEF ApiInv, DatabaseOK
  <2>4. QED
    BY <2>1, <2>2, <2>3 DEF ApiInv, DatabaseOK, RequestsOK
<1>2. CASE ReadLength(s)
  <2> DEFINE q == [at |-> "insert log", kind |-> r.kind, tuple |-> r.tuple,
                   began |-> r.began, granted |-> r.granted, number |-> Len(auditLogs) + 1]
  <2>1. request'[s] = q
    BY <1>1, <1>2 DEF ReadLength, Goto
  <2>2. /\ q.at = "insert log" /\ q.tuple = r.tuple /\ q.began = r.began
        /\ q.granted = r.granted /\ q.number \in Nat
    BY <1>1
  <2> HIDE DEF q
  <2>3. Shape(q) /\ Earned(q, facts[s]) /\ Findable(q, facts[s], bankConsents)
    BY <1>1, <2>2 DEF Shape, Earned, Findable, Searching, Recording
  <2>4. QED
    BY <1>1, <2>1, <2>2, <2>3 DEF Carried, Continued
<1>3. CASE InsertLog(s)
  <2>1. request'[s] = IF r.granted THEN Iterating(r, "look") ELSE Idle
    BY <1>1, <1>3 DEF InsertLog, Goto
  <2>2. CASE r.granted
    <3>1. \A i : i.created \notin Iterating(r, "look").seen
      BY DEF Iterating
    <3>2. /\ Iterating(r, "look").tuple = r.tuple /\ Shape(Iterating(r, "look"))
          /\ Earned(Iterating(r, "look"), facts[s])
      BY <1>1, <2>2 DEF Iterating, Shape, Earned, Searching, Recording
    <3>3. Findable(Iterating(r, "look"), facts[s], bankConsents)
      BY <1>1, <2>2, <3>1, <3>2 DEF Findable, Iterating, Recording
    <3>4. QED
      BY <1>1, <1>3, <2>1, <2>2, <3>2, <3>3 DEF Carried, Continued
  <2>3. CASE ~ r.granted
    BY <2>1, <2>3 DEF Carried
  <2>4. QED
    BY <2>2, <2>3
<1>4. QED
  BY <1>2, <1>3

\* The second search passes over consents that are not active, and so not over the
\* one that it can find.
LEMMA LookCarried ==
  ASSUME ApiInv, NEW s \in Slots, LookAgain(s)
  PROVE  Carried(s)
<1> DEFINE r == request[s]
<1>1. /\ DOMAIN request = Slots /\ r.at = "look" /\ r # Idle
      /\ Shape(r) /\ Earned(r, facts[s]) /\ Findable(r, facts[s], bankConsents)
      /\ DOMAIN bankConsents \subseteq [tuple : Tuples, created : Nat]
  BY DEF ApiInv, DatabaseOK, RequestsOK, LookAgain, Idle
<1>2. CASE Goto(s, Idle)
  BY <1>1, <1>2 DEF Goto, Carried
<1>3. CASE \E i \in DOMAIN bankConsents \ ActiveConsents(r.tuple, bankConsents) :
             IsNext(r, i) /\ Goto(s, [r EXCEPT !.seen = @ \cup {i.created}])
  <2>1. PICK i \in DOMAIN bankConsents \ ActiveConsents(r.tuple, bankConsents) :
             IsNext(r, i) /\ Goto(s, [r EXCEPT !.seen = @ \cup {i.created}])
    BY <1>3
  <2> DEFINE q == [r EXCEPT !.seen = @ \cup {i.created}]
  <2>2. request'[s] = q
    BY <1>1, <2>1 DEF Goto
  <2>3. /\ DOMAIN q = DOMAIN r /\ q.at = r.at /\ q.kind = r.kind /\ q.tuple = r.tuple
        /\ q.began = r.began /\ q # Idle /\ q.seen = r.seen \cup {i.created}
    BY <1>1 DEF Shape, Searching, Idle
  <2>4. Shape(q) /\ Earned(q, facts[s])
    BY <1>1, <2>3 DEF Shape, Earned, Searching, Recording
  <2>5. ASSUME NEW j \in ActiveConsents(r.tuple, bankConsents), j.created \notin r.seen
        PROVE  j.created \notin q.seen
    <3>1. i.tuple = r.tuple /\ j.tuple = r.tuple /\ j \in DOMAIN bankConsents
      BY <2>1 DEF IsNext, Unseen, ActiveConsents
    <3>2. i.created # j.created
      BY <1>1, <2>1, <3>1
    <3>3. QED
      BY <2>3, <2>5, <3>2
  <2>6. Findable(q, facts[s], bankConsents)
    BY <1>1, <2>3, <2>5 DEF Findable, Recording
  <2>7. QED
    BY <1>1, <2>2, <2>3, <2>4, <2>6 DEF Carried, Continued
<1>4. QED
  BY <1>2, <1>3 DEF LookAgain

\* Every step of a request.
LEMMA ContinueCarried == ApiInv /\ ContinueRequest => \A s \in Slots : Carried(s)
<1>1. SUFFICES ASSUME ApiInv, ContinueRequest PROVE \A s \in Slots : Carried(s)
  OBVIOUS
<1>2. PICK s \in Slots :
        \/ InsertConsent(s) \/ CheckIdentity(s) \/ CheckBank(s) \/ CheckTsp(s)
        \/ CheckConsent(s) \/ IterationFails(s) \/ ReadLength(s) \/ InsertLog(s)
        \/ LookAgain(s) \/ Serve(s)
  BY <1>1 DEF ContinueRequest
<1>3. Carried(s)
  <2>1. CASE InsertConsent(s) \/ IterationFails(s) \/ Serve(s)
    <3>1. Goto(s, Idle)
      BY <2>1 DEF InsertConsent, IterationFails, Serve
    <3>2. QED
      BY <1>1, <3>1 DEF Goto, Carried, ApiInv, DatabaseOK
  <2>2. QED
    BY <1>1, <1>2, <2>1, PartyCarried, SearchCarried, RecordCarried, LookCarried
<1>4. request' = [request EXCEPT ![s] = request'[s]]
  <2>1. ASSUME NEW STATE r, Goto(s, r) PROVE request' = [request EXCEPT ![s] = request'[s]]
    BY <1>1, <2>1 DEF Goto, ApiInv, DatabaseOK
  <2>2. QED
    BY <1>2, <2>1 DEF InsertConsent, CheckIdentity, CheckBank, CheckTsp, CheckParty,
       CheckConsent, IterationFails, ReadLength, InsertLog, LookAgain, Serve
<1>5. ASSUME NEW p \in Slots PROVE Carried(p)
  <2>1. CASE p # s
    <3>1. request'[p] = request[p]
      BY <1>1, <1>4, <2>1 DEF ApiInv, DatabaseOK
    <3>2. QED
      BY <1>1, <3>1, UntouchedIsCarried
  <2>2. QED
    BY <1>3, <2>1
<1>6. QED
  BY <1>5
-----------------------------------------------------------------------------
\* Facts hold what holds, they only grow, and a consent that is no longer active
\* leaves its mark.
LEMMA FactsGrow ==
  ASSUME Observe, NEW s \in Slots, request'[s] # Idle
  PROVE  LET t == request'[s].tuple
         IN  /\ Holding(t, users', organizations', bankConsents', ClockOf(request'[s], second'))
                  \subseteq facts'[s]
             /\ request[s] # Idle => facts[s] \subseteq facts'[s]
             /\ \/ ActiveConsents(t, bankConsents) \subseteq ActiveConsents(t, bankConsents')
                \/ "revoked" \in facts'[s]
<1> DEFINE t == request'[s].tuple
           held == Holding(t, users', organizations', bankConsents',
                           IF request'[s].at = "consent" THEN request'[s].now ELSE second')
           lost == ActiveConsents(t, bankConsents) \ ActiveConsents(t, bankConsents')
<1>1. facts'[s] = (IF request[s] = Idle THEN {} ELSE facts[s]) \cup held
                    \cup (IF lost # {} THEN {"revoked"} ELSE {})
  BY DEF Observe
<1>2. held = Holding(t, users', organizations', bankConsents', ClockOf(request'[s], second'))
  BY DEF ClockOf
<1> HIDE DEF held
<1>3. lost = {} => ActiveConsents(t, bankConsents) \subseteq ActiveConsents(t, bankConsents')
  OBVIOUS
<1> HIDE DEF lost
<1>4. QED
  BY <1>1, <1>2, <1>3

\* What was earned and findable before a step is so after it.
LEMMA CarriedStays ==
  ASSUME NEW r, NEW F, NEW G, NEW cs, NEW ds, F \subseteq G, Earned(r, F), Findable(r, F, cs),
         \/ ActiveConsents(r.tuple, cs) \subseteq ActiveConsents(r.tuple, ds)
         \/ "revoked" \in G
  PROVE  Earned(r, G) /\ Findable(r, G, ds)
<1>1. Earned(r, G)
  BY DEF Earned
<1>2. Findable(r, G, ds)
  BY DEF Findable
<1>3. QED
  BY <1>1, <1>2

\* A request that begins has earned nothing and needs nothing.
LEMMA BegunIsFree ==
  ASSUME NEW r, NEW F, NEW cs, Begun(r)
  PROVE  Shape(r) /\ Earned(r, F) /\ Findable(r, F, cs) /\ r.at # "look"
BY DEF Begun, Earned, Findable, Recording

\* An ended one neither.
LEMMA IdleIsFree ==
  ASSUME NEW F, NEW cs
  PROVE  Shape(Idle) /\ Earned(Idle, F) /\ Findable(Idle, F, cs) /\ Idle.at # "look"
BY DEF Idle, Shape, Earned, Findable, Searching, Recording

LEMMA AllCarried == ApiInv /\ OpenBankingApiNext => \A s \in Slots : Carried(s)
BY ShortCarried, BeginCarried, ContinueCarried DEF OpenBankingApiNext
-----------------------------------------------------------------------------
\* The audit log grows at the front.
LEMMA PrependKeeps ==
  ASSUME NEW L \in Seq(AuditRecord), NEW x \in AuditRecord
  PROVE  LET M == <<x>> \o L
         IN  /\ M \in Seq(AuditRecord)
             /\ 1 \in DOMAIN M /\ M[1] = x
             /\ \A n \in DOMAIN L : n + 1 \in DOMAIN M /\ M[n + 1] = L[n]
<1> DEFINE M == <<x>> \o L
<1>1. <<x>> \in Seq(AuditRecord) /\ Len(<<x>>) = 1 /\ <<x>>[1] = x
  OBVIOUS
<1>2. M \in Seq(AuditRecord) /\ Len(M) = 1 + Len(L) /\ DOMAIN M = 1..Len(M)
  BY <1>1
<1>3. DOMAIN L = 1..Len(L) /\ Len(L) \in Nat
  OBVIOUS
<1>4. M[1] = x /\ 1 \in DOMAIN M
  BY <1>1, <1>2, <1>3
<1>5. ASSUME NEW n \in DOMAIN L PROVE n + 1 \in DOMAIN M /\ M[n + 1] = L[n]
  BY <1>1, <1>2, <1>3
<1>6. QED
  BY <1>2, <1>4, <1>5

\* The record that a request inserts.
LEMMA InsertedRecord ==
  ASSUME ApiInv, NEW s \in Slots, InsertLog(s)
  PROVE  LET r == request[s]
             x == [id |-> r.number, tuple |-> r.tuple, granted |-> r.granted,
                   began |-> r.began]
         IN  x \in AuditRecord /\ auditLogs' = <<x>> \o auditLogs
<1> DEFINE r == request[s]
<1>1. r.at = "insert log" /\ auditLogs' = <<[id |-> r.number, tuple |-> r.tuple,
        granted |-> r.granted, began |-> r.began]>> \o auditLogs
  BY DEF InsertLog
<1>2. r # Idle /\ Shape(r)
  BY <1>1, IdleIsNoPhase DEF ApiInv, RequestsOK
<1>3. r.number \in Nat /\ r.tuple \in Tuples /\ r.granted \in BOOLEAN /\ r.began \in Nat
  BY <1>1, <1>2 DEF Shape, Recording
<1>4. QED
  BY <1>1, <1>3 DEF AuditRecord

\* Every step leaves the log alone or puts one record at its front.
LEMMA LogGrows ==
  ASSUME ApiInv, OpenBankingApiNext
  PROVE  /\ auditLogs' \in Seq(AuditRecord)
         /\ \A t \in Tuples : Logged(t, auditLogs) => Logged(t, auditLogs')
<1>1. auditLogs \in Seq(AuditRecord)
  BY DEF ApiInv, DatabaseOK
<1>2. CASE \E s \in Slots : InsertLog(s)
  <2>1. PICK x \in AuditRecord : auditLogs' = <<x>> \o auditLogs
    BY <1>2, InsertedRecord
  <2>2. /\ auditLogs' \in Seq(AuditRecord)
        /\ \A n \in DOMAIN auditLogs : /\ n + 1 \in DOMAIN auditLogs'
                                       /\ auditLogs'[n + 1] = auditLogs[n]
    BY <1>1, <2>1, PrependKeeps
  <2>3. QED
    BY <2>2 DEF Logged
<1>3. CASE ~ \E s \in Slots : InsertLog(s)
  <2>1. auditLogs' = auditLogs
    <3>1. CASE ShortCall \/ TimePasses
      BY <3>1 DEF ShortCall, TimePasses, RegisterIdentity, VerifyIdentity,
         RegisterOrganization, ApproveOrganization, RevokeConsent, Tick
    <3>2. CASE BeginRequest
      BY <3>2 DEF BeginRequest, BeginGrant, BeginEvaluate, BeginBankCall, Begin, databaseVars
    <3>3. CASE ContinueRequest
      BY <1>3, <3>3 DEF ContinueRequest, InsertConsent, CheckIdentity, CheckBank, CheckTsp,
         CheckParty, CheckConsent, IterationFails, ReadLength, LookAgain, Serve, databaseVars
    <3>4. QED
      BY <3>1, <3>2, <3>3 DEF OpenBankingApiNext
  <2>2. QED
    BY <1>1, <2>1
<1>4. QED
  BY <1>2, <1>3

\* A request that goes on to look has been logged.
LEMMA LookIsLogged ==
  ASSUME ApiInv, OpenBankingApiNext, NEW s \in Slots, request'[s].at = "look"
  PROVE  Logged(request'[s].tuple, auditLogs')
<1>1. Continued(s)
  BY AllCarried, BegunIsFree, IdleIsNoPhase DEF Carried
<1>2. CASE request[s].at = "look"
  <2>1. Logged(request[s].tuple, auditLogs) /\ request[s].tuple \in Tuples
    BY <1>1, <1>2 DEF ApiInv, RequestsOK, Continued, Shape
  <2>2. QED
    BY <1>1, <2>1, LogGrows DEF Continued
<1>3. CASE InsertLog(s)
  <2> DEFINE r == request[s]
             x == [id |-> r.number, tuple |-> r.tuple, granted |-> r.granted,
                   began |-> r.began]
  <2>1. x \in AuditRecord /\ auditLogs' = <<x>> \o auditLogs
    BY <1>3, InsertedRecord
  <2>2. x.tuple = r.tuple /\ x.granted = r.granted
    OBVIOUS
  <2> HIDE DEF x
  <2>3. 1 \in DOMAIN auditLogs' /\ auditLogs'[1] = x
    BY <2>1, PrependKeeps DEF ApiInv, DatabaseOK
  <2>4. request'[s] = IF r.granted THEN Iterating(r, "look") ELSE Idle
    BY <1>3 DEF InsertLog, Goto, ApiInv, DatabaseOK
  <2>5. r.granted
    BY <2>4, IdleIsNoPhase
  <2>6. QED
    BY <1>1, <2>2, <2>3, <2>5 DEF Logged, Continued
<1>4. QED
  BY <1>1, <1>2, <1>3 DEF Continued
-----------------------------------------------------------------------------
\* The consents are changed by a revocation, or by the insertion of a granted one.
LEMMA ConsentStep ==
  ASSUME ApiInv, OpenBankingApiNext
  PROVE  \/ bankConsents' = bankConsents
         \/ \E i \in DOMAIN bankConsents : RevokeConsent(i) /\ request' = request
         \/ \E s \in Slots : InsertConsent(s)
<1>1. CASE ShortCall \/ TimePasses
  BY <1>1 DEF ShortCall, TimePasses, RegisterIdentity, VerifyIdentity, RegisterOrganization,
     ApproveOrganization, Tick
<1>2. CASE BeginRequest
  BY <1>2 DEF BeginRequest, BeginGrant, BeginEvaluate, BeginBankCall, Begin, databaseVars
<1>3. CASE ContinueRequest
  BY <1>3 DEF ContinueRequest, CheckIdentity, CheckBank, CheckTsp, CheckParty, CheckConsent,
     IterationFails, ReadLength, InsertLog, LookAgain, Serve, databaseVars
<1>4. QED
  BY <1>1, <1>2, <1>3 DEF OpenBankingApiNext

\* Ids and records of consents keep their form.
LEMMA ConsentsKeepForm ==
  ASSUME ApiInv, OpenBankingApiNext
  PROVE  /\ DOMAIN bankConsents' \subseteq [tuple : Tuples, created : Nat]
         /\ \A i \in DOMAIN bankConsents' : "active" \in DOMAIN bankConsents'[i]
<1>1. /\ DOMAIN bankConsents \subseteq [tuple : Tuples, created : Nat]
      /\ \A i \in DOMAIN bankConsents : "active" \in DOMAIN bankConsents[i]
  BY DEF ApiInv, DatabaseOK
<1>2. CASE bankConsents' = bankConsents
  BY <1>1, <1>2
<1>3. ASSUME NEW i \in DOMAIN bankConsents, RevokeConsent(i)
      PROVE  /\ DOMAIN bankConsents' = DOMAIN bankConsents
             /\ \A j \in DOMAIN bankConsents : DOMAIN bankConsents'[j] = DOMAIN bankConsents[j]
  BY <1>3 DEF RevokeConsent
<1>4. ASSUME NEW s \in Slots, InsertConsent(s)
      PROVE  /\ DOMAIN bankConsents' \subseteq [tuple : Tuples, created : Nat]
             /\ \A i \in DOMAIN bankConsents' : "active" \in DOMAIN bankConsents'[i]
  <2> DEFINE r == request[s]
             id == ConsentId(r.tuple, r.now)
  <2>1. r.at = "insert consent" /\ bankConsents' = InsertedConsent(bankConsents, id, r.duration)
    BY <1>4 DEF InsertConsent
  <2>2. Shape(r) /\ r # Idle
    BY <2>1, IdleIsNoPhase DEF ApiInv, RequestsOK
  <2>3. id \in [tuple : Tuples, created : Nat]
    BY <2>1, <2>2 DEF Shape, ConsentId
  <2> HIDE DEF id
  <2>4. /\ DOMAIN bankConsents' = DOMAIN bankConsents \cup {id}
        /\ \A j \in DOMAIN bankConsents' :
             bankConsents'[j] = IF j = id THEN [expires |-> id.created + r.duration,
                                                active |-> TRUE]
                                ELSE bankConsents[j]
    BY <2>1 DEF InsertedConsent
  <2>5. QED
    BY <1>1, <2>3, <2>4
<1>5. QED
  BY <1>1, <1>2, <1>3, <1>4, ConsentStep

\* The tokens are changed by the second search only.
LEMMA TokenStep ==
  ASSUME ApiInv, OpenBankingApiNext
  PROVE  tokens' = tokens \/ \E s \in Slots : LookAgain(s)
<1>1. CASE ShortCall \/ TimePasses
  BY <1>1 DEF ShortCall, TimePasses
<1>2. CASE BeginRequest
  BY <1>2 DEF BeginRequest, BeginGrant, BeginEvaluate, BeginBankCall, Begin
<1>3. CASE ContinueRequest
  BY <1>3 DEF ContinueRequest, InsertConsent, CheckIdentity, CheckBank, CheckTsp, CheckParty,
     CheckConsent, IterationFails, ReadLength, InsertLog, Serve
<1>4. QED
  BY <1>1, <1>2, <1>3 DEF OpenBankingApiNext

\* A token that is issued is earned: it takes over the facts of its request.
LEMMA IssuedTokens ==
  ASSUME ApiInv, NEW s \in Slots, LookAgain(s), NEW token \in tokens'
  PROVE  \/ token \in tokens
         \/ /\ token.tuple = request[s].tuple /\ token.tuple \in Tuples
            /\ Conditions \subseteq token.facts
            /\ token.names = {} => "revoked" \in token.facts
            /\ Logged(token.tuple, auditLogs)
<1> DEFINE r == request[s]
<1>1. /\ r.at = "look" /\ r # Idle /\ Shape(r) /\ Earned(r, facts[s])
      /\ Findable(r, facts[s], bankConsents) /\ Logged(r.tuple, auditLogs)
  <2>1. r.at = "look"
    BY DEF LookAgain
  <2>2. QED
    BY <2>1, IdleIsNoPhase DEF ApiInv, RequestsOK
<1>2. r.tuple \in Tuples /\ Conditions \subseteq facts[s]
  BY <1>1 DEF Shape, Earned
<1>3. CASE \E i : tokens' = tokens \cup {Token(r.tuple, {i}, facts[s])}
  BY <1>1, <1>2, <1>3 DEF Token
<1>4. CASE tokens' = tokens
  BY <1>4
<1>5. CASE Unseen(r) = {} /\ tokens' = tokens \cup {Token(r.tuple, {}, facts[s])}
  <2>1. "revoked" \in facts[s]
    BY <1>1, <1>5 DEF Findable, Unseen, ActiveConsents
  <2>2. QED
    BY <1>1, <1>2, <1>5, <2>1 DEF Token
<1>6. QED
  BY <1>3, <1>4, <1>5 DEF LookAgain

\* Every token stays earned.
LEMMA TokensStayEarned ==
  ASSUME ApiInv, OpenBankingApiNext
  PROVE  TokensAreEarned' /\ \A token \in tokens' : token.tuple \in Tuples
<1>1. SUFFICES ASSUME NEW token \in tokens'
               PROVE  /\ token.tuple \in Tuples
                      /\ {"identity", "bank", "tsp", "consent"} \subseteq token.facts
                      /\ token.names = {} => "revoked" \in token.facts
                      /\ Logged(token.tuple, auditLogs')
  BY DEF TokensAreEarned, Logged
<1>2. /\ token.tuple \in Tuples
      /\ Conditions \subseteq token.facts
      /\ token.names = {} => "revoked" \in token.facts
      /\ Logged(token.tuple, auditLogs)
  <2>1. CASE token \in tokens
    BY <2>1 DEF ApiInv, DatabaseOK, TokensAreEarned, Logged, Conditions
  <2>2. CASE token \notin tokens
    <3>1. PICK s \in Slots : LookAgain(s)
      BY <2>2, TokenStep
    <3>2. QED
      BY <2>2, <3>1, IssuedTokens
  <2>3. QED
    BY <2>1, <2>2
<1>3. QED
  BY <1>2, LogGrows DEF Conditions

\* The slots are those there are, and the clock counts.
LEMMA SlotsAndClock ==
  ASSUME ApiInv, OpenBankingApiNext
  PROVE  DOMAIN request' = Slots /\ second' \in Nat /\ second' >= second
<1>1. DOMAIN request = Slots /\ second \in Nat
  BY DEF ApiInv, DatabaseOK
<1>2. CASE ShortCall \/ TimePasses
  BY <1>1, <1>2 DEF ShortCall, TimePasses, RegisterIdentity, VerifyIdentity,
     RegisterOrganization, ApproveOrganization, RevokeConsent, Tick
<1>3. CASE BeginRequest
  <2>1. ASSUME NEW s \in Slots, NEW STATE r, Begin(s, r)
        PROVE  DOMAIN request' = Slots /\ second' = second
    BY <1>1, <2>1 DEF Begin, databaseVars
  <2>2. DOMAIN request' = Slots /\ second' = second
    BY <1>3, <2>1 DEF BeginRequest, BeginGrant, BeginEvaluate, BeginBankCall
  <2>3. QED
    BY <1>1, <2>2
<1>4. CASE ContinueRequest
  <2>1. ASSUME NEW s \in Slots, NEW STATE r, Goto(s, r) PROVE DOMAIN request' = Slots
    BY <1>1, <2>1 DEF Goto
  <2>2. DOMAIN request' = Slots
    BY <1>4, <2>1 DEF ContinueRequest, InsertConsent, CheckIdentity, CheckBank, CheckTsp,
       CheckParty, CheckConsent, IterationFails, ReadLength, InsertLog, LookAgain, Serve
  <2>3. second' = second
    BY <1>4 DEF ContinueRequest, InsertConsent, CheckIdentity, CheckBank, CheckTsp,
       CheckParty, CheckConsent, IterationFails, ReadLength, InsertLog, LookAgain, Serve,
       databaseVars
  <2>4. QED
    BY <1>1, <2>2, <2>3
<1>5. QED
  BY <1>2, <1>3, <1>4 DEF OpenBankingApiNext

\* Every step keeps the invariant.
LEMMA NextApiInv == ApiInv /\ OpenBankingApiNext => ApiInv'
<1>1. SUFFICES ASSUME ApiInv, OpenBankingApiNext PROVE ApiInv'
  OBVIOUS
<1>2. DatabaseOK' /\ TokensAreEarned'
  BY <1>1, LogGrows, ConsentsKeepForm, TokensStayEarned, SlotsAndClock DEF DatabaseOK
<1>3. Observe
  BY <1>1 DEF OpenBankingApiNext
<1>4. Observed'
  BY <1>3, FactsGrow DEF Observed
<1>5. ASSUME NEW s \in Slots
      PROVE  /\ Shape(request'[s]) /\ Earned(request'[s], facts'[s])
             /\ Findable(request'[s], facts'[s], bankConsents')
  <2>1. CASE request'[s] = Idle
    BY <2>1, IdleIsFree
  <2>2. CASE request[s] = Idle /\ Begun(request'[s])
    BY <2>2, BegunIsFree
  <2>3. CASE request'[s] # Idle /\ Continued(s)
    <3>1. /\ facts[s] \subseteq facts'[s]
          /\ \/ ActiveConsents(request'[s].tuple, bankConsents)
                  \subseteq ActiveConsents(request'[s].tuple, bankConsents')
             \/ "revoked" \in facts'[s]
      BY <1>3, <2>3, FactsGrow DEF Continued
    <3>2. QED
      BY <2>3, <3>1, CarriedStays DEF Continued
  <2>4. QED
    BY <1>1, <2>1, <2>2, <2>3, AllCarried DEF Carried
<1>6. RequestsOK'
  BY <1>1, <1>5, LookIsLogged DEF RequestsOK
<1>7. QED
  BY <1>2, <1>4, <1>6 DEF ApiInv

LEMMA ApiInvHolds == ApiSpec => []ApiInv
<1>1. ApiInv /\ UNCHANGED apiVars => ApiInv'
  BY DEF apiVars, ApiInv, DatabaseOK, Observed, RequestsOK, TokensAreEarned
<1>2. QED
  BY <1>1, InitApiInv, NextApiInv, PTL DEF ApiSpec

\* Access is given, as a token or as data, only on conditions that held while it was
\* decided, however the requests of all threads interleave (evaluate_access and
\* _verify_authorization).
THEOREM AccessMustBeEarned == ApiSpec => []AccessIsEarned
<1>1. ApiInv => AccessIsEarned
  BY DEF ApiInv, RequestsOK, Earned, AccessIsEarned, ServedWhileLive
<1>2. QED
  BY <1>1, ApiInvHolds, PTL
-----------------------------------------------------------------------------
\* A grant in progress is one that was in progress, or it begins now.
LEMMA GrantsInProgress ==
  ASSUME ApiInv, OpenBankingApiNext, NEW s \in Slots, request'[s].at = "insert consent"
  PROVE  request'[s] = request[s] \/ request'[s].now = second
<1>1. DOMAIN request = Slots
  BY DEF ApiInv, DatabaseOK
<1>2. ASSUME NEW p \in Slots, NEW STATE r, request' = [request EXCEPT ![p] = r],
             r.at = "insert consent" => r.now = second
      PROVE  request'[s] = request[s] \/ request'[s].now = second
  BY <1>1, <1>2
<1>3. CASE ShortCall \/ TimePasses
  BY <1>3 DEF ShortCall, TimePasses
<1>4. CASE BeginRequest
  <2>1. ASSUME NEW p \in Slots, NEW STATE r, Begin(p, r),
               r.at = "insert consent" => r.now = second
        PROVE  request'[s] = request[s] \/ request'[s].now = second
    BY <1>2, <2>1 DEF Begin
  <2>2. ASSUME NEW p \in Slots, NEW t \in Tuples, NEW d \in Durations, BeginGrant(p, t, d)
        PROVE  request'[s] = request[s] \/ request'[s].now = second
    BY <2>1, <2>2 DEF BeginGrant
  <2>3. ASSUME NEW p \in Slots, NEW t \in Tuples, BeginEvaluate(p, t)
        PROVE  request'[s] = request[s] \/ request'[s].now = second
    BY <2>1, <2>3 DEF BeginEvaluate
  <2>4. ASSUME NEW p \in Slots, NEW token \in tokens, BeginBankCall(p, token)
        PROVE  request'[s] = request[s] \/ request'[s].now = second
    BY <2>1, <2>4 DEF BeginBankCall, Iterating
  <2>5. QED
    BY <1>4, <2>2, <2>3, <2>4 DEF BeginRequest
<1>5. CASE ContinueRequest
  <2>1. ASSUME NEW p \in Slots, NEW STATE r, Goto(p, r), r.at # "insert consent"
        PROVE  request'[s] = request[s] \/ request'[s].now = second
    BY <1>2, <2>1 DEF Goto
  <2>2. PICK p \in Slots :
          \/ InsertConsent(p) \/ CheckIdentity(p) \/ CheckBank(p) \/ CheckTsp(p)
          \/ CheckConsent(p) \/ IterationFails(p) \/ ReadLength(p) \/ InsertLog(p)
          \/ LookAgain(p) \/ Serve(p)
    BY <1>5 DEF ContinueRequest
  <2>3. Idle.at # "insert consent"
    BY IdleIsNoPhase
  <2>4. CASE InsertConsent(p) \/ IterationFails(p) \/ Serve(p)
    BY <2>1, <2>3, <2>4 DEF InsertConsent, IterationFails, Serve
  <2>5. CASE CheckIdentity(p) \/ CheckBank(p) \/ CheckTsp(p)
    BY <2>1, <2>5 DEF CheckIdentity, CheckBank, CheckTsp, CheckParty, Phase, Iterating, Decided
  <2>6. ASSUME request[p].at \in Searching, NEW i
        PROVE  [request[p] EXCEPT !.seen = @ \cup {i.created}].at # "insert consent"
    <3>1. DOMAIN request[p] = {"at", "kind", "tuple", "began", "now", "size", "seen"}
      BY <2>6 DEF ApiInv, RequestsOK, Shape
    <3>2. QED
      BY <2>6, <3>1 DEF Searching
  <2>7. CASE CheckConsent(p)
    <3>1. request[p].at \in Searching
      BY <2>7 DEF CheckConsent, Searching
    <3>2. /\ Phase(request[p], "served").at # "insert consent"
          /\ Decided(request[p], TRUE).at # "insert consent"
          /\ Decided(request[p], FALSE).at # "insert consent"
      BY DEF Phase, Decided
    <3>3. QED
      BY <2>1, <2>6, <2>7, <3>1, <3>2 DEF CheckConsent
  <2>8. CASE ReadLength(p)
    BY <2>1, <2>8 DEF ReadLength
  <2>9. CASE InsertLog(p)
    BY <2>1, <2>3, <2>9 DEF InsertLog, Iterating
  <2>10. CASE LookAgain(p)
    <3>1. request[p].at \in Searching
      BY <2>10 DEF LookAgain, Searching
    <3>2. QED
      BY <2>1, <2>3, <2>6, <2>10, <3>1 DEF LookAgain
  <2>11. QED
    BY <2>2, <2>4, <2>5, <2>7, <2>8, <2>9, <2>10
<1>6. QED
  BY <1>3, <1>4, <1>5 DEF OpenBankingApiNext

\* What is before a moment is before any later one.
LEMMA BeforeStays ==
  ASSUME NEW a \in Nat, NEW b \in Nat, NEW c \in Nat, a < b, c >= b
  PROVE  a < c /\ a # b
OBVIOUS

\* A buried consent stays buried in every step.
LEMMA BuriedStays ==
  ASSUME ApiInv, OpenBankingApiNext, NEW i \in DOMAIN bankConsents, Buried(i)
  PROVE  Buried(i)'
<1>1. /\ i.created < second /\ ~ bankConsents[i].active
      /\ \A s \in Slots : ~ /\ request[s].at = "insert consent"
                            /\ ConsentId(request[s].tuple, request[s].now) = i
      /\ i.created \in Nat /\ second \in Nat
      /\ "active" \in DOMAIN bankConsents[i]
  BY DEF Buried, ApiInv, DatabaseOK
<1>2. i \in DOMAIN bankConsents' /\ ~ bankConsents'[i].active
  <2>1. CASE bankConsents' = bankConsents
    BY <1>1, <2>1
  <2>2. ASSUME NEW j \in DOMAIN bankConsents, RevokeConsent(j)
        PROVE  i \in DOMAIN bankConsents' /\ ~ bankConsents'[i].active
    BY <1>1, <2>2 DEF RevokeConsent
  <2>3. ASSUME NEW s \in Slots, InsertConsent(s)
        PROVE  i \in DOMAIN bankConsents' /\ ~ bankConsents'[i].active
    <3>1. ConsentId(request[s].tuple, request[s].now) # i
      BY <1>1, <2>3 DEF InsertConsent
    <3>2. QED
      BY <1>1, <2>3, <3>1 DEF InsertConsent, InsertedConsent
  <2>4. QED
    BY <2>1, <2>2, <2>3, ConsentStep
<1>3. i.created < second'
  <2>1. second' \in Nat /\ second' >= second
    BY SlotsAndClock
  <2>2. i.created \in Nat /\ second \in Nat /\ i.created < second
    BY <1>1
  <2>3. QED
    BY <2>1, <2>2, BeforeStays
<1>4. ASSUME NEW s \in Slots, request'[s].at = "insert consent"
      PROVE  ConsentId(request'[s].tuple, request'[s].now) # i
  <2>1. CASE request'[s] = request[s]
    BY <1>1, <1>4, <2>1
  <2>2. CASE request'[s].now = second
    <3>1. ConsentId(request'[s].tuple, request'[s].now).created = second
      BY <2>2 DEF ConsentId
    <3>2. i.created \in Nat /\ second \in Nat /\ i.created < second /\ second >= second
      <4>1. i.created \in Nat /\ second \in Nat /\ i.created < second
        BY <1>1
      <4>2. QED
        BY <4>1
    <3>3. i.created # second
      BY <3>2, BeforeStays
    <3>4. QED
      BY <3>1, <3>3
  <2>3. QED
    BY <1>4, <2>1, <2>2, GrantsInProgress
<1>5. QED
  BY <1>2, <1>3, <1>4 DEF Buried

\* A consent revoked in an earlier second is never in force again, for any number of
\* grants, revocations and threads (grant_consent, revoke_consent).
THEOREM RevocationsAreFinal == ApiSpec => RevocationsStick
<1>1. ApiInv /\ [OpenBankingApiNext]_apiVars
        => [\A i \in DOMAIN bankConsents : Buried(i) => Buried(i)']_apiVars
  BY BuriedStays
<1>2. QED
  BY <1>1, ApiInvHolds, PTL DEF ApiSpec, RevocationsStick
-----------------------------------------------------------------------------
(***************************************************************************)
(* The ids of the audit log.  Counted from the oldest, the n-th newest of L    *)
(* records is at position L - n + 1, and stays there.  Its id is a length read   *)
(* after its request began and before it was inserted, plus one.                 *)
(***************************************************************************)
Inserting(r) == r.at = "insert log"

InTime(r, length) ==
  r # Idle => /\ r.began <= length
              /\ Inserting(r) => r.began < r.number /\ r.number <= length + 1

IdsFit(logs) ==
  \A n \in DOMAIN logs : logs[n].began < logs[n].id /\ logs[n].id <= Len(logs) - n + 1

LogInv == /\ \A s \in Slots : InTime(request[s], Len(auditLogs))
          /\ IdsFit(auditLogs)

\* Every request stays in time, by the length before the step.
LEMMA RequestsStayInTime ==
  ASSUME ApiInv, LogInv, OpenBankingApiNext, NEW s \in Slots
  PROVE  InTime(request'[s], Len(auditLogs))
<1> DEFINE length == Len(auditLogs)
<1>1. /\ DOMAIN request = Slots /\ length \in Nat
      /\ \A p \in Slots : InTime(request[p], length) /\ Shape(request[p])
  BY DEF ApiInv, DatabaseOK, LogInv, RequestsOK
<1> HIDE DEF length
<1>2. ASSUME NEW p \in Slots, NEW STATE r, request' = [request EXCEPT ![p] = r],
             InTime(r, length)
      PROVE  InTime(request'[s], length)
  BY <1>1, <1>2
<1>3. CASE ShortCall \/ TimePasses
  <2>1. request' = request
    BY <1>3 DEF ShortCall, TimePasses
  <2>2. QED
    BY <1>1, <2>1 DEF length
<1>4. CASE BeginRequest
  <2>1. ASSUME NEW p \in Slots, NEW STATE r, Begin(p, r), r.began = 0 \/ r.began = length,
               ~ Inserting(r)
        PROVE  InTime(request'[s], length)
    <3>1. InTime(r, length)
      BY <1>1, <2>1 DEF InTime
    <3>2. QED
      BY <1>2, <2>1, <3>1 DEF Begin
  <2>2. ASSUME NEW p \in Slots, NEW t \in Tuples, NEW d \in Durations, BeginGrant(p, t, d)
        PROVE  InTime(request'[s], length)
    BY <2>1, <2>2 DEF BeginGrant, Inserting
  <2>3. ASSUME NEW p \in Slots, NEW t \in Tuples, BeginEvaluate(p, t)
        PROVE  InTime(request'[s], length)
    BY <2>1, <2>3 DEF BeginEvaluate, length, Inserting
  <2>4. ASSUME NEW p \in Slots, NEW token \in tokens, BeginBankCall(p, token)
        PROVE  InTime(request'[s], length)
    BY <2>1, <2>4 DEF BeginBankCall, Iterating, length, Inserting
  <2>5. QED
    BY <1>4, <2>2, <2>3, <2>4 DEF BeginRequest, length
<1>5. CASE ContinueRequest
  <2>1. PICK p \in Slots :
          \/ InsertConsent(p) \/ CheckIdentity(p) \/ CheckBank(p) \/ CheckTsp(p)
          \/ CheckConsent(p) \/ IterationFails(p) \/ ReadLength(p) \/ InsertLog(p)
          \/ LookAgain(p) \/ Serve(p)
    BY <1>5 DEF ContinueRequest
  <2> DEFINE q == request[p]
  <2>2. q # Idle => q.began \in Nat /\ q.began <= length
    BY <1>1 DEF InTime, Shape
  <2>3. ASSUME NEW STATE r, Goto(p, r),
               \/ r = Idle
               \/ q # Idle /\ r.began = q.began /\ ~ Inserting(r)
        PROVE  InTime(request'[s], length)
    <3>1. InTime(r, length)
      BY <2>2, <2>3 DEF InTime
    <3>2. QED
      BY <1>2, <2>3, <3>1 DEF Goto
  <2>4. CASE InsertConsent(p) \/ IterationFails(p) \/ Serve(p)
    BY <2>3, <2>4 DEF InsertConsent, IterationFails, Serve, length
  <2>5. CASE CheckIdentity(p) \/ CheckBank(p) \/ CheckTsp(p)
    <3>1. q # Idle
      BY <2>5 DEF CheckIdentity, CheckBank, CheckTsp
    <3>2. /\ Phase(q, "bank").began = q.began /\ Phase(q, "tsp").began = q.began
          /\ ~ Inserting(Phase(q, "bank")) /\ ~ Inserting(Phase(q, "tsp"))
          /\ ~ Inserting(Iterating(q, "consent")) /\ Iterating(q, "consent").began = q.began
          /\ ~ Inserting(Decided(q, FALSE)) /\ Decided(q, FALSE).began = q.began
      BY DEF Phase, Iterating, Decided, Inserting
    <3>3. \/ Goto(p, Phase(q, "bank")) \/ Goto(p, Phase(q, "tsp"))
          \/ Goto(p, Iterating(q, "consent")) \/ Goto(p, Decided(q, FALSE))
      BY <2>5 DEF CheckIdentity, CheckBank, CheckTsp, CheckParty
    <3>4. QED
      BY <2>3, <3>1, <3>2, <3>3 DEF length
  <2>6. ASSUME q.at \in Searching, NEW i
        PROVE  /\ q # Idle
               /\ ~ Inserting([q EXCEPT !.seen = @ \cup {i.created}])
               /\ [q EXCEPT !.seen = @ \cup {i.created}].began = q.began
    <3>1. DOMAIN q = {"at", "kind", "tuple", "began", "now", "size", "seen"}
      BY <1>1, <2>6 DEF Shape
    <3>2. QED
      BY <2>6, <3>1, IdleIsNoPhase DEF Searching, Inserting
  <2>7. CASE CheckConsent(p)
    <3>1. q.at \in Searching /\ q # Idle
      BY <2>7, IdleIsNoPhase DEF CheckConsent, Searching
    <3>2. /\ ~ Inserting(Phase(q, "served")) /\ Phase(q, "served").began = q.began
          /\ ~ Inserting(Decided(q, TRUE)) /\ Decided(q, TRUE).began = q.began
          /\ ~ Inserting(Decided(q, FALSE)) /\ Decided(q, FALSE).began = q.began
      BY DEF Phase, Decided, Inserting
    <3>3. ASSUME NEW i, Goto(p, [q EXCEPT !.seen = @ \cup {i.created}])
          PROVE  InTime(request'[s], length)
      <4>1. /\ ~ Inserting([q EXCEPT !.seen = @ \cup {i.created}])
            /\ [q EXCEPT !.seen = @ \cup {i.created}].began = q.began
        BY <2>6, <3>1
      <4>2. QED
        BY <2>3, <3>1, <3>3, <4>1
    <3>4. CASE Goto(p, Phase(q, "served"))
      BY <2>3, <3>1, <3>2, <3>4 DEF length
    <3>5. CASE Goto(p, Decided(q, TRUE)) \/ Goto(p, Decided(q, FALSE))
      BY <2>3, <3>1, <3>2, <3>5 DEF length
    <3>6. \/ \E i : Goto(p, [q EXCEPT !.seen = @ \cup {i.created}])
          \/ Goto(p, Phase(q, "served")) \/ Goto(p, Decided(q, TRUE))
          \/ Goto(p, Decided(q, FALSE))
      <4>1. CASE Goto(p, Decided(q, FALSE))
        BY <4>1
      <4>2. CASE \E i \in DOMAIN bankConsents :
                   Goto(p, IF ~ Matches(q, i) THEN [q EXCEPT !.seen = @ \cup {i.created}]
                           ELSE IF q.kind = "bank" THEN Phase(q, "served")
                           ELSE Decided(q, TRUE))
        <5>1. PICK i \in DOMAIN bankConsents :
                     Goto(p, IF ~ Matches(q, i) THEN [q EXCEPT !.seen = @ \cup {i.created}]
                             ELSE IF q.kind = "bank" THEN Phase(q, "served")
                             ELSE Decided(q, TRUE))
          BY <4>2
        <5>2. CASE ~ Matches(q, i)
          BY <5>1, <5>2
        <5>3. CASE Matches(q, i)
          BY <5>1, <5>3
        <5>4. QED
          BY <5>2, <5>3
      <4>3. QED
        BY <2>7, <4>1, <4>2 DEF CheckConsent
    <3>7. QED
      BY <3>3, <3>4, <3>5, <3>6 DEF length
  <2>8. CASE ReadLength(p)
    <3> DEFINE r == [at |-> "insert log", kind |-> q.kind, tuple |-> q.tuple,
                     began |-> q.began, granted |-> q.granted, number |-> length + 1]
    <3>1. q # Idle /\ Goto(p, r)
      BY <2>8, IdleIsNoPhase DEF ReadLength, length
    <3>2. r.began = q.began /\ r.number = length + 1
      OBVIOUS
    <3> HIDE DEF r
    <3>3. InTime(r, length)
      BY <1>1, <2>2, <3>1, <3>2 DEF InTime
    <3>4. QED
      BY <1>2, <3>1, <3>3 DEF Goto, length
  <2>9. CASE InsertLog(p)
    <3>1. q # Idle
      BY <2>9, IdleIsNoPhase DEF InsertLog
    <3>2. ~ Inserting(Iterating(q, "look")) /\ Iterating(q, "look").began = q.began
      BY DEF Iterating, Inserting
    <3>3. Goto(p, Iterating(q, "look")) \/ Goto(p, Idle)
      BY <2>9 DEF InsertLog
    <3>4. QED
      BY <2>3, <3>1, <3>2, <3>3 DEF length
  <2>10. CASE LookAgain(p)
    <3>1. q.at \in Searching
      BY <2>10 DEF LookAgain, Searching
    <3>2. Goto(p, Idle) \/ \E i : Goto(p, [q EXCEPT !.seen = @ \cup {i.created}])
      BY <2>10 DEF LookAgain
    <3>3. QED
      BY <2>3, <2>6, <3>1, <3>2 DEF length
  <2>11. QED
    BY <2>1, <2>4, <2>5, <2>7, <2>8, <2>9, <2>10
<1>6. QED
  BY <1>3, <1>4, <1>5 DEF OpenBankingApiNext, length

\* The log changes by the insertion of a record only.
LEMMA LogStep ==
  ASSUME ApiInv, OpenBankingApiNext
  PROVE  auditLogs' = auditLogs \/ \E s \in Slots : InsertLog(s)
<1>1. CASE ShortCall \/ TimePasses
  BY <1>1 DEF ShortCall, TimePasses, RegisterIdentity, VerifyIdentity,
     RegisterOrganization, ApproveOrganization, RevokeConsent, Tick
<1>2. CASE BeginRequest
  BY <1>2 DEF BeginRequest, BeginGrant, BeginEvaluate, BeginBankCall, Begin, databaseVars
<1>3. CASE ContinueRequest
  BY <1>3 DEF ContinueRequest, InsertConsent, CheckIdentity, CheckBank, CheckTsp,
     CheckParty, CheckConsent, IterationFails, ReadLength, LookAgain, Serve, databaseVars
<1>4. QED
  BY <1>1, <1>2, <1>3 DEF OpenBankingApiNext

\* A record that fits the log goes to its front, and the others still fit.
LEMMA PrependFits ==
  ASSUME NEW L \in Seq(AuditRecord), NEW x \in AuditRecord, IdsFit(L),
         x.began < x.id, x.id <= Len(L) + 1
  PROVE  IdsFit(<<x>> \o L) /\ Len(<<x>> \o L) = Len(L) + 1
<1> DEFINE M == <<x>> \o L
<1>1. <<x>> \in Seq(AuditRecord) /\ Len(<<x>>) = 1 /\ <<x>>[1] = x
  OBVIOUS
<1>2. Len(M) = Len(L) + 1 /\ DOMAIN M = 1..Len(M) /\ Len(L) \in Nat /\ DOMAIN L = 1..Len(L)
  BY <1>1
<1>3. ASSUME NEW n \in DOMAIN M
      PROVE  M[n].began < M[n].id /\ M[n].id <= Len(M) - n + 1
  <2>1. CASE n = 1
    <3>1. M[n] = x
      BY <2>1, <1>1, <1>2
    <3>2. Len(M) - n + 1 = Len(L) + 1
      BY <2>1, <1>2
    <3>3. QED
      BY <3>1, <3>2
  <2>2. CASE n # 1
    <3>1. n - 1 \in DOMAIN L /\ M[n] = L[n - 1]
      BY <2>2, <1>1, <1>2
    <3>2. Len(L) - (n - 1) + 1 = Len(M) - n + 1
      BY <1>2
    <3>3. L[n - 1].began < L[n - 1].id /\ L[n - 1].id <= Len(L) - (n - 1) + 1
      BY <3>1 DEF IdsFit
    <3>4. QED
      BY <3>1, <3>2, <3>3
  <2>3. QED
    BY <2>1, <2>2
<1>4. QED
  BY <1>2, <1>3 DEF IdsFit

\* Every step keeps the ids fitting.
LEMMA NextLogInv == ApiInv /\ LogInv /\ OpenBankingApiNext => LogInv'
<1>1. SUFFICES ASSUME ApiInv, LogInv, OpenBankingApiNext PROVE LogInv'
  OBVIOUS
<1>2. auditLogs \in Seq(AuditRecord) /\ Len(auditLogs) \in Nat /\ IdsFit(auditLogs)
  BY <1>1 DEF ApiInv, DatabaseOK, LogInv
<1>3. IdsFit(auditLogs') /\ Len(auditLogs') \in {Len(auditLogs), Len(auditLogs) + 1}
  <2>1. CASE auditLogs' = auditLogs
    BY <1>2, <2>1
  <2>2. ASSUME NEW s \in Slots, InsertLog(s)
        PROVE  IdsFit(auditLogs') /\ Len(auditLogs') = Len(auditLogs) + 1
    <3> DEFINE r == request[s]
               x == [id |-> r.number, tuple |-> r.tuple, granted |-> r.granted,
                     began |-> r.began]
    <3>1. x \in AuditRecord /\ auditLogs' = <<x>> \o auditLogs
      BY <1>1, <2>2, InsertedRecord
    <3>2. r.at = "insert log" /\ r # Idle
      BY <2>2, IdleIsNoPhase DEF InsertLog
    <3>3. x.began < x.id /\ x.id <= Len(auditLogs) + 1
      BY <1>1, <3>2 DEF LogInv, InTime, Inserting
    <3> HIDE DEF x
    <3>4. QED
      BY <1>2, <3>1, <3>3, PrependFits
  <2>3. QED
    BY <1>1, <1>2, <2>1, <2>2, LogStep
<1>4. ASSUME NEW s \in Slots PROVE InTime(request'[s], Len(auditLogs'))
  <2>1. InTime(request'[s], Len(auditLogs))
    BY <1>1, RequestsStayInTime
  <2>2. request'[s] # Idle => request'[s].began \in Nat
    BY <1>1, NextApiInv DEF ApiInv, RequestsOK, Shape
  <2>3. Inserting(request'[s]) => request'[s].number \in Nat
    BY <1>1, NextApiInv DEF ApiInv, RequestsOK, Shape, Inserting
  <2>4. QED
    BY <1>2, <1>3, <2>1, <2>2, <2>3 DEF InTime
<1>5. QED
  BY <1>3, <1>4 DEF LogInv

\* Records of one id are of requests that overlapped, for any number of threads: the
\* later had begun when the earlier was not inserted yet (log_audit_event).
THEOREM LogIdsClashSeldom == ApiSpec => []LogIdsClashOnlyInOverlap
<1>1. OpenBankingApiInit => LogInv
  BY DEF OpenBankingApiInit, LogInv, InTime, IdsFit
<1>2. ApiInv /\ LogInv /\ UNCHANGED apiVars => LogInv'
  BY DEF apiVars, LogInv
<1>3. ApiInv /\ LogInv => LogIdsClashOnlyInOverlap
  <2>1. SUFFICES ASSUME ApiInv, LogInv, NEW m \in DOMAIN auditLogs, NEW n \in DOMAIN auditLogs,
                        auditLogs[m].id = auditLogs[n].id
                 PROVE  auditLogs[m].began <= Len(auditLogs) - n
    BY DEF LogIdsClashOnlyInOverlap
  <2>2. /\ auditLogs \in Seq(AuditRecord) /\ Len(auditLogs) \in Nat
        /\ auditLogs[m] \in AuditRecord /\ auditLogs[n] \in AuditRecord
        /\ n \in Nat
    BY <2>1 DEF ApiInv, DatabaseOK
  <2>3. auditLogs[m].began \in Nat /\ auditLogs[m].id \in Nat
    BY <2>2 DEF AuditRecord
  <2>4. auditLogs[m].began < auditLogs[m].id /\ auditLogs[n].id <= Len(auditLogs) - n + 1
    BY <2>1 DEF LogInv, IdsFit
  <2>5. QED
    BY <2>1, <2>2, <2>3, <2>4
<1>4. QED
  BY <1>1, <1>2, <1>3, ApiInvHolds, NextLogInv, PTL DEF ApiSpec
=============================================================================
