----------------------- MODULE TransactionIntentsProofs -----------------------
(***************************************************************************)
(* Proofs about TransactionIntents, for any number of keys, sessions and     *)
(* concurrent updaters; the refinement of the reference store is for one     *)
(* updater at a time, the discipline the code leaves to its callers.         *)
(***************************************************************************)
EXTENDS TransactionIntents, TLAPS

Busy(c) == c.at \in {"inserted", "updated"}

Rows == Store!Records

\* The table stays a function from keys to records.
LEMMA PutType ==
  ASSUME NEW f, NEW k \in Keys, NEW v \in Rows,
         DOMAIN f \subseteq Keys, f \in [DOMAIN f -> Rows]
  PROVE  /\ DOMAIN Store!Put(f, k, v) \subseteq Keys
         /\ Store!Put(f, k, v) \in [DOMAIN Store!Put(f, k, v) -> Rows]
BY DEF Store!Put

\* A transition leaves a status of the machine and a well-typed hash.
LEMMA MoveType ==
  ASSUME NEW row \in Rows, NEW next \in Store!Statuses, NEW tx \in TxHashes \cup {NoTx}
  PROVE  /\ [row EXCEPT !.status = next, !.txHash = tx] \in Rows
         /\ Store!HashAfter(row, tx) \in TxHashes \cup {NoTx}
BY DEF Rows, Store!Records, Store!HashAfter

\* The initial state satisfies the invariant.
LEMMA InitIntentInv == Init => IntentInv
BY DEF Init, Store!Init, IntentInv, TypeOK, Store!TypeOK, Idle, AnswersMatchTheTable,
       SubmittedHasHash, IdsAreUnique, CallsAreSound, WritesAreExclusive, Calls

\* Steps that leave the table alone keep the parts that are about it only.
LEMMA QuietTable ==
  ASSUME IntentInv, UNCHANGED rows
  PROVE  /\ Store!TypeOK'
         /\ SubmittedHasHash'
         /\ IdsAreUnique'
BY DEF IntentInv, TypeOK, Store!TypeOK, SubmittedHasHash, IdsAreUnique

\* What holds of one session's call, given the table t.
CallOK(c, t) ==
  LET k == c.key
      row == c.row
      submitted == row.status \in Store!OnChainStatuses
  IN  /\ c \in Calls \cup {Idle}
      /\ c.at \in {"insert", "inserted"} => (submitted => row.txHash # NoTx)
      /\ c.at = "inserted" => SameId(k) \cap DOMAIN t = {}
      /\ c.at = "reselect" => SameId(k) \cap DOMAIN t # {}
      /\ c.at \in {"update", "updated"} => k \in DOMAIN t
      /\ c.at = "update" => (submitted => Store!HashAfter(t[k], row.txHash) # NoTx)
      /\ c.at = "updated" => /\ row.requestHash = t[k].requestHash
                             /\ t[k].txHash # NoTx => row.txHash # NoTx
                             /\ submitted => row.txHash # NoTx
      /\ c.at = "answered" =>
           /\ c.outcome = "record" => k \in DOMAIN t /\ t[k].requestHash = row.requestHash
           /\ c.outcome = "conflict" => k \in DOMAIN t /\ t[k].requestHash # row.requestHash
           /\ c.outcome = "error" => \E j \in DOMAIN t : j # k /\ IntentId[j] = IntentId[k]

\* The invariant, session by session.
LEMMA InvByCall ==
  IntentInv <=> /\ Store!TypeOK
                /\ session \in [Sessions -> Calls \cup {Idle}]
                /\ SubmittedHasHash
                /\ IdsAreUnique
                /\ \A w \in Sessions : CallOK(session[w], rows)
                /\ WritesAreExclusive
<1>1. ASSUME session \in [Sessions -> Calls \cup {Idle}]
      PROVE  (AnswersMatchTheTable /\ CallsAreSound)
               <=> \A w \in Sessions : CallOK(session[w], rows)
  BY <1>1 DEF AnswersMatchTheTable, CallsAreSound, CallOK
<1> QED BY <1>1 DEF IntentInv, TypeOK

\* A step that leaves the table alone and moves one session to a sound call
\* keeps the invariant, if a new uncommitted row is nobody else's.
LEMMA QuietStep ==
  ASSUME IntentInv, NEW w \in Sessions, NEW c, Goto(w, c), UNCHANGED rows, CallOK(c, rows),
         \/ ~ Busy(c)
         \/ /\ c.at = "inserted" /\ ~ Blocked(w, SameId(c.key))
         \/ /\ c.at = "updated" /\ ~ Blocked(w, {c.key})
  PROVE  IntentInv'
<1>1. session \in [Sessions -> Calls \cup {Idle}] /\ \A v \in Sessions : CallOK(session[v], rows)
  BY InvByCall
<1>2. c \in Calls \cup {Idle}
  BY DEF CallOK
<1>3. session' = [session EXCEPT ![w] = c] /\ rows' = rows
  BY DEF Goto
<1>4. session' \in [Sessions -> Calls \cup {Idle}]
  BY <1>1, <1>2, <1>3
<1>5. \A v \in Sessions : CallOK(session[v], rows)'
  <2> SUFFICES ASSUME NEW v \in Sessions PROVE CallOK(session'[v], rows)
    BY <1>3 DEF CallOK, SameId
  <2> QED BY <1>1, <1>3
<1>6. WritesAreExclusive'
  <2> SUFFICES ASSUME NEW u \in Sessions, NEW v \in Sessions, u # v,
                      Busy(session'[u]), Busy(session'[v])
               PROVE  /\ session'[u].key # session'[v].key
                      /\ (session'[u].at = "inserted" /\ session'[v].at = "inserted")
                           => IntentId[session'[u].key] # IntentId[session'[v].key]
    BY DEF WritesAreExclusive, Busy
  <2>0. \A x \in Sessions : Busy(session[x]) => session[x].key \in Keys
    BY <1>1 DEF Calls, Idle, Busy
  <2>00. Busy(c) => c.key \in Keys
    BY <1>2 DEF Calls, Idle, Busy
  <2>1. CASE u # w /\ v # w
    <3>1. session'[u] = session[u] /\ session'[v] = session[v]
      BY <2>1, <1>1, <1>3
    <3> QED BY <3>1 DEF IntentInv, WritesAreExclusive, Busy
  <2>2. ASSUME NEW x \in Sessions, x # w, Busy(session[x]), Busy(c)
        PROVE  c.key # session[x].key
               /\ (c.at = "inserted" => IntentId[session[x].key] # IntentId[c.key])
    BY <2>2, <2>0, <2>00 DEF Blocked, SameId, Busy
  <2>3. CASE u = w
    <3>1. session'[u] = c /\ session'[v] = session[v]
      BY <2>3, <1>1, <1>3
    <3> QED BY <3>1, <2>2, <2>3
  <2>4. CASE v = w
    <3>1. session'[v] = c /\ session'[u] = session[u]
      BY <2>4, <1>1, <1>3
    <3> QED BY <3>1, <2>2, <2>4
  <2> QED BY <2>1, <2>3, <2>4
<1>7. AnswersMatchTheTable' /\ CallsAreSound'
  BY <1>5 DEF AnswersMatchTheTable, CallsAreSound, CallOK, SameId
<1> QED BY <1>4, <1>6, <1>7, QuietTable DEF IntentInv, TypeOK

\* The idle session is sound in every table.
LEMMA IdleOK == \A t : CallOK(Idle, t) /\ ~ Busy(Idle)
BY DEF CallOK, Idle, Busy

\* A request for a new intent.
LEMMA StartCreateStep ==
  ASSUME IntentInv, NEW w \in Sessions, NEW k \in Keys, NEW row \in Rows, StartCreate(w, k, row)
  PROVE  IntentInv'
<1>1. UNCHANGED rows
  BY DEF StartCreate
<1>2. CASE k \in DOMAIN rows
  <2> DEFINE c == Call("answered", k, row, Compare(row, k))
  <2>1. Goto(w, c)
    BY <1>2 DEF StartCreate, Answer
  <2>2. CallOK(c, rows) /\ ~ Busy(c)
    BY <1>2 DEF CallOK, Call, Calls, Compare, Phases, Outcomes, Busy, Rows
  <2> HIDE DEF c
  <2> QED BY <1>1, <2>1, <2>2, QuietStep
<1>3. CASE k \notin DOMAIN rows
  <2> DEFINE c == Call("insert", k, row, "none")
  <2>1. Goto(w, c)
    BY <1>3 DEF StartCreate
  <2>2. row.status \in Store!OnChainStatuses => row.txHash # NoTx
    BY <1>3 DEF StartCreate
  <2>3. c.at = "insert" /\ c.row = row /\ c \in Calls
    BY DEF Call, Calls, Phases, Outcomes, Rows
  <2> HIDE DEF c
  <2>4. CallOK(c, rows) /\ ~ Busy(c)
    BY <2>2, <2>3 DEF CallOK, Busy
  <2> QED BY <1>1, <2>1, <2>4, QuietStep
<1> QED BY <1>2, <1>3

\* What the invariant says of the call of one session.
LEMMA CallFacts ==
  ASSUME IntentInv, NEW w \in Sessions
  PROVE  /\ CallOK(session[w], rows)
         /\ session[w].at # "idle" => session[w] \in Calls
BY DEF IntentInv, TypeOK, AnswersMatchTheTable, CallsAreSound, CallOK, Idle

\* The flush of the new row.
LEMMA InsertStep ==
  ASSUME IntentInv, NEW w \in Sessions, Insert(w)
  PROVE  IntentInv'
<1>1. UNCHANGED rows /\ session[w].at = "insert"
  BY DEF Insert
<1>2. session[w] \in Calls /\ CallOK(session[w], rows)
  BY <1>1, CallFacts
<1>3. PICK at \in {"inserted", "reselect"} :
        /\ Goto(w, [session[w] EXCEPT !.at = at])
        /\ at = "inserted" <=> SameId(session[w].key) \cap DOMAIN rows = {}
  BY DEF Insert
<1> DEFINE c == [session[w] EXCEPT !.at = at]
<1>4. c.at = at /\ c.key = session[w].key /\ c.row = session[w].row /\ c \in Calls
  BY <1>2 DEF Calls, Phases
<1>5. Goto(w, c)
  BY <1>3
<1> HIDE DEF c
<1>6. CallOK(c, rows)
  BY <1>1, <1>2, <1>3, <1>4 DEF CallOK
<1>7. Busy(c) => c.at = "inserted" /\ ~ Blocked(w, SameId(c.key))
  BY <1>4 DEF Insert, Busy
<1> QED BY <1>1, <1>5, <1>6, <1>7, QuietStep

\* The answer after a lost race for the insert.
LEMMA ReselectStep ==
  ASSUME IntentInv, NEW w \in Sessions, Reselect(w)
  PROVE  IntentInv'
<1>1. UNCHANGED rows /\ session[w].at = "reselect"
  BY DEF Reselect
<1>2. session[w] \in Calls /\ CallOK(session[w], rows)
  BY <1>1, CallFacts
<1>3. PICK k, row, outcome :
        /\ k = session[w].key /\ row = session[w].row
        /\ outcome = (IF k \in DOMAIN rows THEN Compare(row, k) ELSE "error")
        /\ Goto(w, Call("answered", k, row, outcome))
  BY DEF Reselect, Answer
<1> DEFINE c == Call("answered", k, row, outcome)
<1>4. outcome \in Outcomes
  BY <1>3 DEF Compare, Outcomes
<1>5. c \in Calls /\ ~ Busy(c)
  BY <1>2, <1>3, <1>4 DEF Call, Calls, Phases, Busy
<1>6. k \notin DOMAIN rows => \E j \in DOMAIN rows : j # k /\ IntentId[j] = IntentId[k]
  BY <1>1, <1>2, <1>3 DEF CallOK, SameId
<1>7. CallOK(c, rows)
  BY <1>3, <1>5, <1>6 DEF CallOK, Call, Compare
<1>8. Goto(w, c)
  BY <1>3
<1> HIDE DEF c
<1> QED BY <1>1, <1>5, <1>7, <1>8, QuietStep

\* The read and the checks of a transition.
LEMMA StartTransitionStep ==
  ASSUME IntentInv, NEW w \in Sessions, NEW k \in Keys, NEW next \in Store!Statuses,
         NEW tx \in TxHashes \cup {NoTx}, StartTransition(w, k, next, tx)
  PROVE  IntentInv'
<1>1. UNCHANGED rows /\ k \in DOMAIN rows /\ Store!MayMove(rows[k], next, tx)
  BY DEF StartTransition
<1>2. rows[k] \in Rows
  BY <1>1 DEF IntentInv, TypeOK, Store!TypeOK, Rows
<1> DEFINE set == IF tx = rows[k].txHash THEN NoTx ELSE tx
           row == [rows[k] EXCEPT !.status = next, !.txHash = set]
           c == Call("update", k, row, "none")
<1>3. row \in Rows /\ row.status = next /\ row.txHash = set
  BY <1>2, MoveType DEF Rows, Store!Records
<1>4. next \in Store!OnChainStatuses => Store!HashAfter(rows[k], set) # NoTx
  BY <1>1 DEF Store!MayMove, Store!HashAfter
<1>5. Goto(w, c)
  BY DEF StartTransition
<1>6. c.at = "update" /\ c.key = k /\ c.row = row /\ c.outcome = "none"
  BY DEF Call
<1> HIDE DEF row, set
<1>7. c \in Calls
  BY <1>3 DEF Call, Calls, Phases, Outcomes, Rows
<1> HIDE DEF c
<1>8. CallOK(c, rows) /\ ~ Busy(c)
  BY <1>1, <1>3, <1>4, <1>6, <1>7 DEF CallOK, Busy
<1> QED BY <1>1, <1>5, <1>8, QuietStep

\* The UPDATE statement.
LEMMA UpdateStep ==
  ASSUME IntentInv, NEW w \in Sessions, Update(w)
  PROVE  IntentInv'
<1>1. UNCHANGED rows /\ session[w].at = "update" /\ ~ Blocked(w, {session[w].key})
  BY DEF Update
<1>2. session[w] \in Calls /\ CallOK(session[w], rows)
  BY <1>1, CallFacts
<1>3. PICK old, new, hash, row :
        /\ old = rows[session[w].key] /\ new = session[w].row
        /\ hash = Store!HashAfter(old, new.txHash)
        /\ row = [old EXCEPT !.status = new.status, !.txHash = hash]
        /\ Goto(w, [session[w] EXCEPT !.at = "updated", !.row = row])
  BY DEF Update
<1>4. session[w].key \in DOMAIN rows /\ new \in Rows /\ old \in Rows
  BY <1>1, <1>2, <1>3 DEF CallOK, Calls, IntentInv, TypeOK, Store!TypeOK, Rows
<1>5. hash \in TxHashes \cup {NoTx} /\ (old.txHash # NoTx => hash # NoTx)
  BY <1>3, <1>4 DEF Store!HashAfter, Rows, Store!Records
<1>6. /\ row \in Rows /\ row.requestHash = old.requestHash
      /\ row.status = new.status /\ row.txHash = hash
  BY <1>3, <1>4, <1>5 DEF Rows, Store!Records
<1> DEFINE c == [session[w] EXCEPT !.at = "updated", !.row = row]
<1>7. c \in Calls /\ c.at = "updated" /\ c.key = session[w].key /\ c.row = row
  BY <1>2, <1>6 DEF Calls, Phases, Rows
<1>8. Goto(w, c)
  BY <1>3
<1> HIDE DEF c
<1>9. CallOK(c, rows)
  BY <1>1, <1>2, <1>3, <1>4, <1>5, <1>6, <1>7 DEF CallOK
<1> QED BY <1>1, <1>7, <1>8, <1>9, QuietStep

\* The caller takes its answer, or the call is rolled back.
LEMMA EndStep ==
  ASSUME IntentInv, NEW w \in Sessions, Return(w) \/ Abort(w)
  PROVE  IntentInv'
<1>1. UNCHANGED rows /\ Goto(w, Idle)
  BY DEF Return, Abort
<1> QED BY <1>1, IdleOK, QuietStep

\* A commit keeps the calls of the other sessions sound: their keys are not the
\* committed one, or they meet a row that replaced the one they had read.
LEMMA OthersAtCommit ==
  ASSUME IntentInv, NEW w \in Sessions, NEW v \in Sessions, v # w, Busy(session[w])
  PROVE  CallOK(session[v], Store!Put(rows, session[w].key, session[w].row))
<1> DEFINE k == session[w].key
           row == session[w].row
           t == Store!Put(rows, k, row)
           c == session[v]
<1>1. /\ CallOK(session[w], rows) /\ CallOK(c, rows)
      /\ session[w] \in Calls /\ k \in Keys
      /\ c \in Calls \cup {Idle}
      /\ c.at \in {"inserted", "updated"} => c.key # k
      /\ c.at = "inserted" /\ session[w].at = "inserted" => IntentId[c.key] # IntentId[k]
  BY CallFacts DEF IntentInv, WritesAreExclusive, TypeOK, Busy, Calls, CallOK
<1>2. CASE c = Idle
  BY <1>2, IdleOK
<1>3. CASE c \in Calls
  <2>1. c.key \in Keys
    BY <1>3 DEF Calls
  <2>2. /\ DOMAIN t = DOMAIN rows \cup {k} /\ t[k] = row
        /\ \A j \in DOMAIN rows : j # k => t[j] = rows[j]
    BY DEF Store!Put
  <2>3. k \in DOMAIN rows => /\ session[w].at = "updated"
                             /\ row.requestHash = rows[k].requestHash
                             /\ rows[k].txHash # NoTx => row.txHash # NoTx
    BY <1>1 DEF CallOK, Busy, SameId
  <2>4. session[w].at = "updated" => k \in DOMAIN rows
    BY <1>1 DEF CallOK
  <2> HIDE DEF t, k, row
  <2>5. c.at = "inserted" => SameId(c.key) \cap DOMAIN t = {}
    <3> SUFFICES ASSUME c.at = "inserted" PROVE SameId(c.key) \cap DOMAIN t = {}
      OBVIOUS
    <3>1. SameId(c.key) \cap DOMAIN rows = {}
      BY <1>1 DEF CallOK
    <3>2. k \in DOMAIN rows \/ IntentId[c.key] # IntentId[k]
      BY <1>1, <2>4 DEF Busy
    <3> QED BY <3>1, <3>2, <2>2 DEF SameId
  <2>6. c.at = "reselect" => SameId(c.key) \cap DOMAIN t # {}
    BY <1>1, <2>2 DEF CallOK
  <2>7. c.at = "update" /\ c.row.status \in Store!OnChainStatuses
          => Store!HashAfter(t[c.key], c.row.txHash) # NoTx
    <3> SUFFICES ASSUME c.at = "update", c.row.status \in Store!OnChainStatuses
                 PROVE  Store!HashAfter(t[c.key], c.row.txHash) # NoTx
      OBVIOUS
    <3>1. c.key \in DOMAIN rows /\ Store!HashAfter(rows[c.key], c.row.txHash) # NoTx
      BY <1>1 DEF CallOK
    <3>2. CASE c.key = k
      BY <3>1, <3>2, <2>2, <2>3 DEF Store!HashAfter
    <3>3. CASE c.key # k
      BY <3>1, <3>3, <2>2
    <3> QED BY <3>2, <3>3
  <2>8. /\ c.at \in {"update", "updated"} => c.key \in DOMAIN t
        /\ c.at = "updated" => t[c.key] = rows[c.key]
    BY <1>1, <2>2 DEF CallOK
  <2>9. \A j \in DOMAIN rows : t[j].requestHash = rows[j].requestHash
    BY <2>2, <2>3
  <2>10. c.at = "answered" =>
           /\ c.outcome = "record" => c.key \in DOMAIN t /\ t[c.key].requestHash = c.row.requestHash
           /\ c.outcome = "conflict" => c.key \in DOMAIN t /\ t[c.key].requestHash # c.row.requestHash
           /\ c.outcome = "error" => \E j \in DOMAIN t : j # c.key /\ IntentId[j] = IntentId[c.key]
    BY <1>1, <2>2, <2>9 DEF CallOK
  <2>11. /\ c.at \in {"insert", "inserted"} =>
              (c.row.status \in Store!OnChainStatuses => c.row.txHash # NoTx)
         /\ c.at = "updated" => /\ c.row.requestHash = t[c.key].requestHash
                                /\ t[c.key].txHash # NoTx => c.row.txHash # NoTx
                                /\ c.row.status \in Store!OnChainStatuses => c.row.txHash # NoTx
    BY <1>1, <2>8 DEF CallOK
  <2> HIDE DEF c
  <2>12. CallOK(c, t)
    BY <1>1, <2>5, <2>6, <2>7, <2>8, <2>10, <2>11 DEF CallOK
  <2> QED BY <2>12 DEF c, t, k, row
<1> QED BY <1>1, <1>2, <1>3

\* The commit of a new or changed row.
LEMMA CommitStep ==
  ASSUME IntentInv, NEW w \in Sessions, Commit(w)
  PROVE  IntentInv'
<1>1. PICK k, row, c :
        /\ k = session[w].key /\ row = session[w].row
        /\ rows' = Store!Put(rows, k, row)
        /\ session' = [session EXCEPT ![w] = c]
        /\ \/ session[w].at = "inserted" /\ c = Call("answered", k, row, "record")
           \/ session[w].at = "updated" /\ c = Idle
  BY DEF Commit, Answer, Goto
<1>2. session[w] \in Calls /\ CallOK(session[w], rows) /\ Busy(session[w])
  BY <1>1, CallFacts DEF Busy
<1>3. k \in Keys /\ row \in Rows
  BY <1>1, <1>2 DEF Calls, Rows
<1>4. /\ DOMAIN rows \subseteq Keys /\ rows \in [DOMAIN rows -> Rows]
      /\ session \in [Sessions -> Calls \cup {Idle}]
  BY DEF IntentInv, TypeOK, Store!TypeOK, Rows
<1>5. /\ DOMAIN rows' = DOMAIN rows \cup {k} /\ rows'[k] = row
      /\ \A j \in DOMAIN rows : j # k => rows'[j] = rows[j]
  BY <1>1 DEF Store!Put
<1>6. Store!TypeOK'
  BY <1>1, <1>3, <1>4, PutType DEF Store!TypeOK, Rows
<1>7. SubmittedHasHash'
  <2>1. row.status \in Store!OnChainStatuses => row.txHash # NoTx
    BY <1>1, <1>2 DEF CallOK
  <2> QED BY <2>1, <1>5 DEF SubmittedHasHash, IntentInv
<1>8. IdsAreUnique'
  <2>1. k \in DOMAIN rows \/ \A j \in DOMAIN rows : IntentId[j] # IntentId[k]
    BY <1>1, <1>2, <1>4 DEF CallOK, SameId
  <2> QED BY <2>1, <1>5 DEF IdsAreUnique, IntentInv
<1>9. CallOK(c, rows') /\ ~ Busy(c)
  <2>1. CASE c = Idle
    BY <2>1, IdleOK
  <2>2. CASE c = Call("answered", k, row, "record")
    BY <2>2, <1>3, <1>5 DEF CallOK, Call, Calls, Phases, Outcomes, Busy, Rows
  <2> QED BY <1>1, <2>1, <2>2
<1>10. session' \in [Sessions -> Calls \cup {Idle}]
  BY <1>1, <1>4, <1>9 DEF CallOK
<1>11. \A v \in Sessions : CallOK(session'[v], rows')
  BY <1>1, <1>2, <1>4, <1>9, OthersAtCommit
<1>12. AnswersMatchTheTable' /\ CallsAreSound'
  BY <1>11 DEF AnswersMatchTheTable, CallsAreSound, CallOK, SameId
<1>13. WritesAreExclusive'
  <2>1. \A v \in Sessions : v # w => session'[v] = session[v]
    BY <1>1, <1>4
  <2>2. session'[w] = c
    BY <1>1, <1>4
  <2> QED BY <1>9, <2>1, <2>2 DEF WritesAreExclusive, Busy, IntentInv
<1> QED BY <1>6, <1>7, <1>8, <1>10, <1>12, <1>13 DEF IntentInv, TypeOK

\* Every step keeps the invariant.
LEMMA NextIntentInv == IntentsAssumption /\ IntentInv /\ [Next]_vars => IntentInv'
<1> SUFFICES ASSUME IntentsAssumption, IntentInv, [Next]_vars PROVE IntentInv'
  OBVIOUS
<1>1. CASE UNCHANGED vars
  BY <1>1 DEF vars, IntentInv, TypeOK, Store!TypeOK, AnswersMatchTheTable, SubmittedHasHash,
              IdsAreUnique, CallsAreSound, WritesAreExclusive, SameId
<1>2. ASSUME NEW w \in Sessions, NEW k \in Keys, NEW h \in RequestHashes, NEW s \in Initial,
             StartCreate(w, k, [requestHash |-> h, status |-> s.status, txHash |-> s.txHash])
      PROVE  IntentInv'
  <2>1. [requestHash |-> h, status |-> s.status, txHash |-> s.txHash] \in Rows
    BY DEF IntentsAssumption, Starts, Rows, Store!Records
  <2> QED BY <1>2, <2>1, StartCreateStep
<1>3. ASSUME NEW w \in Sessions, NEW k \in Keys, NEW next \in Store!Statuses,
             NEW tx \in TxHashes \cup {NoTx}, StartTransition(w, k, next, tx)
      PROVE  IntentInv'
  BY <1>3, StartTransitionStep
<1>4. ASSUME NEW w \in Sessions, Proceed(w) \/ Abort(w)
      PROVE  IntentInv'
  BY <1>4, InsertStep, ReselectStep, UpdateStep, CommitStep, EndStep DEF Proceed
<1> QED BY <1>1, <1>2, <1>3, <1>4 DEF Next

\* In every behaviour, with any number of sessions that create and move intents
\* at once, the table and the calls fit together: answers are true, submitted
\* intents keep a hash, primary keys stay unique.
THEOREM IntentsSafe == Spec => []IntentInv
<1>1. Init => IntentInv
  BY InitIntentInv
<1>2. IntentInv /\ [Next]_vars => IntentInv'
  BY IntentsAssumption, NextIntentInv
<1> QED BY <1>1, <1>2, PTL DEF Spec

\* Consequences by name: what a caller is told is true of the table, and an
\* intent that was submitted has its transaction hash.
THEOREM AnswersAndHashes == Spec => [](AnswersMatchTheTable /\ SubmittedHasHash)
<1>1. IntentInv => AnswersMatchTheTable /\ SubmittedHasHash
  BY DEF IntentInv
<1> QED BY <1>1, IntentsSafe, PTL

\* The same of the hashes alone: no interleaving of updaters leaves a submitted or
\* later intent without its transaction hash.
THEOREM SubmittedIntentsHaveHashes == Spec => []SubmittedHasHash
<1>1. IntentInv => SubmittedHasHash
  BY DEF IntentInv
<1> QED BY <1>1, IntentsSafe, PTL
-----------------------------------------------------------------------------
(***************************************************************************)
(* The refinement.  Two updaters that read one intent before either writes   *)
(* it break it, as the run IntentRace shows; with one updater the row it      *)
(* read is the row it writes, since an insert never meets an existing row.   *)
(***************************************************************************)
OneUpdater == \A v, w \in Updaters : v = w

\* The writer creates intents as requested, with no hash.
CreatesRequested == \A s \in Initial : s = [status |-> "requested", txHash |-> NoTx]

\* Row new is row old after one legal transition.
Moved(old, new) ==
  \E tx \in TxHashes \cup {NoTx} :
    /\ Store!MayMove(old, new.status, tx)
    /\ new = [old EXCEPT !.status = new.status, !.txHash = Store!HashAfter(old, tx)]

\* A call's pending write is legal for the table t as it is now.
Legal(c, w, t) ==
  /\ c.at \in {"insert", "inserted"} =>
       c.row.status = "requested" /\ c.row.txHash = NoTx
  /\ c.at \in {"update", "updated"} => w \in Updaters
  /\ c.at = "update" => Store!MayMove(t[c.key], c.row.status, c.row.txHash)
  /\ c.at = "updated" => Moved(t[c.key], c.row)

LegalInv == \A w \in Sessions : Legal(session[w], w, rows)

\* The initial state has no pending write.
LEMMA InitLegal == Init => LegalInv
BY DEF Init, LegalInv, Legal, Idle

\* A step that leaves the table alone need only be legal for its own session.
LEMMA QuietLegal ==
  ASSUME IntentInv, LegalInv, NEW w \in Sessions, NEW c, Goto(w, c), UNCHANGED rows,
         Legal(c, w, rows)
  PROVE  LegalInv'
<1>1. session \in [Sessions -> Calls \cup {Idle}]
  BY DEF IntentInv, TypeOK
<1>2. SUFFICES ASSUME NEW v \in Sessions PROVE Legal(session'[v], v, rows')
  BY DEF LegalInv
<1>3. rows' = rows /\ session'[v] = (IF v = w THEN c ELSE session[v])
  BY <1>1 DEF Goto
<1> QED BY <1>3 DEF LegalInv

\* The start of a create.
LEMMA StartCreateLegal ==
  ASSUME IntentInv, LegalInv, NEW w \in Sessions, NEW k \in Keys, NEW row,
         row.status = "requested", row.txHash = NoTx, StartCreate(w, k, row)
  PROVE  LegalInv'
<1>1. PICK c : /\ Goto(w, c) /\ UNCHANGED rows
               /\ \/ c = Call("answered", k, row, Compare(row, k))
                  \/ c = Call("insert", k, row, "none")
  BY DEF StartCreate, Answer
<1>2. Legal(c, w, rows)
  BY <1>1 DEF Legal, Call
<1> QED BY <1>1, <1>2, QuietLegal

\* The start of a transition: its checks make it legal.
LEMMA StartTransitionLegal ==
  ASSUME IntentInv, LegalInv, NEW w \in Sessions, w \in Updaters, NEW k \in Keys,
         NEW next \in Store!Statuses, NEW tx \in TxHashes \cup {NoTx},
         StartTransition(w, k, next, tx)
  PROVE  LegalInv'
<1>1. rows[k] \in Rows /\ UNCHANGED rows /\ Store!MayMove(rows[k], next, tx)
  BY DEF StartTransition, IntentInv, TypeOK, Store!TypeOK, Rows
<1> DEFINE set == IF tx = rows[k].txHash THEN NoTx ELSE tx
           row == [rows[k] EXCEPT !.status = next, !.txHash = set]
           c == Call("update", k, row, "none")
<1>2. row.status = next /\ row.txHash = set
  BY <1>1 DEF Rows, Store!Records
<1>3. Goto(w, c)
  BY DEF StartTransition
<1>4. Store!MayMove(rows[k], next, set)
  BY <1>1 DEF Store!MayMove, Store!HashAfter
<1>5. c.at = "update" /\ c.key = k /\ c.row = row
  BY DEF Call
<1> HIDE DEF c, row
<1>6. Legal(c, w, rows)
  BY <1>2, <1>4, <1>5 DEF Legal
<1> QED BY <1>1, <1>3, <1>6, QuietLegal

\* The later steps of a call that leave the table alone.
LEMMA QuietProceedLegal ==
  ASSUME IntentInv, LegalInv, NEW w \in Sessions,
         Insert(w) \/ Reselect(w) \/ Update(w) \/ Return(w) \/ Abort(w)
  PROVE  LegalInv'
<1>1. Legal(session[w], w, rows)
  BY DEF LegalInv
<1>2. CASE Insert(w)
  <2>1. PICK at \in {"inserted", "reselect"} : Goto(w, [session[w] EXCEPT !.at = at])
    BY <1>2 DEF Insert
  <2> DEFINE c == [session[w] EXCEPT !.at = at]
  <2>2. session[w] \in Calls /\ session[w].at = "insert" /\ UNCHANGED rows
    BY <1>2, CallFacts DEF Insert
  <2>3. c.at = at /\ c.row = session[w].row
    BY <2>2 DEF Calls
  <2>4. Goto(w, c)
    BY <2>1
  <2> HIDE DEF c
  <2>5. Legal(c, w, rows)
    BY <1>1, <2>2, <2>3 DEF Legal
  <2> QED BY <2>2, <2>4, <2>5, QuietLegal
<1>3. CASE Reselect(w)
  <2>1. PICK c : Goto(w, c) /\ c.at = "answered"
    BY <1>3 DEF Reselect, Answer, Call
  <2>2. Legal(c, w, rows) /\ UNCHANGED rows
    BY <1>3, <2>1 DEF Legal, Reselect
  <2> QED BY <2>1, <2>2, QuietLegal
<1>4. CASE Update(w)
  <2>1. PICK k, old, new, row :
          /\ k = session[w].key /\ old = rows[k] /\ new = session[w].row
          /\ row = [old EXCEPT !.status = new.status, !.txHash = Store!HashAfter(old, new.txHash)]
          /\ Goto(w, [session[w] EXCEPT !.at = "updated", !.row = row])
    BY <1>4 DEF Update
  <2>2. session[w] \in Calls /\ session[w].at = "update" /\ UNCHANGED rows
    BY <1>4, CallFacts DEF Update
  <2>3. new \in Rows /\ old \in Rows
    BY <2>1, <2>2, CallFacts DEF CallOK, Calls, IntentInv, TypeOK, Store!TypeOK, Rows
  <2>4. new.txHash \in TxHashes \cup {NoTx} /\ row.status = new.status
    BY <2>1, <2>3 DEF Rows, Store!Records
  <2>5. Store!MayMove(old, new.status, new.txHash)
    BY <1>1, <2>1, <2>2 DEF Legal
  <2>6. Moved(old, row)
    BY <2>1, <2>4, <2>5 DEF Moved
  <2> DEFINE c == [session[w] EXCEPT !.at = "updated", !.row = row]
  <2>7. c.at = "updated" /\ c.row = row /\ c.key = k
    BY <2>1, <2>2 DEF Calls
  <2>8. Goto(w, c)
    BY <2>1
  <2> HIDE DEF c
  <2>9. Legal(c, w, rows)
    BY <1>1, <2>1, <2>2, <2>6, <2>7 DEF Legal
  <2> QED BY <2>2, <2>8, <2>9, QuietLegal
<1>5. CASE Return(w) \/ Abort(w)
  <2>1. Goto(w, Idle) /\ UNCHANGED rows /\ Legal(Idle, w, rows)
    BY <1>5 DEF Return, Abort, Legal, Idle
  <2> QED BY <2>1, QuietLegal
<1> QED BY <1>2, <1>3, <1>4, <1>5

\* The pending transition of the only updater is about no row that another
\* session is committing.
LEMMA CommitLegal ==
  ASSUME IntentInv, LegalInv, OneUpdater, NEW w \in Sessions, Commit(w)
  PROVE  LegalInv'
<1>1. PICK k, row, c :
        /\ k = session[w].key /\ row = session[w].row
        /\ rows' = Store!Put(rows, k, row)
        /\ session' = [session EXCEPT ![w] = c]
        /\ c \in {Call("answered", k, row, "record"), Idle}
  BY DEF Commit, Answer, Goto
<1>2. session \in [Sessions -> Calls \cup {Idle}]
  BY DEF IntentInv, TypeOK
<1>3. SUFFICES ASSUME NEW v \in Sessions PROVE Legal(session'[v], v, rows')
  BY DEF LegalInv
<1>4. CASE v = w
  <2>1. session'[v] = c
    BY <1>1, <1>2, <1>4
  <2> QED BY <1>1, <2>1 DEF Legal, Call, Idle
<1>5. CASE v # w
  <2>1. session'[v] = session[v] /\ Legal(session[v], v, rows) /\ Legal(session[w], w, rows)
    BY <1>1, <1>2, <1>5 DEF LegalInv
  <2>2. ASSUME session[v].at \in {"update", "updated"}
        PROVE  session[v].key \in DOMAIN rows /\ session[v].key # k
    <3>1. session[v].key \in DOMAIN rows /\ session[v].key \in Keys
      BY <2>2, CallFacts DEF CallOK, Calls
    <3>2. session[w].at = "inserted"
      BY <2>1, <2>2, <1>5 DEF Legal, OneUpdater, Commit
    <3>3. SameId(k) \cap DOMAIN rows = {}
      BY <1>1, <3>2, CallFacts DEF CallOK
    <3> QED BY <3>1, <3>3 DEF SameId
  <2>3. session[v].at \in {"update", "updated"} => rows'[session[v].key] = rows[session[v].key]
    BY <1>1, <2>2 DEF Store!Put
  <2> QED BY <2>1, <2>3 DEF Legal
<1> QED BY <1>4, <1>5

\* Every step keeps the pending writes legal.
LEMMA NextLegal ==
  ASSUME OneUpdater, CreatesRequested, IntentInv, LegalInv, [Next]_vars
  PROVE  LegalInv'
<1>1. CASE UNCHANGED vars
  BY <1>1 DEF vars, LegalInv
<1>2. ASSUME NEW w \in Sessions, NEW k \in Keys, NEW h \in RequestHashes, NEW s \in Initial,
             StartCreate(w, k, [requestHash |-> h, status |-> s.status, txHash |-> s.txHash])
      PROVE  LegalInv'
  <2>1. s.status = "requested" /\ s.txHash = NoTx
    BY DEF CreatesRequested
  <2> QED BY <1>2, <2>1, StartCreateLegal
<1>3. ASSUME NEW w \in Sessions, w \in Updaters, NEW k \in Keys, NEW next \in Store!Statuses,
             NEW tx \in TxHashes \cup {NoTx}, StartTransition(w, k, next, tx)
      PROVE  LegalInv'
  BY <1>3, StartTransitionLegal
<1>4. ASSUME NEW w \in Sessions, Proceed(w) \/ Abort(w)
      PROVE  LegalInv'
  BY <1>4, QuietProceedLegal, CommitLegal DEF Proceed
<1> QED BY <1>1, <1>2, <1>3, <1>4 DEF Next

\* Every step leaves the table alone, or is one create or one transition of the
\* reference store.
LEMMA StepRefines ==
  ASSUME IntentInv, LegalInv, [Next]_vars
  PROVE  [Store!Next]_rows
<1>1. SUFFICES ASSUME NEW w \in Sessions, Commit(w) PROVE Store!Next
  BY ZenonT(40)
  DEF Next, vars, StartCreate, StartTransition, Proceed, Insert, Reselect, Update, Return, Abort
<1>2. PICK k, row : /\ k = session[w].key /\ row = session[w].row
                    /\ rows' = Store!Put(rows, k, row)
  BY <1>1 DEF Commit
<1>3. /\ session[w] \in Calls /\ CallOK(session[w], rows) /\ Legal(session[w], w, rows)
      /\ session[w].at \in {"inserted", "updated"}
  BY <1>1, CallFacts DEF Commit, LegalInv
<1>4. k \in Keys /\ row \in Rows
  BY <1>2, <1>3 DEF Calls, Rows
<1>5. CASE session[w].at = "inserted"
  <2>1. k \notin DOMAIN rows
    BY <1>2, <1>3, <1>4, <1>5 DEF CallOK, SameId
  <2>2. row = [requestHash |-> row.requestHash, status |-> "requested", txHash |-> NoTx]
        /\ row.requestHash \in RequestHashes
    BY <1>2, <1>3, <1>4, <1>5 DEF Legal, Rows, Store!Records
  <2>3. Store!Create(k, row.requestHash)
    BY <1>2, <2>1, <2>2 DEF Store!Create
  <2> QED BY <1>4, <2>2, <2>3 DEF Store!Next
<1>6. CASE session[w].at = "updated"
  <2>1. k \in DOMAIN rows /\ Moved(rows[k], row)
    BY <1>2, <1>3, <1>6 DEF CallOK, Legal
  <2>2. PICK tx \in TxHashes \cup {NoTx} :
          /\ Store!MayMove(rows[k], row.status, tx)
          /\ row = [rows[k] EXCEPT !.status = row.status, !.txHash = Store!HashAfter(rows[k], tx)]
    BY <2>1 DEF Moved
  <2>3. rows \in [DOMAIN rows -> Rows]
    BY DEF IntentInv, TypeOK, Store!TypeOK, Rows
  <2>4. rows' = [rows EXCEPT ![k].status = row.status, ![k].txHash = Store!HashAfter(rows[k], tx)]
    <3>1. rows' = [rows EXCEPT ![k] = row]
      BY <1>2, <2>1, <2>3 DEF Store!Put
    <3> QED BY <3>1, <2>1, <2>2, <2>3 DEF Rows, Store!Records
  <2>5. row.status \in Store!Statuses
    BY <1>4 DEF Rows, Store!Records
  <2> QED BY <1>4, <2>1, <2>2, <2>4, <2>5 DEF Store!Next, Store!Transition
<1> QED BY <1>3, <1>5, <1>6

\* With one updater at a time the database behaves as the in-memory reference
\* store: every commit is one create or one legal transition.
THEOREM ImplementsReferenceStore ==
  ASSUME OneUpdater, CreatesRequested
  PROVE  Spec => ReferenceStore
<1>1. Init => LegalInv /\ Store!Init
  BY InitLegal DEF Init
<1>2. IntentInv /\ LegalInv /\ [Next]_vars => LegalInv'
  BY OneUpdater, CreatesRequested, NextLegal
<1>3. IntentInv /\ LegalInv /\ [Next]_vars => [Store!Next]_rows
  BY StepRefines
<1> QED BY <1>1, <1>2, <1>3, IntentsSafe, PTL DEF Spec, ReferenceStore, Store!Spec
=============================================================================
