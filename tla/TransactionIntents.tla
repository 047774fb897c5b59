-------------------------- MODULE TransactionIntents --------------------------
(***************************************************************************)
(* The durable transaction intents: SQLAlchemyTransactionIntentWriter and    *)
(* the repository's create_or_get and transition, called by concurrent       *)
(* sessions of one PostgreSQL database.                                     *)
(*                                                                         *)
(* Each session runs one call in one transaction.  A statement is a step:    *)
(* it reads committed rows (READ COMMITTED, the engine's default), waits for *)
(* another session's uncommitted write of the same row or unique key, and    *)
(* becomes visible at the commit.  A key stands for the pair of subject and  *)
(* idempotency key, the unique constraint; IntentId is the primary key the   *)
(* writer derives from it, a hash of "subject:key", in which two pairs may   *)
(* coincide.  Timestamps are left out.                                      *)
(***************************************************************************)
CONSTANTS
  Keys, RequestHashes, TxHashes, NoTx,
  IntentId,    \* [Keys -> the primary keys]
  Sessions,    \* concurrent database sessions
  Updaters,    \* the sessions that call transition; the others only create
  Initial      \* the [status, txHash] pairs that callers create intents with

VARIABLES
  rows,     \* the committed table
  session   \* per session, the call in progress

vars == <<rows, session>>

Store == INSTANCE TransactionStore WITH records <- rows

Starts == [status: Store!Statuses, txHash: TxHashes \cup {NoTx}]

ASSUME IntentsAssumption ==
  /\ NoTx \notin TxHashes
  /\ Updaters \subseteq Sessions
  /\ Initial \subseteq Starts

Phases == {"idle", "insert", "inserted", "reselect", "update", "updated", "answered"}

Outcomes == {"none", "record", "conflict", "error"}

\* The row is the one to write; in phase "update" its txHash is NoTx when the
\* UPDATE leaves the column alone.
Call(at, k, row, outcome) == [at |-> at, key |-> k, row |-> row, outcome |-> outcome]

Calls == [at: Phases \ {"idle"}, key: Keys, row: Store!Records, outcome: Outcomes]

Idle == [at |-> "idle"]

TypeOK == /\ Store!TypeOK
          /\ session \in [Sessions -> Calls \cup {Idle}]

Init == /\ Store!Init
        /\ session = [w \in Sessions |-> Idle]

Goto(w, call) == session' = [session EXCEPT ![w] = call]

\* The answer to a caller whose request finds a row under its key.
Compare(row, k) == IF rows[k].requestHash = row.requestHash THEN "record" ELSE "conflict"

Answer(w, k, row, outcome) == Goto(w, Call("answered", k, row, outcome))

\* Session w looks the key up; only a free key leads to an insert.
StartCreate(w, k, row) ==
  /\ session[w] = Idle
  /\ k \in DOMAIN rows \/ (row.status \in Store!OnChainStatuses => row.txHash # NoTx)
  /\ IF k \in DOMAIN rows THEN Answer(w, k, row, Compare(row, k))
                          ELSE Goto(w, Call("insert", k, row, "none"))
  /\ UNCHANGED rows

\* Faulty variant: the unique constraint covers the subject and the key only.
SameId_NoPrimaryKey(k) == {k}

\* The keys that insert the same primary key (the unique constraint on subject
\* and idempotency key included: one key, one id).
SameId(k) == {j \in Keys : IntentId[j] = IntentId[k]}

\* Another session's uncommitted row stands in the way of w.
Blocked(w, keys) ==
  \E v \in Sessions \ {w} : session[v].at \in {"inserted", "updated"} /\ session[v].key \in keys

\* Faulty variant: an insert that meets an existing intent overwrites it.
Insert_Upsert(w) ==
  /\ session[w].at = "insert"
  /\ ~ Blocked(w, SameId(session[w].key))
  /\ Goto(w, [session[w] EXCEPT !.at = "inserted"])
  /\ UNCHANGED rows

\* The flush inside the savepoint.
Insert(w) ==
  /\ session[w].at = "insert"
  /\ ~ Blocked(w, SameId(session[w].key))
  /\ Goto(w, [session[w] EXCEPT !.at = IF SameId(session[w].key) \cap DOMAIN rows = {}
                                       THEN "inserted" ELSE "reselect"])
  /\ UNCHANGED rows

\* Faulty variant: the row found after a lost race is returned without comparing fingerprints.
Reselect_Trusts(w) ==
  /\ session[w].at = "reselect"
  /\ LET k == session[w].key
     IN  Answer(w, k, session[w].row, IF k \in DOMAIN rows THEN "record" ELSE "error")
  /\ UNCHANGED rows

\* Faulty variant: a conflict on insert retries the insert in a loop.
Reselect_Retries(w) ==
  /\ session[w].at = "reselect"
  /\ Goto(w, [session[w] EXCEPT !.at = "insert"])
  /\ UNCHANGED rows

\* After the unique violation: the row that was in the way, or the error again.
Reselect(w) ==
  /\ session[w].at = "reselect"
  /\ LET k == session[w].key
     IN  Answer(w, k, session[w].row,
                IF k \in DOMAIN rows THEN Compare(session[w].row, k) ELSE "error")
  /\ UNCHANGED rows

\* Session w reads the intent and checks the transition against what it read.
\* The ORM writes the hash only when it differs from the one it loaded.
StartTransition(w, k, next, tx) ==
  /\ session[w] = Idle
  /\ k \in DOMAIN rows
  /\ Store!MayMove(rows[k], next, tx)
  /\ Goto(w, Call("update", k,
                  [rows[k] EXCEPT !.status = next,
                                  !.txHash = IF tx = rows[k].txHash THEN NoTx ELSE tx],
                  "none"))
  /\ UNCHANGED rows

\* UPDATE ... WHERE id: it sets its columns on the row as committed by now.
Update(w) ==
  /\ session[w].at = "update"
  /\ ~ Blocked(w, {session[w].key})
  /\ LET old == rows[session[w].key]
         new == session[w].row
     IN  Goto(w, [session[w] EXCEPT
                    !.at = "updated",
                    !.row = [old EXCEPT !.status = new.status,
                                        !.txHash = Store!HashAfter(old, new.txHash)]])
  /\ UNCHANGED rows

Commit(w) ==
  /\ session[w].at \in {"inserted", "updated"}
  /\ rows' = Store!Put(rows, session[w].key, session[w].row)
  /\ IF session[w].at = "inserted"
     THEN Answer(w, session[w].key, session[w].row, "record")
     ELSE Goto(w, Idle)

Return(w) == /\ session[w].at = "answered"
             /\ Goto(w, Idle)
             /\ UNCHANGED rows

\* The process dies, the connection is lost or the commit fails: rolled back.
Abort(w) == /\ session[w].at \notin {"idle", "answered"}
            /\ Goto(w, Idle)
            /\ UNCHANGED rows

Proceed(w) == Insert(w) \/ Reselect(w) \/ Update(w) \/ Commit(w) \/ Return(w)

Next == \E w \in Sessions :
          \/ \E k \in Keys, h \in RequestHashes, s \in Initial :
               StartCreate(w, k, [requestHash |-> h, status |-> s.status, txHash |-> s.txHash])
          \/ /\ w \in Updaters
             /\ \E k \in Keys, next \in Store!Statuses, tx \in TxHashes \cup {NoTx} :
                  StartTransition(w, k, next, tx)
          \/ Proceed(w)
          \/ Abort(w)

Spec == Init /\ [][Next]_vars

\* A session whose statement can run gets to run it, again and again if others
\* overtake it: PostgreSQL serves the sessions that wait for a row in turn.
FairSpec == Spec /\ \A w \in Sessions : SF_vars(Proceed(w))
-----------------------------------------------------------------------------
(***************************************************************************)
(* Properties.                                                             *)
(***************************************************************************)
\* What create_or_get answers is true of the table when it answers, after a
\* lost race for the insert too: a returned intent is committed with the
\* caller's own fingerprint, a conflict is with a committed intent of another
\* fingerprint, and the error of the insert reaches the caller only when
\* another subject and key share the primary key.
AnswersMatchTheTable ==
  \A w \in Sessions : session[w].at = "answered" =>
    LET k == session[w].key
    IN  /\ session[w].outcome = "record" =>
             k \in DOMAIN rows /\ rows[k].requestHash = session[w].row.requestHash
        /\ session[w].outcome = "conflict" =>
             k \in DOMAIN rows /\ rows[k].requestHash # session[w].row.requestHash
        /\ session[w].outcome = "error" =>
             \E j \in DOMAIN rows : j # k /\ IntentId[j] = IntentId[k]

\* An intent whose status says it was submitted has a transaction hash, however
\* many sessions move it on at once: the hash is checked on the row as read and
\* written to the row as it is.
SubmittedHasHash ==
  \A k \in DOMAIN rows : rows[k].status \in Store!OnChainStatuses => rows[k].txHash # NoTx

\* No two committed intents share a primary key.
IdsAreUnique == \A j, k \in DOMAIN rows : IntentId[j] = IntentId[k] => j = k

\* What the calls in progress know of the table: an insert has its key to
\* itself, a transition has an intent whose hash can only be replaced.
CallsAreSound ==
  \A w \in Sessions :
    LET at == session[w].at
        k == session[w].key
        row == session[w].row
        submitted == row.status \in Store!OnChainStatuses
    IN  /\ at \in {"insert", "inserted"} => (submitted => row.txHash # NoTx)
        /\ at = "inserted" => SameId(k) \cap DOMAIN rows = {}
        /\ at = "reselect" => SameId(k) \cap DOMAIN rows # {}
        /\ at \in {"update", "updated"} => k \in DOMAIN rows
        /\ at = "update" => (submitted => Store!HashAfter(rows[k], row.txHash) # NoTx)
        /\ at = "updated" => /\ row.requestHash = rows[k].requestHash
                             /\ rows[k].txHash # NoTx => row.txHash # NoTx
                             /\ submitted => row.txHash # NoTx

\* An uncommitted row is the only one of its key and, if new, of its id.
WritesAreExclusive ==
  \A v, w \in Sessions :
    /\ v # w
    /\ session[v].at \in {"inserted", "updated"}
    /\ session[w].at \in {"inserted", "updated"}
    => /\ session[v].key # session[w].key
       /\ (session[v].at = "inserted" /\ session[w].at = "inserted")
            => IntentId[session[v].key] # IntentId[session[w].key]

\* The inductive invariant: the table and the calls fit together in every
\* interleaving of the statements of create_or_get and transition.
IntentInv == /\ TypeOK
             /\ AnswersMatchTheTable
             /\ SubmittedHasHash
             /\ IdsAreUnique
             /\ CallsAreSound
             /\ WritesAreExclusive

\* The durable store does what the in-memory reference store does: no intent is
\* replaced or lost, and every change is one legal transition of the committed
\* record.
ReferenceStore == Store!Spec

\* transition_transaction_intent applies one legal transition: no committed
\* intent goes from one status to another that ALLOWED_TRANSITIONS rules out.
TransitionsAreLegal ==
  [][\A k \in DOMAIN rows :
       \/ rows'[k].status = rows[k].status
       \/ rows'[k].status \in Store!AllowedTransitions[rows[k].status]]_vars

\* No call waits for ever on the rows of others.
CallsEnd == \A w \in Sessions : (session[w].at # "idle") ~> (session[w].at = "idle")
=============================================================================
