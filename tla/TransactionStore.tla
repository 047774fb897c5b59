--------------------------- MODULE TransactionStore ---------------------------
(***************************************************************************)
(* The transaction-intent state machine and InMemoryTransactionStore, its    *)
(* in-memory reference implementation: one atomic step per call.  It is the  *)
(* specification the durable store is compared with (TransactionIntents).    *)
(* chain_id and contract_address are recorded and never read, and are left   *)
(* out.                                                                     *)
(***************************************************************************)
CONSTANTS
  Keys,           \* idempotency keys
  RequestHashes,  \* fingerprints of requests
  TxHashes,       \* hashes of transactions on the chain
  NoTx            \* no transaction hash yet

VARIABLE records  \* the stored records, a function from the keys in use

Statuses == {"requested", "signed", "submitted", "pending", "confirmed",
             "failed", "reverted", "replaced", "unknown"}

AllowedTransitions ==
  [from \in Statuses |->
     CASE from = "requested" -> {"signed", "failed", "unknown"}
       [] from = "signed" -> {"submitted", "failed", "unknown"}
       [] from = "submitted" -> {"pending", "failed", "replaced", "unknown"}
       [] from = "pending" -> {"confirmed", "failed", "reverted", "replaced", "unknown"}
       [] from = "unknown" -> {"pending", "confirmed", "failed", "replaced"}
       [] OTHER -> {}]

\* The statuses that need a transaction hash.
OnChainStatuses == {"submitted", "pending", "confirmed"}

Records == [requestHash: RequestHashes, status: Statuses, txHash: TxHashes \cup {NoTx}]

\* Function f with key k set to v.
Put(f, k, v) == [j \in DOMAIN f \cup {k} |-> IF j = k THEN v ELSE f[j]]

TypeOK == /\ DOMAIN records \subseteq Keys
          /\ records \in [DOMAIN records -> Records]

Init == records = [k \in {} |-> NoTx]

\* A call with a key that is in use returns the record or is refused: no step.
Create(k, h) ==
  /\ k \notin DOMAIN records
  /\ records' = Put(records, k, [requestHash |-> h, status |-> "requested", txHash |-> NoTx])

\* The hash a transition leaves: the one it brings, if any, else the old one.
HashAfter(record, tx) == IF tx # NoTx THEN tx ELSE record.txHash

\* What a transition checks of the record it has read.
MayMove(record, next, tx) ==
  /\ next \in AllowedTransitions[record.status]
  /\ next \in OnChainStatuses => HashAfter(record, tx) # NoTx

Transition(k, next, tx) ==
  /\ k \in DOMAIN records
  /\ MayMove(records[k], next, tx)
  /\ records' = [records EXCEPT ![k].status = next,
                                ![k].txHash = HashAfter(records[k], tx)]

Next == \E k \in Keys :
          \/ \E h \in RequestHashes : Create(k, h)
          \/ \E next \in Statuses, tx \in TxHashes \cup {NoTx} : Transition(k, next, tx)

Spec == Init /\ [][Next]_records
=============================================================================
