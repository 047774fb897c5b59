------------------------------- MODULE AssetLedger -------------------------------
(***************************************************************************)
(* What SecureAssetPlatform promises about enterprise assets, with neither  *)
(* tokens nor roles nor callbacks: an asset identifier is allocated once,   *)
(* it moves between vetted accounts and only while it is in service, its    *)
(* lifecycle runs one way, and nothing moves while the register is closed.  *)
(***************************************************************************)
EXTENDS Naturals

CONSTANTS Accounts, AssetIds, NoAccount

VARIABLES
  holder,     \* [AssetIds -> the account that holds it, or NoAccount]
  lifecycle,  \* [AssetIds -> the asset's status]
  vetted,     \* the accounts that may receive or give up assets
  open        \* FALSE during an emergency stop

ledgerVars == <<holder, lifecycle, vetted, open>>

\* An asset in a later stage of its life never returns to an earlier one.
Stage == [ACTIVE |-> 0, SUSPENDED |-> 0, REVOKED |-> 1, RETIRED |-> 2]

LedgerInit ==
  /\ holder = [a \in AssetIds |-> NoAccount]
  /\ lifecycle = [a \in AssetIds |-> "ACTIVE"]
  /\ vetted \in SUBSET Accounts
  /\ open = TRUE

Allocate(asset, account) ==
  /\ open
  /\ holder[asset] = NoAccount
  /\ account \in vetted
  /\ holder' = [holder EXCEPT ![asset] = account]
  /\ UNCHANGED <<lifecycle, vetted, open>>

Move(asset, to) ==
  /\ open
  /\ lifecycle[asset] = "ACTIVE"
  /\ {holder[asset], to} \subseteq vetted
  /\ holder' = [holder EXCEPT ![asset] = to]
  /\ UNCHANGED <<lifecycle, vetted, open>>

Advance(asset, status) ==
  /\ open
  /\ holder[asset] # NoAccount
  /\ status # lifecycle[asset]
  /\ Stage[status] >= Stage[lifecycle[asset]]
  /\ lifecycle' = [lifecycle EXCEPT ![asset] = status]
  /\ UNCHANGED <<holder, vetted, open>>

Vet ==
  /\ open
  /\ vetted' \in SUBSET Accounts
  /\ UNCHANGED <<holder, lifecycle, open>>

OpenOrClose ==
  /\ open' = ~open
  /\ UNCHANGED <<holder, lifecycle, vetted>>

LedgerNext ==
  \/ \E asset \in AssetIds, account \in Accounts : Allocate(asset, account)
  \/ \E asset \in AssetIds, to \in Accounts : Move(asset, to)
  \/ \E asset \in AssetIds, status \in DOMAIN Stage : Advance(asset, status)
  \/ Vet
  \/ OpenOrClose

LedgerSpec == LedgerInit /\ [][LedgerNext]_ledgerVars
=============================================================================
