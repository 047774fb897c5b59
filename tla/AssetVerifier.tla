----------------------------- MODULE AssetVerifier -----------------------------
(***************************************************************************)
(* The independent verifier (scripts/verify_asset.mjs): one run reads an asset    *)
(* from a node in several calls while the chain goes on, and compares what it       *)
(* read with what the caller expects.  The contract is what AssetLedger promises     *)
(* of it, a block being one step of the ledger.  The asset's identifier and its       *)
(* metadata are fixed at the mint and so a matter of the chain and the code.          *)
(***************************************************************************)
EXTENDS Naturals

CONSTANTS Accounts, AssetIds, NoAccount,
          MaxBlocks   \* bound: blocks

ASSUME AssetVerifierAssumption == NoAccount \notin Accounts /\ MaxBlocks \in Nat

VARIABLES
  holder, lifecycle, vetted, registerOpen,  \* the contract
  height,     \* the block number
  expected,   \* the options: the asset, and the expected owner or NoAccount
  chain,      \* is the node on the expected chain, does the address hold code
  evidence,   \* what was read so far
  since,      \* history: the contract's states from the block of the report on
  ownerRead,  \* history: the asset's status when its owner was read
  result      \* "running", "verified", "mismatch" or "unavailable": the exit code

chainVars == <<holder, lifecycle, vetted, registerOpen, height>>
verifierVars == <<chainVars, expected, chain, evidence, since, ownerRead, result>>

Ledger == INSTANCE AssetLedger WITH open <- registerOpen

\* What a node answers of the asset at the present block.
Owner == holder[expected.asset]
Status == lifecycle[expected.asset]
State == [owner |-> Owner, status |-> Status, vetted |-> vetted]

Reads == {"chainId", "blockNumber", "code", "owner", "status", "identity"}
Unread == [r \in {} |-> 0]
HasRead(R) == R \subseteq DOMAIN evidence

VerifierInit ==
  /\ Ledger!LedgerInit
  /\ expected \in [asset : AssetIds, owner : Accounts \cup {NoAccount}]
  /\ chain \in [right : BOOLEAN, code : BOOLEAN]
  /\ height = 1 /\ since = {}
  /\ evidence = Unread /\ ownerRead = "ACTIVE"
  /\ result = "running"

NextBlock ==
  /\ height < MaxBlocks /\ height' = height + 1
  /\ Ledger!LedgerNext
  /\ UNCHANGED <<expected, chain, evidence, ownerRead, result>>
  /\ since' = IF since = {} THEN {} ELSE since \cup {State'}
-----------------------------------------------------------------------------
(***************************************************************************)
(* The calls of one Promise.all are answered in any order, each by the state   *)
(* at that moment; the next batch waits for all of them.                        *)
(***************************************************************************)
Read(r, value) == /\ result = "running" /\ r \notin DOMAIN evidence
                  /\ evidence' = [x \in DOMAIN evidence \cup {r} |->
                                    IF x = r THEN value ELSE evidence[x]]
                  /\ since' = IF r = "blockNumber" THEN {State} ELSE since
                  /\ ownerRead' = IF r = "owner" THEN lifecycle[expected.asset] ELSE ownerRead
                  /\ UNCHANGED <<chainVars, expected, chain, result>>

GetNetwork == Read("chainId", chain.right)
GetBlockNumber == HasRead({"chainId"}) /\ Read("blockNumber", height)
GetCode == HasRead({"chainId"}) /\ Read("code", chain.code)

\* Asset calls of a contract that is not there fail, and ownerOf of a token that was
\* not minted; the status of such a token reads as active.
\* Faulty variant: the asset is read without waiting for the block number.
EagerAssetCall == HasRead({"chainId"}) /\ chain.code
AssetCall == HasRead({"chainId", "blockNumber", "code"}) /\ chain.code
OwnerOf == AssetCall /\ Owner # NoAccount /\ Read("owner", Owner)
AssetStatus == AssetCall /\ Read("status", Status)
IdentityRegistry ==
  HasRead({"owner", "status"}) /\ Read("identity", evidence["owner"] \in vetted)

\* Any call may fail; the run then ends with exit code 2.
CallFails ==
  /\ result = "running" /\ ~ HasRead(Reads)
  /\ result' = "unavailable"
  /\ UNCHANGED <<chainVars, expected, chain, evidence, since, ownerRead>>

Mismatches ==
  {m \in {"chain_id", "owner"} :
     \/ m = "chain_id" /\ ~ evidence["chainId"]
     \/ m = "owner" /\ expected.owner \notin {NoAccount, evidence["owner"]}}

AssessEvidence ==
  /\ result = "running" /\ HasRead(Reads)
  /\ result' = IF ~ evidence["code"] THEN "unavailable"
               ELSE IF Mismatches = {} THEN "verified" ELSE "mismatch"
  /\ UNCHANGED <<chainVars, expected, chain, evidence, since, ownerRead>>

VerifierNext ==
  \/ NextBlock \/ GetNetwork \/ GetBlockNumber \/ GetCode \/ OwnerOf \/ AssetStatus
  \/ IdentityRegistry \/ CallFails \/ AssessEvidence
-----------------------------------------------------------------------------
(***************************************************************************)
(* Properties.                                                             *)
(***************************************************************************)
Assessed == result \in {"verified", "mismatch"}

\* The block the report names is no later than any of its evidence: each value was
\* the contract's at that block or at a later one, and if no block came meanwhile the
\* report is the contract's state at that block.
EvidenceIsNoOlderThanItsBlock ==
  Assessed => /\ \E s \in since : s.owner = evidence["owner"]
              /\ \E s \in since : s.status = evidence["status"]
              /\ \E s \in since : (evidence["owner"] \in s.vetted) = evidence["identity"]

\* A report that finds the asset revoked or retired stays right about it for ever,
\* and the owner it names, if it was read while the asset was out of service, too.
\* (owner and status are read by separate calls: an asset that was moved and then
\* revoked between them is reported with its former owner.)
OutOfServiceIsFinal ==
  "status" \in DOMAIN evidence /\ evidence["status"] \in {"REVOKED", "RETIRED"} =>
    /\ Ledger!Stage[lifecycle[expected.asset]] >= Ledger!Stage[evidence["status"]]
    /\ "owner" \in DOMAIN evidence /\ ownerRead \in {"REVOKED", "RETIRED"}
         => evidence["owner"] = holder[expected.asset]

\* A report can be relied on: it mixes several blocks, but none before the one it names,
\* and what it says of an asset out of service stays true.
EvidenceStands == EvidenceIsNoOlderThanItsBlock /\ OutOfServiceIsFinal
=============================================================================
