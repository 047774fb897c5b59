------------------------------ MODULE ServiceProofs ------------------------------
(***************************************************************************)
(* The safety properties of the services that keep no database: the independent   *)
(* verifier, the in-memory projection with its scanner, and the rate limiter.         *)
(***************************************************************************)
EXTENDS AssetVerifier, MemoryProjection, RateLimiter, FiniteSetTheorems,
        WellFoundedInduction, TLAPS

-----------------------------------------------------------------------------
(***************************************************************************)
(* The verifier.  Whatever the accounts, the assets and the number of blocks, a     *)
(* report mixes no evidence from before the block it names, and what it says of an    *)
(* asset out of service stays true.                                                    *)
(***************************************************************************)
VerifierSpec == VerifierInit /\ [][VerifierNext]_verifierVars

Statuses == {"ACTIVE", "SUSPENDED", "REVOKED", "RETIRED"}
OutOfService == {"REVOKED", "RETIRED"}

ContractTypeOK ==
  /\ holder \in [AssetIds -> Accounts \cup {NoAccount}]
  /\ lifecycle \in [AssetIds -> Statuses]
  /\ vetted \subseteq Accounts
  /\ expected.asset \in AssetIds

\* What orders the reads: none of the asset precedes the block number, and from
\* then on the history holds the present state.
ReadsInOrder ==
  /\ DOMAIN evidence \cap {"owner", "status", "identity"} # {}
       => "blockNumber" \in DOMAIN evidence
  /\ "identity" \in DOMAIN evidence => "owner" \in DOMAIN evidence
  /\ "blockNumber" \in DOMAIN evidence => State \in since
  /\ Assessed => HasRead(Reads)

OwnerStands ==
  "owner" \in DOMAIN evidence =>
    /\ \E s \in since : s.owner = evidence["owner"]
    /\ evidence["owner"] # NoAccount
    /\ ownerRead \in Statuses
    /\ Ledger!Stage[lifecycle[expected.asset]] >= Ledger!Stage[ownerRead]
    /\ ownerRead \in OutOfService => evidence["owner"] = holder[expected.asset]

StatusStands ==
  "status" \in DOMAIN evidence =>
    /\ \E s \in since : s.status = evidence["status"]
    /\ evidence["status"] \in Statuses
    /\ Ledger!Stage[lifecycle[expected.asset]] >= Ledger!Stage[evidence["status"]]

IdentityStands ==
  "identity" \in DOMAIN evidence =>
    \E s \in since : (evidence["owner"] \in s.vetted) = evidence["identity"]

VerifierInv == /\ ContractTypeOK /\ ReadsInOrder
               /\ OwnerStands /\ StatusStands /\ IdentityStands
-----------------------------------------------------------------------------
\* The stages of a life are numbers.
LEMMA StageFacts ==
  /\ DOMAIN Ledger!Stage = Statuses
  /\ Ledger!Stage["ACTIVE"] = 0 /\ Ledger!Stage["SUSPENDED"] = 0
  /\ Ledger!Stage["REVOKED"] = 1 /\ Ledger!Stage["RETIRED"] = 2
  BY DEF Ledger!Stage, Statuses

\* A block keeps the types, never takes an asset back to an earlier stage, and moves
\* an asset that has an owner only while it is active.
LEMMA BlockIsMonotone ==
  ASSUME ContractTypeOK, Ledger!LedgerNext, expected' = expected
  PROVE  /\ ContractTypeOK'
         /\ Ledger!Stage[lifecycle'[expected.asset]] >= Ledger!Stage[lifecycle[expected.asset]]
         /\ holder[expected.asset] # NoAccount /\ lifecycle[expected.asset] \in OutOfService
              => holder'[expected.asset] = holder[expected.asset]
  <1> USE StageFacts DEF ContractTypeOK, Statuses, OutOfService
  <1>1. ASSUME NEW asset \in AssetIds, NEW account \in Accounts,
               Ledger!Allocate(asset, account)
        PROVE  /\ lifecycle' = lifecycle /\ vetted' = vetted
               /\ holder' = [holder EXCEPT ![asset] = account] /\ holder[asset] = NoAccount
    BY <1>1 DEF Ledger!Allocate
  <1>2. ASSUME NEW asset \in AssetIds, NEW to \in Accounts, Ledger!Move(asset, to)
        PROVE  /\ lifecycle' = lifecycle /\ vetted' = vetted
               /\ holder' = [holder EXCEPT ![asset] = to] /\ lifecycle[asset] = "ACTIVE"
    BY <1>2 DEF Ledger!Move
  <1>3. ASSUME NEW asset \in AssetIds, NEW status \in DOMAIN Ledger!Stage,
               Ledger!Advance(asset, status)
        PROVE  /\ holder' = holder /\ vetted' = vetted
               /\ lifecycle' = [lifecycle EXCEPT ![asset] = status]
               /\ status \in Statuses
               /\ Ledger!Stage[status] >= Ledger!Stage[lifecycle[asset]]
    BY <1>3 DEF Ledger!Advance
  <1>4. CASE \E asset \in AssetIds, account \in Accounts : Ledger!Allocate(asset, account)
    BY <1>1, <1>4
  <1>5. CASE \E asset \in AssetIds, to \in Accounts : Ledger!Move(asset, to)
    BY <1>2, <1>5
  <1>6. CASE \E asset \in AssetIds, status \in DOMAIN Ledger!Stage :
               Ledger!Advance(asset, status)
    BY <1>3, <1>6
  <1>7. CASE Ledger!Vet \/ Ledger!OpenOrClose
    BY <1>7 DEF Ledger!Vet, Ledger!OpenOrClose
  <1> QED BY <1>4, <1>5, <1>6, <1>7 DEF Ledger!LedgerNext

\* Nothing is read and no asset is allocated yet.
LEMMA InvInit == VerifierInit => VerifierInv
  BY DEF VerifierInit, VerifierInv, ContractTypeOK, ReadsInOrder, OwnerStands, StatusStands,
         IdentityStands, Assessed, Unread, Statuses, Ledger!LedgerInit

\* A block adds to the history, and what was read of an asset out of service stays true.
LEMMA BlockKeepsInv == VerifierInv /\ NextBlock => VerifierInv'
  <1> SUFFICES ASSUME VerifierInv, NextBlock PROVE VerifierInv' OBVIOUS
  <1> USE DEF VerifierInv
  <1>0. /\ Ledger!LedgerNext /\ expected' = expected /\ evidence' = evidence
        /\ ownerRead' = ownerRead /\ result' = result
        /\ since' = IF since = {} THEN {} ELSE since \cup {State'}
    BY DEF NextBlock
  <1>1. /\ ContractTypeOK'
        /\ Ledger!Stage[lifecycle'[expected.asset]] >= Ledger!Stage[lifecycle[expected.asset]]
        /\ holder[expected.asset] # NoAccount /\ lifecycle[expected.asset] \in OutOfService
             => holder'[expected.asset] = holder[expected.asset]
    BY <1>0, BlockIsMonotone
  <1>2. since \subseteq since'
    BY <1>0
  <1>3. ReadsInOrder'
    BY <1>0 DEF ReadsInOrder, Assessed, HasRead
  <1>4. lifecycle[expected.asset] \in Statuses /\ lifecycle'[expected.asset] \in Statuses
    BY <1>0, <1>1 DEF ContractTypeOK
  <1>5. OwnerStands'
    BY <1>0, <1>1, <1>2, <1>4, StageFacts DEF OwnerStands, Statuses, OutOfService
  <1>6. StatusStands'
    BY <1>0, <1>1, <1>2, <1>4, StageFacts DEF StatusStands, Statuses
  <1>7. IdentityStands'
    BY <1>0, <1>2 DEF IdentityStands
  <1> QED BY <1>1, <1>3, <1>5, <1>6, <1>7

\* What every read does, whatever it reads.
ReadEffect(r, value) ==
  /\ r \notin DOMAIN evidence /\ result = "running" /\ result' = result
  /\ DOMAIN evidence' = DOMAIN evidence \cup {r}
  /\ evidence'[r] = value
  /\ \A x \in DOMAIN evidence : evidence'[x] = evidence[x]
  /\ holder' = holder /\ lifecycle' = lifecycle /\ vetted' = vetted
  /\ expected' = expected /\ State' = State
  /\ since' = IF r = "blockNumber" THEN {State} ELSE since
  /\ ownerRead' = IF r = "owner" THEN lifecycle[expected.asset] ELSE ownerRead

\* The effect of a read.
LEMMA ReadStep ==
  ASSUME NEW r, NEW STATE value, Read(r, value)
  PROVE  ReadEffect(r, value)
  <1>1. /\ r \notin DOMAIN evidence /\ result = "running" /\ UNCHANGED result
        /\ evidence' = [x \in DOMAIN evidence \cup {r} |->
                          IF x = r THEN value ELSE evidence[x]]
        /\ since' = IF r = "blockNumber" THEN {State} ELSE since
        /\ ownerRead' = IF r = "owner" THEN lifecycle[expected.asset] ELSE ownerRead
        /\ UNCHANGED chainVars /\ UNCHANGED expected
    BY DEF Read
  <1>2. holder' = holder /\ lifecycle' = lifecycle /\ vetted' = vetted
    BY <1>1 DEF chainVars
  <1>3. State' = State
    BY <1>1, <1>2 DEF State, Owner, Status
  <1>4. /\ DOMAIN evidence' = DOMAIN evidence \cup {r}
        /\ evidence'[r] = value
        /\ \A x \in DOMAIN evidence : evidence'[x] = evidence[x]
    BY <1>1
  <1> QED BY <1>1, <1>2, <1>3, <1>4 DEF ReadEffect

\* Reads that are not of the asset.
LEMMA OtherReadsKeepInv ==
  ASSUME VerifierInv, NEW r \in {"chainId", "blockNumber", "code"}, NEW STATE value,
         Read(r, value)
  PROVE  VerifierInv'
  <1>0. ReadEffect(r, value)
    BY ReadStep
  <1> USE <1>0 DEF VerifierInv, ReadEffect
  <1>1. ContractTypeOK'
    BY DEF ContractTypeOK
  <1>2. ReadsInOrder'
    BY DEF ReadsInOrder, Assessed
  <1>3. r = "blockNumber" => DOMAIN evidence' \cap {"owner", "status", "identity"} = {}
    BY DEF ReadsInOrder
  <1>4. OwnerStands'
    BY <1>3 DEF OwnerStands
  <1>5. StatusStands'
    BY <1>3 DEF StatusStands
  <1>6. IdentityStands'
    BY <1>3 DEF IdentityStands, ReadsInOrder
  <1> QED BY <1>1, <1>2, <1>4, <1>5, <1>6

\* The owner is read: the state it comes from is in the history.
LEMMA OwnerOfKeepsInv == VerifierInv /\ OwnerOf => VerifierInv'
  <1> SUFFICES ASSUME VerifierInv, OwnerOf PROVE VerifierInv' OBVIOUS
  <1> USE DEF VerifierInv
  <1>0. /\ Owner # NoAccount /\ Read("owner", Owner)
        /\ "blockNumber" \in DOMAIN evidence
    BY DEF OwnerOf, AssetCall, HasRead
  <1>r. ReadEffect("owner", Owner)
    BY <1>0, ReadStep
  <1>1. ContractTypeOK' /\ ReadsInOrder'
    BY <1>0, <1>r DEF ReadEffect, ContractTypeOK, ReadsInOrder, Assessed
  <1>2. OwnerStands'
    <2>1. State \in since' /\ State.owner = Owner
      BY <1>0, <1>r DEF ReadEffect, ReadsInOrder, State
    <2>2. lifecycle[expected.asset] \in Statuses
      BY DEF ContractTypeOK
    <2> QED BY <1>0, <2>1, <2>2, <1>r, StageFacts DEF ReadEffect, OwnerStands, Statuses, Owner
  <1>3. StatusStands' /\ IdentityStands'
    BY <1>0, <1>r DEF ReadEffect, StatusStands, IdentityStands, ReadsInOrder
  <1> QED BY <1>1, <1>2, <1>3

\* So it is for the status,
LEMMA AssetStatusKeepsInv == VerifierInv /\ AssetStatus => VerifierInv'
  <1> SUFFICES ASSUME VerifierInv, AssetStatus PROVE VerifierInv' OBVIOUS
  <1> USE DEF VerifierInv
  <1>0. Read("status", Status) /\ "blockNumber" \in DOMAIN evidence
    BY DEF AssetStatus, AssetCall, HasRead
  <1>r. ReadEffect("status", Status)
    BY <1>0, ReadStep
  <1>1. ContractTypeOK' /\ ReadsInOrder'
    BY <1>0, <1>r DEF ReadEffect, ContractTypeOK, ReadsInOrder, Assessed
  <1>2. StatusStands'
    <2>1. State \in since' /\ State.status = Status
      BY <1>0, <1>r DEF ReadEffect, ReadsInOrder, State
    <2>2. Status \in Statuses
      BY DEF ContractTypeOK, Status
    <2> QED BY <1>0, <2>1, <2>2, <1>r, StageFacts DEF ReadEffect, StatusStands, Statuses, Status
  <1>3. OwnerStands' /\ IdentityStands'
    BY <1>0, <1>r DEF ReadEffect, OwnerStands, IdentityStands, ReadsInOrder
  <1> QED BY <1>1, <1>2, <1>3

\* and for the identity of the owner that was read.
LEMMA IdentityKeepsInv == VerifierInv /\ IdentityRegistry => VerifierInv'
  <1> SUFFICES ASSUME VerifierInv, IdentityRegistry PROVE VerifierInv' OBVIOUS
  <1> USE DEF VerifierInv
  <1>0. /\ Read("identity", evidence["owner"] \in vetted)
        /\ {"owner", "status", "blockNumber"} \subseteq DOMAIN evidence
    BY DEF IdentityRegistry, HasRead, ReadsInOrder
  <1>r. ReadEffect("identity", evidence["owner"] \in vetted)
    BY <1>0, ReadStep
  <1>1. ContractTypeOK' /\ ReadsInOrder'
    BY <1>0, <1>r DEF ReadEffect, ContractTypeOK, ReadsInOrder, Assessed
  <1>2. OwnerStands' /\ StatusStands'
    BY <1>0, <1>r DEF ReadEffect, OwnerStands, StatusStands
  <1>3. IdentityStands'
    <2>1. State \in since' /\ State.vetted = vetted
      BY <1>0, <1>r DEF ReadEffect, ReadsInOrder, State
    <2>2. /\ evidence'["owner"] = evidence["owner"]
          /\ evidence'["identity"] = (evidence["owner"] \in vetted)
      BY <1>0, <1>r DEF ReadEffect
    <2> QED BY <2>1, <2>2 DEF IdentityStands
  <1> QED BY <1>1, <1>2, <1>3

\* A failed call and the assessment change the result only.
LEMMA EndKeepsInv == VerifierInv /\ (CallFails \/ AssessEvidence) => VerifierInv'
  <1> SUFFICES ASSUME VerifierInv, CallFails \/ AssessEvidence PROVE VerifierInv' OBVIOUS
  <1>1. /\ evidence' = evidence /\ since' = since /\ expected' = expected
        /\ ownerRead' = ownerRead /\ holder' = holder /\ lifecycle' = lifecycle
        /\ vetted' = vetted /\ State' = State
    BY DEF CallFails, AssessEvidence, chainVars, State, Owner, Status
  <1>2. Assessed' => HasRead(Reads)
    BY DEF CallFails, AssessEvidence, Assessed
  <1>3. ReadsInOrder'
    BY <1>1, <1>2 DEF VerifierInv, ReadsInOrder, HasRead
  <1>4. ContractTypeOK' /\ OwnerStands' /\ StatusStands' /\ IdentityStands'
    BY <1>1 DEF VerifierInv, ContractTypeOK, OwnerStands, StatusStands, IdentityStands
  <1> QED BY <1>3, <1>4 DEF VerifierInv

\* Every step keeps the invariant.
LEMMA InvStep == VerifierInv /\ [VerifierNext]_verifierVars => VerifierInv'
  <1> SUFFICES ASSUME VerifierInv, [VerifierNext]_verifierVars PROVE VerifierInv' OBVIOUS
  <1>1. CASE NextBlock BY <1>1, BlockKeepsInv
  <1>2. CASE GetNetwork BY <1>2, OtherReadsKeepInv DEF GetNetwork
  <1>3. CASE GetBlockNumber BY <1>3, OtherReadsKeepInv DEF GetBlockNumber
  <1>4. CASE GetCode BY <1>4, OtherReadsKeepInv DEF GetCode
  <1>5. CASE OwnerOf BY <1>5, OwnerOfKeepsInv
  <1>6. CASE AssetStatus BY <1>6, AssetStatusKeepsInv
  <1>7. CASE IdentityRegistry BY <1>7, IdentityKeepsInv
  <1>8. CASE CallFails \/ AssessEvidence BY <1>8, EndKeepsInv
  <1>9. CASE UNCHANGED verifierVars
    BY <1>9 DEF verifierVars, chainVars, VerifierInv, ContractTypeOK, ReadsInOrder,
                OwnerStands, StatusStands, IdentityStands, State, Owner, Status, Assessed,
                HasRead
  <1> QED BY <1>1, <1>2, <1>3, <1>4, <1>5, <1>6, <1>7, <1>8, <1>9 DEF VerifierNext

\* The invariant is stronger than the property.
LEMMA InvImplies == VerifierInv => EvidenceStands
  <1> SUFFICES ASSUME VerifierInv PROVE EvidenceStands OBVIOUS
  <1> USE DEF VerifierInv
  <1>1. EvidenceIsNoOlderThanItsBlock
    BY DEF EvidenceIsNoOlderThanItsBlock, ReadsInOrder, HasRead, Reads, OwnerStands,
           StatusStands, IdentityStands
  <1>2. OutOfServiceIsFinal
    BY DEF OutOfServiceIsFinal, OwnerStands, StatusStands, OutOfService
  <1> QED BY <1>1, <1>2 DEF EvidenceStands

\* A report mixes no evidence from before the block it names, and an asset it found out
\* of service stays so, with the owner that was read then (verify_asset.mjs: the block
\* number is awaited before the asset's calls).
THEOREM EvidenceIsSound == VerifierSpec => []EvidenceStands
  <1>1. VerifierSpec => []VerifierInv
    BY InvInit, InvStep, PTL DEF VerifierSpec
  <1> QED BY <1>1, InvImplies, PTL
-----------------------------------------------------------------------------
(***************************************************************************)
(* The in-memory projection.  A scan that waits for what the chain may drop       *)
(* reads final blocks only, so what it checkpoints stays the chain's; and a scan    *)
(* that begins next to a checkpoint stays next to one.                               *)
(***************************************************************************)
MemorySpec == MemoryInit /\ [][MemoryNext]_memoryVars

Stamps == [block : Nat, hash : Nat]
Projections == [blocks : [Evm!Heights -> Nat], events : [Logs -> Stamps],
                uncertain : [Logs -> Stamps]]

Scanning == memoryScan # NoScan

MemoryTypeOK ==
  /\ projection \in Projections
  /\ Scanning =>
       /\ memoryScan.phase \in {"header", "logs"}
       /\ memoryScan.next \in Evm!Heights /\ memoryScan.through \in Evm!Heights
       /\ memoryScan.next <= memoryScan.through
       /\ memoryScan.phase = "logs" => memoryScan.hash \in Nat \ {Evm!NoHash}

\* Unless a scan was shallow, all that is read or checkpointed is final.
FinalOnly ==
  ~ shallow =>
    /\ Scanning => memoryScan.through + ReorgDepth <= highest
    /\ Scanning /\ memoryScan.phase = "logs" => memoryScan.hash = block[memoryScan.next].hash
    /\ \A n \in Checkpoints(projection) : Evm!Final(n)

\* Unless one was below them, a scan goes on next to the checkpoints there are.
ScanStaysClose ==
  Scanning /\ Checkpoints(projection) # {} /\ ~ backfilled =>
    \E m \in Checkpoints(projection) : m <= memoryScan.next + 1

\* An event is not projected and withheld.
OneContent == \A l \in Logs : Unknown \in {projection.events[l], projection.uncertain[l]}

MemoryInv ==
  /\ Evm!ChainInv /\ MemoryTypeOK /\ FinalOnly /\ ScanStaysClose /\ OneContent
  /\ CheckpointsAreHealed /\ GapsComeFromBelow
-----------------------------------------------------------------------------
\* The chain keeps its blocks apart, and final ones for ever.
LEMMA EvmInit == Evm!ChainInit => Evm!ChainInv
BY MemoryProjectionAssumption DEF Evm!ChainInit, Evm!ChainInv, Evm!ChainTypes, Evm!Heights,
   Evm!Hashes, Evm!Blocks, Evm!NoBlock, Evm!NoHash

\* A block is put on top.
LEMMA EvmMines ==
  ASSUME Evm!ChainInv, NEW logs \in SUBSET Logs, Evm!MineBlock(logs)
  PROVE  Evm!ChainInv' /\ highest <= highest'
         /\ \A n \in Evm!Heights : Evm!Final(n) => block'[n] = block[n]
<1> USE MemoryProjectionAssumption DEF Evm!Heights, Evm!Hashes, Evm!NoHash
<1>1. /\ tip + 1 \in Evm!Heights /\ tip' = tip + 1 /\ mined' = mined + 1
      /\ \A n \in Evm!Heights :
           block'[n] = IF n = tip + 1 THEN [hash |-> mined + 1, logs |-> logs] ELSE block[n]
      /\ highest' = IF tip' > highest THEN tip' ELSE highest
  BY DEF Evm!ChainInv, Evm!ChainTypes, Evm!MineBlock
<1>2. Evm!ChainTypes'
  <2>1. block' \in [Evm!Heights -> Evm!Blocks]
    BY DEF Evm!ChainInv, Evm!ChainTypes, Evm!MineBlock, Evm!Blocks
  <2>2. QED
    BY <2>1, <1>1 DEF Evm!ChainInv, Evm!ChainTypes, Evm!MineBlock
<1>3. tip' <= highest' /\ highest' <= tip' + ReorgDepth /\ highest <= highest'
  BY <1>1 DEF Evm!ChainInv, Evm!ChainTypes
<1>4. \A n \in Evm!Heights : /\ n <= tip' => block'[n].hash \in 1..mined'
                             /\ n > tip' => block'[n] = Evm!NoBlock
  BY <1>1 DEF Evm!ChainInv, Evm!ChainTypes
<1>5. \A m, n \in Evm!Heights :
        block'[m].hash = block'[n].hash /\ block'[m].hash # Evm!NoHash => m = n
  BY <1>1 DEF Evm!ChainInv, Evm!ChainTypes, Evm!NoBlock
<1>6. \A m, n \in Evm!Heights : \A l \in block'[m].logs \cap block'[n].logs : m = n
  BY <1>1 DEF Evm!ChainInv, Evm!ChainTypes, Evm!MineBlock, Evm!OnChain
<1>7. \A n \in Evm!Heights : Evm!Final(n) => block'[n] = block[n]
  BY <1>1, SMTT(20) DEF Evm!ChainInv, Evm!ChainTypes, Evm!Final
<1>8. QED
  BY <1>2, <1>3, <1>4, <1>5, <1>6, <1>7 DEF Evm!ChainInv

\* The blocks that are dropped are not final.
LEMMA EvmDrops ==
  ASSUME Evm!ChainInv, NEW m \in 0..MaxHeight, Evm!DropBlocks(m)
  PROVE  Evm!ChainInv' /\ highest <= highest'
         /\ \A n \in Evm!Heights : Evm!Final(n) => block'[n] = block[n]
<1> USE MemoryProjectionAssumption DEF Evm!Heights, Evm!NoHash
<1>1. Evm!ChainInv' /\ highest <= highest'
  BY DEF Evm!ChainInv, Evm!ChainTypes, Evm!DropBlocks, Evm!Hashes, Evm!Blocks, Evm!NoBlock
<1>2. \A n \in Evm!Heights : Evm!Final(n) => block'[n] = block[n]
  BY DEF Evm!ChainInv, Evm!ChainTypes, Evm!DropBlocks, Evm!Final
<1>3. QED
  BY <1>1, <1>2

\* Whatever the chain does, final blocks stay.
LEMMA EvmStep ==
  ASSUME Evm!ChainInv, Evm!ChainStep
  PROVE  Evm!ChainInv' /\ highest <= highest'
         /\ \A n \in Evm!Heights : Evm!Final(n) => Evm!Final(n)' /\ block'[n] = block[n]
<1>1. Evm!ChainInv' /\ highest <= highest'
      /\ \A n \in Evm!Heights : Evm!Final(n) => block'[n] = block[n]
  BY EvmMines, EvmDrops DEF Evm!ChainStep
<1>2. highest \in Nat /\ highest' \in Nat
  BY <1>1, MemoryProjectionAssumption DEF Evm!ChainInv, Evm!ChainTypes
<1>3. QED
  BY <1>1, <1>2, MemoryProjectionAssumption DEF Evm!Final, Evm!Heights
-----------------------------------------------------------------------------
\* There is nothing to be wrong with at first.
LEMMA MemoryInvInit == MemoryInit => MemoryInv
<1> SUFFICES ASSUME MemoryInit PROVE MemoryInv
  OBVIOUS
<1>1. /\ projection.blocks = [n \in Evm!Heights |-> Evm!NoHash]
      /\ projection.events = [l \in Logs |-> Unknown]
      /\ projection.uncertain = [l \in Logs |-> Unknown]
      /\ projection \in Projections /\ ~ Scanning
  BY DEF MemoryInit, Projections, Stamps, Unknown, Evm!NoHash, Scanning
<1>2. Checkpoints(projection) = {}
  BY <1>1 DEF Checkpoints
<1>3. Evm!ChainInv
  BY EvmInit DEF MemoryInit
<1>4. QED
  BY <1>1, <1>2, <1>3 DEF MemoryInv, MemoryTypeOK, FinalOnly, ScanStaysClose, OneContent,
     CheckpointsAreHealed, GapsComeFromBelow

\* The chain moves on under a scan.
LEMMA ChainMovesKeeps == MemoryInv /\ ChainMoves => MemoryInv'
<1> SUFFICES ASSUME MemoryInv, ChainMoves PROVE MemoryInv'
  OBVIOUS
<1>1. /\ Evm!ChainInv' /\ highest <= highest'
      /\ \A n \in Evm!Heights : Evm!Final(n) => Evm!Final(n)' /\ block'[n] = block[n]
      /\ UNCHANGED <<projection, memoryScan, shallow, unfinished, backfilled>>
  BY EvmStep DEF MemoryInv, ChainMoves
<1>2. highest \in Nat /\ highest' \in Nat
  BY <1>1, MemoryProjectionAssumption DEF MemoryInv, Evm!ChainInv, Evm!ChainTypes
<1>3. Checkpoints(projection') = Checkpoints(projection)
      /\ Checkpoints(projection) \subseteq Evm!Heights /\ (Scanning' <=> Scanning)
  BY <1>1 DEF Checkpoints, Scanning
<1>4. MemoryTypeOK' /\ ScanStaysClose' /\ OneContent' /\ GapsComeFromBelow'
  <2>1. MemoryTypeOK'
    BY <1>1, <1>3 DEF MemoryInv, MemoryTypeOK
  <2>2. ScanStaysClose'
    BY <1>1, <1>3 DEF MemoryInv, ScanStaysClose
  <2>3. OneContent'
    BY <1>1 DEF MemoryInv, OneContent
  <2>4. GapsComeFromBelow'
    BY <1>1, <1>3 DEF MemoryInv, GapsComeFromBelow
  <2>5. QED
    BY <2>1, <2>2, <2>3, <2>4
<1>5. FinalOnly'
  <2> SUFFICES ASSUME ~ shallow PROVE FinalOnly'
    BY <1>1 DEF FinalOnly
  <2>1. Scanning => /\ memoryScan.next \in Evm!Heights /\ memoryScan.through \in Evm!Heights
                    /\ memoryScan.next <= memoryScan.through
                    /\ memoryScan.through + ReorgDepth <= highest
    BY DEF MemoryInv, MemoryTypeOK, FinalOnly
  <2>2. Scanning => Evm!Final(memoryScan.next) /\ memoryScan.through + ReorgDepth <= highest'
    BY <1>1, <1>2, <2>1, MemoryProjectionAssumption DEF Evm!Final, Evm!Heights
  <2>3. Scanning /\ memoryScan.phase = "logs" => memoryScan.hash = block'[memoryScan.next].hash
    BY <1>1, <2>1, <2>2 DEF MemoryInv, FinalOnly
  <2>4. \A n \in Checkpoints(projection) : Evm!Final(n)'
    BY <1>1, <1>3 DEF MemoryInv, FinalOnly
  <2>5. QED
    BY <1>1, <1>3, <2>2, <2>3, <2>4 DEF FinalOnly
<1>6. CheckpointsAreHealed'
  BY <1>1, <1>3 DEF MemoryInv, FinalOnly, CheckpointsAreHealed
<1>7. QED
  BY <1>1, <1>4, <1>5, <1>6 DEF MemoryInv

\* A scan begins, reads a header or stops: the projection stays as it is.
LEMMA ScanMoves ==
  ASSUME MemoryInv, UNCHANGED <<evmVars, projection, unfinished>>,
         MemoryTypeOK', FinalOnly', ScanStaysClose',
         shallow => shallow', backfilled => backfilled'
  PROVE  MemoryInv'
<1>1. /\ UNCHANGED <<block, tip, highest, mined>>
      /\ UNCHANGED projection /\ UNCHANGED unfinished
  BY DEF evmVars
<1>2. Evm!ChainInv'
  BY <1>1 DEF MemoryInv, Evm!ChainInv, Evm!ChainTypes
<1>3. Checkpoints(projection') = Checkpoints(projection)
  BY <1>1
<1>4. OneContent' /\ CheckpointsAreHealed'
  BY <1>1, <1>3 DEF MemoryInv, OneContent, CheckpointsAreHealed
<1>5. GapsComeFromBelow'
  BY <1>3 DEF MemoryInv, GapsComeFromBelow
<1>6. QED
  BY <1>2, <1>4, <1>5 DEF MemoryInv

\* The range of a scan ends as deep as the scan was asked to wait.
LEMMA BeginKeeps ==
  ASSUME MemoryInv, NEW start \in Evm!Heights, NEW depth \in Depths, NEW decodes \in BOOLEAN,
         BeginMemoryScan(start, depth, decodes)
  PROVE  MemoryInv'
<1>1. /\ memoryScan' = [phase |-> "header", next |-> start, through |-> tip - depth,
                        decodes |-> decodes]
      /\ start + depth <= tip
      /\ shallow' = (shallow \/ depth < ReorgDepth)
      /\ UNCHANGED <<evmVars, projection, unfinished>>
  BY DEF BeginMemoryScan
<1>2. /\ memoryScan'.phase = "header" /\ memoryScan'.next = start
      /\ memoryScan'.through = tip - depth /\ UNCHANGED <<block, highest>>
  BY <1>1 DEF evmVars
<1>3. /\ tip \in 0..MaxHeight /\ highest \in Nat /\ tip <= highest /\ depth \in Nat
      /\ start \in Nat /\ 1 <= start
  BY MemoryProjectionAssumption DEF MemoryInv, Evm!ChainInv, Evm!ChainTypes, Evm!Heights
<1>4. memoryScan'.through \in Evm!Heights /\ start <= memoryScan'.through
  BY <1>1, <1>2, <1>3, MemoryProjectionAssumption DEF Evm!Heights
<1>5. MemoryTypeOK'
  BY <1>1, <1>2, <1>4 DEF MemoryInv, MemoryTypeOK
<1>6. FinalOnly'
  <2>1. ~ shallow' => ~ shallow /\ memoryScan'.through + ReorgDepth <= highest'
    <3>1. ~ shallow' => ~ shallow /\ ~ depth < ReorgDepth
      BY <1>1, Zenon
    <3>2. ~ depth < ReorgDepth => tip - depth + ReorgDepth <= highest
      BY <1>1, <1>3, MemoryProjectionAssumption
    <3>3. QED
      BY <1>2, <3>1, <3>2
  <2>2. \A n : Evm!Final(n)' <=> Evm!Final(n)
    BY <1>2 DEF Evm!Final
  <2>3. Checkpoints(projection') = Checkpoints(projection)
    BY <1>1
  <2>4. QED
    BY <1>2, <2>1, <2>2, <2>3 DEF MemoryInv, FinalOnly
<1>7. ScanStaysClose'
  <2> SUFFICES ASSUME Checkpoints(projection) # {}, ~ backfilled'
               PROVE  \E m \in Checkpoints(projection) : m <= start + 1
    BY <1>1, <1>2 DEF ScanStaysClose
  <2>1. ~ \A m \in Checkpoints(projection) : start + 1 < m
    BY DEF BeginMemoryScan
  <2>2. Checkpoints(projection) \subseteq Nat
    BY DEF Checkpoints, Evm!Heights
  <2>3. QED
    BY <1>3, <2>1, <2>2
<1>8. backfilled => backfilled'
  BY DEF BeginMemoryScan
<1>9. QED
  BY <1>1, <1>5, <1>6, <1>7, <1>8, ScanMoves

\* The hash that is read is that of the block.
LEMMA HeaderKeeps == MemoryInv /\ ReadBlockHeader => MemoryInv'
<1> SUFFICES ASSUME MemoryInv, ReadBlockHeader PROVE MemoryInv'
  OBVIOUS
<1> DEFINE n == memoryScan.next
<1>1. /\ memoryScan' = [phase |-> "logs", next |-> n, through |-> memoryScan.through,
                        decodes |-> memoryScan.decodes, hash |-> block[n].hash]
      /\ block[n].hash # Evm!NoHash /\ memoryScan.phase = "header"
      /\ UNCHANGED <<evmVars, projection, unfinished, shallow, backfilled>>
  BY DEF ReadBlockHeader
<1>2. /\ memoryScan'.phase = "logs" /\ memoryScan'.next = n /\ memoryScan'.hash = block[n].hash
      /\ memoryScan'.through = memoryScan.through /\ UNCHANGED <<block, highest>>
  BY <1>1 DEF evmVars
<1>3. Scanning /\ Scanning'
  BY <1>1, <1>2 DEF Scanning, NoScan
<1>4. n \in Evm!Heights /\ block[n].hash \in Nat
  BY <1>3, MemoryProjectionAssumption DEF MemoryInv, MemoryTypeOK, Evm!ChainInv, Evm!ChainTypes,
     Evm!Blocks, Evm!Hashes, Evm!NoHash
<1> HIDE DEF n
<1>5. MemoryTypeOK'
  BY <1>1, <1>2, <1>3, <1>4 DEF MemoryInv, MemoryTypeOK, n
<1>6. FinalOnly'
  <2>1. \A m : Evm!Final(m)' <=> Evm!Final(m)
    BY <1>2 DEF Evm!Final
  <2>2. Checkpoints(projection') = Checkpoints(projection)
    BY <1>1
  <2>3. QED
    BY <1>1, <1>2, <1>3, <2>1, <2>2 DEF MemoryInv, FinalOnly
<1>7. ScanStaysClose'
  BY <1>1, <1>2, <1>3 DEF MemoryInv, ScanStaysClose, n
<1>8. QED
  BY <1>1, <1>5, <1>6, <1>7, ScanMoves

\* A scan that stops leaves what it did.
LEMMA StopKeeps ==
  ASSUME MemoryInv, memoryScan' = NoScan,
         UNCHANGED <<evmVars, projection, unfinished, shallow, backfilled>>
  PROVE  MemoryInv'
<1>1. ~ Scanning' /\ UNCHANGED highest
  BY DEF Scanning, evmVars
<1>2. MemoryTypeOK'
  BY <1>1 DEF MemoryInv, MemoryTypeOK
<1>3. FinalOnly'
  <2>1. \A m : Evm!Final(m)' <=> Evm!Final(m)
    BY <1>1 DEF Evm!Final
  <2>2. QED
    BY <1>1, <2>1 DEF MemoryInv, FinalOnly
<1>4. ScanStaysClose'
  BY <1>1 DEF ScanStaysClose
<1>5. QED
  BY <1>2, <1>3, <1>4, ScanMoves
-----------------------------------------------------------------------------
\* What a scan that may go on is about to project.
LEMMA IngestEffect ==
  ASSUME MemoryInv, NEW S \in SUBSET Logs, IngestLogs(S)
  PROVE  LET n == memoryScan.next
             hash == memoryScan.hash
             new == [block |-> n, hash |-> hash]
         IN  /\ Scanning /\ memoryScan.phase = "logs"
             /\ n \in Evm!Heights /\ hash \in Nat \ {Evm!NoHash}
             /\ new \in Stamps /\ new # Unknown
             /\ S \subseteq block[n].logs
             /\ projection.blocks[n] \in {Evm!NoHash, hash}
             /\ \A l \in S : ~ EventConflict(projection, l, new)
             /\ \A m \in Evm!Heights :
                  projection'.blocks[m] = IF m = n THEN hash ELSE projection.blocks[m]
             /\ \A l \in Logs :
                  /\ projection'.events[l] = IF l \in S THEN new ELSE projection.events[l]
                  /\ projection'.uncertain[l] = IF l \in S THEN Unknown ELSE projection.uncertain[l]
             /\ projection' \in Projections
             /\ Checkpoints(projection') = Checkpoints(projection) \cup {n}
             /\ UNCHANGED <<block, tip, highest, mined, shallow, backfilled>>
<1> DEFINE n == memoryScan.next
           hash == memoryScan.hash
           new == [block |-> n, hash |-> hash]
<1>1. Scanning /\ memoryScan.phase = "logs"
  BY DEF IngestLogs, Scanning, NoScan
<1>2. n \in Evm!Heights /\ hash \in Nat \ {Evm!NoHash} /\ projection \in Projections
  BY <1>1 DEF MemoryInv, MemoryTypeOK
<1>3. new \in Stamps /\ new # Unknown
  BY <1>2 DEF Stamps, Unknown, Evm!Heights
<1>4. /\ S \subseteq IF memoryScan.decodes THEN block[n].logs ELSE {}
      /\ S \cap {l \in block[n].logs : EventConflict(projection, l, new)} = {}
      /\ ~ BlockConflict(projection, n, hash)
      /\ projection' = MemoryIngested(projection, n, hash, S)
      /\ UNCHANGED <<evmVars, shallow, backfilled>>
  BY DEF IngestLogs
<1>5. projection.blocks[n] \in {Evm!NoHash, hash}
  BY <1>4 DEF BlockConflict
<1>6. S \subseteq block[n].logs /\ \A l \in S : ~ EventConflict(projection, l, new)
  BY <1>4
<1>7. /\ projection'.blocks = [projection.blocks EXCEPT ![n] = hash]
      /\ projection'.events = [l \in Logs |-> IF l \in S THEN new ELSE projection.events[l]]
      /\ projection'.uncertain = [l \in Logs |-> IF l \in S THEN Unknown
                                                           ELSE projection.uncertain[l]]
      /\ DOMAIN projection' = {"blocks", "events", "uncertain"}
      /\ projection' = [blocks |-> projection'.blocks, events |-> projection'.events,
                        uncertain |-> projection'.uncertain]
  BY <1>4 DEF MemoryIngested
<1> HIDE DEF n, hash, new
<1>8. /\ projection.blocks \in [Evm!Heights -> Nat] /\ projection.events \in [Logs -> Stamps]
      /\ projection.uncertain \in [Logs -> Stamps]
  BY <1>2 DEF Projections
<1>9. /\ \A m \in Evm!Heights :
           projection'.blocks[m] = IF m = n THEN hash ELSE projection.blocks[m]
      /\ \A l \in Logs :
           /\ projection'.events[l] = IF l \in S THEN new ELSE projection.events[l]
           /\ projection'.uncertain[l] = IF l \in S THEN Unknown ELSE projection.uncertain[l]
  BY <1>7, <1>8
<1>10. projection' \in Projections
  <2>1. Unknown \in Stamps
    BY DEF Unknown, Stamps, Evm!NoHash
  <2>2. /\ projection'.blocks \in [Evm!Heights -> Nat] /\ projection'.events \in [Logs -> Stamps]
        /\ projection'.uncertain \in [Logs -> Stamps]
    BY <1>2, <1>3, <1>7, <1>8, <2>1
  <2>3. QED
    BY <1>7, <2>2 DEF Projections
<1>11. Checkpoints(projection') = Checkpoints(projection) \cup {n}
  BY <1>2, <1>9 DEF Checkpoints
<1>12. QED
  BY <1>1, <1>2, <1>3, <1>4, <1>5, <1>6, <1>9, <1>10, <1>11 DEF evmVars, n, hash, new

\* A new block next to blocks without gaps leaves no gap.
LEMMA NoGap ==
  ASSUME NEW C \in SUBSET Nat, NEW n \in Nat,
         \A i, j \in C : \A k \in i..j : k \in C,
         C # {} => /\ \E i \in C : n <= i + 1
                   /\ \E i \in C : i <= n + 1
  PROVE  LET D == C \cup {n} IN \A i, j \in D : \A k \in i..j : k \in D
<1> SUFFICES ASSUME NEW i \in C \cup {n}, NEW j \in C \cup {n}, NEW k \in i..j, k # n
             PROVE  k \in C
  OBVIOUS
<1>1. CASE i = n /\ j \in C
  <2>1. PICK m \in C : m <= n + 1
    BY <1>1
  <2>2. m \in Nat /\ j \in Nat /\ k \in m..j
    BY <1>1, <2>1
  <2>3. QED
    BY <1>1, <2>2
<1>2. CASE j = n /\ i \in C
  <2>1. PICK m \in C : n <= m + 1
    BY <1>2
  <2>2. m \in Nat /\ i \in Nat /\ k \in i..m
    BY <1>2, <2>1
  <2>3. QED
    BY <1>2, <2>2
<1>3. CASE i \in C /\ j \in C
  BY <1>3
<1>4. CASE i = n /\ j = n
  BY <1>4
<1>5. QED
  BY <1>1, <1>2, <1>3, <1>4

\* A checkpoint next to the others, and the events of its block.
LEMMA IngestKeeps ==
  ASSUME MemoryInv, NEW S \in SUBSET Logs, IngestLogs(S)
  PROVE  MemoryInv'
<1> DEFINE n == memoryScan.next
           hash == memoryScan.hash
           new == [block |-> n, hash |-> hash]
<1>1. /\ Scanning /\ memoryScan.phase = "logs"
      /\ n \in Evm!Heights /\ hash \in Nat \ {Evm!NoHash}
      /\ new \in Stamps /\ new # Unknown
      /\ S \subseteq block[n].logs
      /\ projection.blocks[n] \in {Evm!NoHash, hash}
      /\ \A l \in S : ~ EventConflict(projection, l, new)
  BY IngestEffect
<1>2. /\ \A m \in Evm!Heights :
           projection'.blocks[m] = IF m = n THEN hash ELSE projection.blocks[m]
      /\ \A l \in Logs :
           /\ projection'.events[l] = IF l \in S THEN new ELSE projection.events[l]
           /\ projection'.uncertain[l] = IF l \in S THEN Unknown ELSE projection.uncertain[l]
      /\ projection' \in Projections
      /\ Checkpoints(projection') = Checkpoints(projection) \cup {n}
      /\ UNCHANGED <<block, tip, highest, mined, shallow, backfilled>>
  BY IngestEffect
<1>3. /\ memoryScan' = IF \/ S # (IF memoryScan.decodes THEN block[n].logs ELSE {})
                          \/ n = memoryScan.through
                       THEN NoScan
                       ELSE [phase |-> "header", next |-> n + 1, through |-> memoryScan.through,
                             decodes |-> memoryScan.decodes]
      /\ ~ BlockGap(projection, n)
  BY DEF IngestLogs
<1>4. unfinished' = IF S = (IF memoryScan.decodes THEN block[n].logs ELSE {}) /\ memoryScan.decodes
                    THEN unfinished \ {n}
                    ELSE IF projection.blocks[n] = Evm!NoHash THEN unfinished \cup {n}
                                                              ELSE unfinished
  BY DEF IngestLogs
<1>5. Scanning' => /\ memoryScan'.phase = "header" /\ memoryScan'.next = n + 1
                   /\ memoryScan'.through = memoryScan.through /\ n # memoryScan.through
  BY <1>3 DEF Scanning
<1>6. /\ n \in Nat /\ 1 <= n /\ n <= memoryScan.through /\ memoryScan.through \in Evm!Heights
      /\ Checkpoints(projection) \subseteq Nat /\ highest \in Nat
  BY <1>1, MemoryProjectionAssumption DEF MemoryInv, MemoryTypeOK, Evm!Heights, Checkpoints,
     Evm!ChainInv, Evm!ChainTypes
<1> HIDE DEF n, hash, new
<1>7. Evm!ChainInv'
  BY <1>2 DEF MemoryInv, Evm!ChainInv, Evm!ChainTypes
<1>8. MemoryTypeOK'
  <2>1. Scanning' => n + 1 \in Evm!Heights /\ n + 1 <= memoryScan.through
    BY <1>5, <1>6, MemoryProjectionAssumption DEF Evm!Heights
  <2>2. QED
    BY <1>2, <1>5, <1>6, <2>1 DEF MemoryTypeOK
<1>9. FinalOnly'
  <2> SUFFICES ASSUME ~ shallow PROVE FinalOnly'
    BY <1>2 DEF FinalOnly
  <2>1. memoryScan.through + ReorgDepth <= highest
        /\ \A m \in Checkpoints(projection) : Evm!Final(m)
    BY <1>1 DEF MemoryInv, FinalOnly
  <2>2. Evm!Final(n)
    BY <1>6, <2>1, MemoryProjectionAssumption DEF Evm!Final, Evm!Heights
  <2>3. \A m : Evm!Final(m)' <=> Evm!Final(m)
    BY <1>2 DEF Evm!Final
  <2>4. QED
    BY <1>2, <1>5, <2>1, <2>2, <2>3 DEF FinalOnly
<1>10. ScanStaysClose'
  BY <1>2, <1>5, <1>6 DEF ScanStaysClose
<1>11. OneContent'
  BY <1>2 DEF MemoryInv, OneContent
<1>12. CheckpointsAreHealed'
  <2> SUFFICES ASSUME ~ shallow, NEW m \in Checkpoints(projection) \cup {n}
               PROVE  /\ projection'.blocks[m] = block[m].hash
                      /\ \A l \in block[m].logs :
                           \/ projection'.events[l] = [block |-> m, hash |-> block[m].hash]
                           \/ m \in unfinished'
    BY <1>2 DEF CheckpointsAreHealed
  <2>1. /\ hash = block[n].hash /\ m \in Evm!Heights /\ block[m].logs \subseteq Logs
        /\ \A j, k \in Evm!Heights : \A x \in block[j].logs \cap block[k].logs : j = k
    BY <1>1, <1>6 DEF MemoryInv, FinalOnly, n, hash, Checkpoints, Evm!ChainInv, Evm!ChainTypes,
       Evm!Blocks
  <2>2. m \in Checkpoints(projection) =>
          /\ projection.blocks[m] = block[m].hash
          /\ \A l \in block[m].logs :
               projection.events[l] = [block |-> m, hash |-> block[m].hash] \/ m \in unfinished
    BY DEF MemoryInv, CheckpointsAreHealed
  <2>3. CASE m = n
    <3>1. projection'.blocks[m] = block[m].hash
      BY <1>2, <2>1, <2>3
    <3>2. ASSUME NEW l \in block[m].logs
          PROVE  \/ projection'.events[l] = [block |-> m, hash |-> block[m].hash]
                 \/ m \in unfinished'
      <4>1. l \in S => projection'.events[l] = [block |-> m, hash |-> block[m].hash]
        BY <1>2, <2>1, <2>3, <3>2 DEF new
      <4>2. l \notin S => projection'.events[l] = projection.events[l]
        BY <1>2, <2>1, <3>2
      <4>3. l \notin S => \/ n \in unfinished'
                          \/ n \in Checkpoints(projection) /\ unfinished' = unfinished
        BY <1>1, <1>4, <2>3, <3>2 DEF Checkpoints
      <4>4. QED
        BY <2>2, <2>3, <3>2, <4>1, <4>2, <4>3
    <3>3. QED
      BY <3>1, <3>2
  <2>4. CASE m # n
    <3>1. \A l \in block[m].logs : l \notin S
      BY <1>1, <2>1, <2>4
    <3>2. /\ projection'.blocks[m] = projection.blocks[m]
          /\ \A l \in block[m].logs : projection'.events[l] = projection.events[l]
      BY <1>2, <2>1, <2>4, <3>1
    <3>3. m \in unfinished => m \in unfinished'
      BY <1>4, <2>4
    <3>4. QED
      BY <2>2, <2>4, <3>2, <3>3
  <2>5. QED
    BY <2>3, <2>4
<1>13. GapsComeFromBelow'
  <2> SUFFICES ASSUME ~ backfilled PROVE GapsComeFromBelow'
    BY <1>2 DEF GapsComeFromBelow
  <2>1. \A i, j \in Checkpoints(projection) : \A k \in i..j : k \in Checkpoints(projection)
    BY DEF MemoryInv, GapsComeFromBelow
  <2>2. Checkpoints(projection) # {} =>
          /\ \E i \in Checkpoints(projection) : n <= i + 1
          /\ \E i \in Checkpoints(projection) : i <= n + 1
    BY <1>1, <1>3, <1>6 DEF MemoryInv, ScanStaysClose, BlockGap, n
  <2>3. QED
    BY <1>2, <1>6, <2>1, <2>2, NoGap DEF GapsComeFromBelow
<1>14. QED
  BY <1>7, <1>8, <1>9, <1>10, <1>11, <1>12, <1>13 DEF MemoryInv
\* A rollback keeps the checkpoints below, and withholds the events from there on.
LEMMA RollbackEffect ==
  ASSUME MemoryInv, NEW n \in Evm!Heights, RollbackFrom(n)
  PROVE  /\ ~ Scanning /\ ~ Scanning' /\ projection' \in Projections
         /\ Checkpoints(projection') = {m \in Checkpoints(projection) : m < n}
         /\ \A m \in Evm!Heights : m < n => projection'.blocks[m] = projection.blocks[m]
         /\ \A l \in Logs :
              IF projection.events[l].block < n
              THEN /\ projection'.events[l] = projection.events[l]
                   /\ projection'.uncertain[l] = projection.uncertain[l]
              ELSE /\ projection.events[l] # Unknown /\ projection'.events[l] = Unknown
                   /\ projection'.uncertain[l] = projection.events[l]
         /\ UNCHANGED <<block, tip, highest, mined, shallow, unfinished, backfilled>>
<1>1. /\ projection.blocks \in [Evm!Heights -> Nat] /\ projection.events \in [Logs -> Stamps]
      /\ projection.uncertain \in [Logs -> Stamps]
  BY DEF MemoryInv, MemoryTypeOK, Projections
<1>2. Unknown \in Stamps /\ Unknown.block = 0 /\ n \in Nat /\ 0 < n
  BY DEF Unknown, Stamps, Evm!NoHash, Evm!Heights
<1>3. projection' = MemoryRolledBack(projection, n)
  BY DEF RollbackFrom
<1>4. /\ projection'.blocks = [m \in Evm!Heights |-> IF m < n THEN projection.blocks[m]
                                                              ELSE Evm!NoHash]
      /\ projection'.events = [l \in Logs |-> IF projection.events[l].block < n
                                              THEN projection.events[l] ELSE Unknown]
      /\ projection'.uncertain = [l \in Logs |-> IF projection.events[l].block < n
                                                 THEN projection.uncertain[l]
                                                 ELSE projection.events[l]]
      /\ projection' = [blocks |-> projection'.blocks, events |-> projection'.events,
                        uncertain |-> projection'.uncertain]
  BY <1>3 DEF MemoryRolledBack
<1>5. projection' \in Projections
  <2>1. /\ projection'.blocks \in [Evm!Heights -> Nat] /\ projection'.events \in [Logs -> Stamps]
        /\ projection'.uncertain \in [Logs -> Stamps]
    BY <1>1, <1>2, <1>4 DEF Evm!NoHash
  <2>2. QED
    BY <1>4, <2>1 DEF Projections
<1>6. Checkpoints(projection') = {m \in Checkpoints(projection) : m < n}
  BY <1>4 DEF Checkpoints
<1>7. /\ \A m \in Evm!Heights : m < n => projection'.blocks[m] = projection.blocks[m]
      /\ \A l \in Logs :
           IF projection.events[l].block < n
           THEN /\ projection'.events[l] = projection.events[l]
                /\ projection'.uncertain[l] = projection.uncertain[l]
           ELSE /\ projection.events[l] # Unknown /\ projection'.events[l] = Unknown
                /\ projection'.uncertain[l] = projection.events[l]
  BY <1>2, <1>4
<1>8. QED
  BY <1>5, <1>6, <1>7 DEF RollbackFrom, Scanning, evmVars

\* What is left after a rollback is as sound as it was.
LEMMA RollbackKeeps ==
  ASSUME MemoryInv, NEW n \in Evm!Heights, RollbackFrom(n)
  PROVE  MemoryInv'
<1> DEFINE C == Checkpoints(projection)
<1>1. /\ ~ Scanning' /\ projection' \in Projections
      /\ Checkpoints(projection') = {m \in C : m < n}
      /\ \A m \in Evm!Heights : m < n => projection'.blocks[m] = projection.blocks[m]
      /\ UNCHANGED <<block, tip, highest, mined, shallow, unfinished, backfilled>>
  BY RollbackEffect
<1>2. \A l \in Logs :
        IF projection.events[l].block < n
        THEN /\ projection'.events[l] = projection.events[l]
             /\ projection'.uncertain[l] = projection.uncertain[l]
        ELSE /\ projection.events[l] # Unknown /\ projection'.events[l] = Unknown
             /\ projection'.uncertain[l] = projection.events[l]
  BY RollbackEffect
<1>3. C \subseteq Evm!Heights
  BY DEF Checkpoints
<1> HIDE DEF C
<1>4. Evm!ChainInv'
  BY <1>1 DEF MemoryInv, Evm!ChainInv, Evm!ChainTypes
<1>5. MemoryTypeOK' /\ ScanStaysClose'
  BY <1>1 DEF MemoryTypeOK, ScanStaysClose
<1>6. OneContent'
  BY <1>2 DEF MemoryInv, OneContent
<1>7. FinalOnly'
  <2>1. \A m : Evm!Final(m)' <=> Evm!Final(m)
    BY <1>1 DEF Evm!Final
  <2>2. QED
    BY <1>1, <2>1 DEF MemoryInv, FinalOnly, C
<1>8. CheckpointsAreHealed'
  <2> SUFFICES ASSUME ~ shallow, NEW m \in C, m < n
               PROVE  /\ projection'.blocks[m] = block[m].hash
                      /\ \A l \in block[m].logs :
                           \/ projection'.events[l] = [block |-> m, hash |-> block[m].hash]
                           \/ m \in unfinished
    BY <1>1 DEF CheckpointsAreHealed
  <2>1. /\ projection.blocks[m] = block[m].hash
        /\ \A l \in block[m].logs :
             projection.events[l] = [block |-> m, hash |-> block[m].hash] \/ m \in unfinished
    BY DEF MemoryInv, CheckpointsAreHealed, C
  <2>2. block[m].logs \subseteq Logs
    BY <1>3 DEF MemoryInv, Evm!ChainInv, Evm!ChainTypes, Evm!Blocks
  <2>3. QED
    BY <1>1, <1>2, <1>3, <2>1, <2>2
<1>9. GapsComeFromBelow'
  <2> SUFFICES ASSUME ~ backfilled, NEW i \in C, NEW j \in C, j < n, NEW k \in i..j
               PROVE  k \in C /\ k < n
    BY <1>1 DEF GapsComeFromBelow
  <2>1. k \in C
    BY DEF MemoryInv, GapsComeFromBelow, C
  <2>2. QED
    BY <1>3, <2>1 DEF Evm!Heights
<1>10. QED
  BY <1>4, <1>5, <1>6, <1>7, <1>8, <1>9 DEF MemoryInv

\* Every step of the scanner and of the chain keeps the invariant.
LEMMA MemoryKeeps == MemoryInv /\ [MemoryNext]_memoryVars => MemoryInv'
<1> SUFFICES ASSUME MemoryInv, [MemoryNext]_memoryVars PROVE MemoryInv'
  OBVIOUS
<1>1. CASE MemoryScanFails
  BY <1>1, StopKeeps DEF MemoryScanFails
<1>2. CASE BlockVanished
  BY <1>2, StopKeeps DEF BlockVanished
<1>3. CASE CheckpointRefused
  BY <1>3, StopKeeps DEF CheckpointRefused
<1>4. CASE UNCHANGED memoryVars
  <2>1. UNCHANGED <<evmVars, projection, memoryScan, shallow, unfinished, backfilled>>
    BY <1>4 DEF memoryVars
  <2>2. (Scanning' <=> Scanning) /\ UNCHANGED highest
    BY <2>1 DEF Scanning, evmVars
  <2>3. MemoryTypeOK' /\ ScanStaysClose'
    BY <2>1, <2>2 DEF MemoryInv, MemoryTypeOK, ScanStaysClose
  <2>4. FinalOnly'
    <3>1. (\A m : Evm!Final(m)' <=> Evm!Final(m)) /\ UNCHANGED block
      BY <2>1, <2>2 DEF Evm!Final, evmVars
    <3>2. QED
      BY <2>1, <2>2, <3>1 DEF MemoryInv, FinalOnly
  <2>5. QED
    BY <2>1, <2>3, <2>4, ScanMoves
<1>5. QED
  BY <1>1, <1>2, <1>3, <1>4, ChainMovesKeeps, BeginKeeps, HeaderKeeps, IngestKeeps, RollbackKeeps
     DEF MemoryNext

\* Whatever the depth of scans, failures and rollbacks, a checkpoint stands for the
\* chain's block and its logs, and for those of all blocks since the first.
THEOREM CheckpointsStand == MemorySpec => []CheckpointsAreSound
<1>1. MemoryInv => CheckpointsAreSound
  BY DEF MemoryInv, CheckpointsAreSound
<1>2. QED
  BY <1>1, MemoryInvInit, MemoryKeeps, PTL DEF MemorySpec

\* A step keeps the content of every event that was projected once.
LEMMA EventsStep ==
  MemoryInv /\ [MemoryNext]_memoryVars =>
    \A l \in Logs :
      /\ Content(projection, l) # Unknown => Content(projection, l)' = Content(projection, l)
      /\ Unknown \in {projection'.events[l], projection'.uncertain[l]}
<1> SUFFICES ASSUME MemoryInv, [MemoryNext]_memoryVars, NEW l \in Logs
             PROVE  /\ Content(projection, l) # Unknown =>
                         Content(projection', l) = Content(projection, l)
                    /\ Unknown \in {projection'.events[l], projection'.uncertain[l]}
  OBVIOUS
<1>1. Unknown \in {projection'.events[l], projection'.uncertain[l]}
  BY MemoryKeeps DEF MemoryInv, OneContent
<1>2. CASE UNCHANGED projection
  BY <1>1, <1>2
<1>3. ASSUME NEW S \in SUBSET Logs, IngestLogs(S)
      PROVE  Content(projection, l) # Unknown => Content(projection', l) = Content(projection, l)
  <2> DEFINE new == [block |-> memoryScan.next, hash |-> memoryScan.hash]
  <2>1. /\ new # Unknown /\ \A x \in S : ~ EventConflict(projection, x, new)
        /\ projection'.events[l] = IF l \in S THEN new ELSE projection.events[l]
        /\ projection'.uncertain[l] = IF l \in S THEN Unknown ELSE projection.uncertain[l]
    BY <1>3, IngestEffect
  <2> HIDE DEF new
  <2>2. CASE l \in S
    <3>1. /\ projection.events[l] \in {Unknown, new}
          /\ projection.events[l] = Unknown => projection.uncertain[l] \in {Unknown, new}
      BY <2>1, <2>2 DEF EventConflict
    <3>2. QED
      BY <2>1, <2>2, <3>1 DEF Content
  <2>3. CASE l \notin S
    BY <2>1, <2>3 DEF Content
  <2>4. QED
    BY <2>2, <2>3
<1>4. ASSUME NEW n \in Evm!Heights, RollbackFrom(n)
      PROVE  Content(projection', l) = Content(projection, l)
  <2>1. IF projection.events[l].block < n
        THEN /\ projection'.events[l] = projection.events[l]
             /\ projection'.uncertain[l] = projection.uncertain[l]
        ELSE /\ projection.events[l] # Unknown /\ projection'.events[l] = Unknown
             /\ projection'.uncertain[l] = projection.events[l]
    BY <1>4, RollbackEffect
  <2>2. QED
    BY <2>1 DEF Content
<1>5. QED
  BY <1>1, <1>2, <1>3, <1>4 DEF MemoryNext, ChainMoves, BeginMemoryScan, ReadBlockHeader,
     MemoryScanFails, BlockVanished, CheckpointRefused, memoryVars

\* No rollback, conflict or repeated scan makes an event disappear or changes what it says.
THEOREM EventsAreKept == MemorySpec => NoEventIsForgotten
<1>1. MemoryInv /\ [MemoryNext]_memoryVars =>
        [\A l \in Logs :
           /\ Content(projection, l) # Unknown => Content(projection, l)' = Content(projection, l)
           /\ Unknown \in {projection'.events[l], projection'.uncertain[l]}]_memoryVars
  BY EventsStep
<1>2. QED
  BY <1>1, MemoryInvInit, MemoryKeeps, PTL DEF MemorySpec, NoEventIsForgotten
-----------------------------------------------------------------------------
(***************************************************************************)
(* The rate limiter.  Of a caller of the table it keeps the latest admissions,     *)
(* and all the older ones have left the window; so max_requests + 1 admissions       *)
(* in a row are a window apart, and a refused caller knows when the oldest leaves.     *)
(***************************************************************************)
LimiterSpec == LimiterInit /\ [][LimiterNext]_limiterVars

LimiterTypeOK ==
  /\ monotonic \in Nat
  /\ admitted \in [Callers -> Seq(Nat)] /\ promised \in [Callers -> Nat]
  /\ DOMAIN windows \subseteq Callers /\ \A k \in DOMAIN windows : windows[k] \in Seq(Nat)

\* w is a without its first gone elements, and those are so old that they left.
Left(w, a, gone) ==
  /\ gone \in 0..Len(a) /\ Len(w) = Len(a) - gone
  /\ \A i \in 1..Len(w) : w[i] = a[gone + i]
  /\ \A i \in 1..gone : a[i] + Window <= monotonic

LatestAreKept ==
  /\ \A k \in DOMAIN windows :
       /\ \E gone \in 0..Len(admitted[k]) : Left(windows[k], admitted[k], gone)
       /\ Len(windows[k]) <= MaxRequests
  /\ \A k \in Callers \ DOMAIN windows : admitted[k] = <<>> /\ promised[k] = 0

\* Admissions are in order, and those max_requests apart are a window apart.
Spread(a) ==
  /\ \A i \in DOMAIN a : a[i] <= monotonic
  /\ \A i, j \in DOMAIN a : i <= j => a[i] <= a[j]
  /\ \A i, j \in DOMAIN a : i + MaxRequests <= j => a[i] + Window <= a[j]

AdmissionsAreSpread == \A k \in Callers : Spread(admitted[k])

\* When a refused caller comes back as told, and Slack later, the oldest admission has left.
PromisesFit ==
  \A k \in Callers : promised[k] # 0 =>
    k \in DOMAIN windows /\ windows[k] # <<>> /\ windows[k][1] + Window <= promised[k] + Slack

LimiterInv ==
  LimiterTypeOK /\ LatestAreKept /\ AdmissionsAreSpread /\ PromisesFit /\ RetryAfterIsKept
-----------------------------------------------------------------------------
\* A set of numbers that is not empty has a least one.
LEMMA LeastOf ==
  ASSUME NEW T \in SUBSET Nat, T # {}
  PROVE  \E m \in T : \A n \in T : m <= n
<1> DEFINE Before == OpToRel(<, Nat)
<1>1. \A m, n \in Nat : n < m => <<n, m>> \in Before
  BY DEF OpToRel
<1>2. IsWellFoundedOn(Before, Nat)
  BY NatLessThanWellFounded
<1> HIDE DEF Before
<1>3. PICK m \in T : \A n \in T : ~ (<<n, m>> \in Before)
  <2>1. T \subseteq Nat
    OBVIOUS
  <2>2. \E m \in T : \A n \in T : ~ (<<n, m>> \in Before)
    BY <1>2, <2>1, WFMin
  <2>3. QED
    BY <2>2
<1>4. ASSUME NEW n \in T PROVE m <= n
  <2>1. m \in Nat /\ n \in Nat
    OBVIOUS
  <2>2. ~ n < m
    BY <1>1, <1>3, <2>1
  <2>3. QED
    BY <2>1, <2>2
<1>5. QED
  BY <1>4

\* _prune drops the admissions before the first that is in the window.
LEMMA PrunedFacts ==
  ASSUME NEW w \in Seq(Nat), monotonic \in Nat
  PROVE  /\ Pruned(w) \in Seq(Nat)
         /\ \E gone \in 0..Len(w) : Left(Pruned(w), w, gone)
         /\ Pruned(w) # <<>> => Pruned(w)[1] + Window > monotonic
<1> DEFINE Fits(n) == /\ \A i \in 1..(n - 1) : w[i] + Window <= monotonic
                      /\ n <= Len(w) => w[n] + Window > monotonic
           T == {n \in 1..(Len(w) + 1) : n <= Len(w) => w[n] + Window > monotonic}
           first == CHOOSE n \in 1..(Len(w) + 1) : Fits(n)
<1>1. Len(w) \in Nat /\ Window \in Nat /\ \A i \in 1..Len(w) : w[i] \in Nat
  BY RateLimiterAssumption
<1>2. T \in SUBSET Nat /\ Len(w) + 1 \in T
  BY <1>1
<1>3. PICK m \in T : \A n \in T : m <= n
  BY <1>2, LeastOf
<1>4. Fits(m)
  <2>1. ASSUME NEW i \in 1..(m - 1) PROVE w[i] + Window <= monotonic
    <3>1. i \in 1..Len(w) /\ i \notin T
      BY <1>1, <1>3
    <3>2. QED
      BY <1>1, <3>1
  <2>2. QED
    BY <1>3, <2>1
<1>5. m \in 1..(Len(w) + 1)
  BY <1>3
<1> HIDE DEF Fits, T
<1>6. first \in 1..(Len(w) + 1) /\ Fits(first)
  BY <1>4, <1>5
<1>7. Pruned(w) = SubSeq(w, first, Len(w))
  BY DEF Pruned, Fits
<1> HIDE DEF first
<1>8. /\ Pruned(w) \in Seq(Nat) /\ Len(Pruned(w)) = Len(w) - (first - 1)
      /\ \A i \in 1..Len(Pruned(w)) : Pruned(w)[i] = w[(first - 1) + i]
  BY <1>1, <1>6, <1>7
<1>9. Left(Pruned(w), w, first - 1)
  <2>1. first - 1 \in 0..Len(w)
    BY <1>1, <1>6
  <2>2. QED
    BY <1>6, <1>8, <2>1 DEF Left, Fits
<1>10. Pruned(w) # <<>> => Pruned(w)[1] + Window > monotonic
  <2>1. Pruned(w) # <<>> => first <= Len(w) /\ Pruned(w)[1] = w[first]
    BY <1>1, <1>6, <1>8
  <2>2. QED
    BY <1>6, <2>1 DEF Fits
<1>11. QED
  BY <1>1, <1>6, <1>8, <1>9, <1>10

\* Dropping the oldest twice is dropping the oldest.
LEMMA LeftTwice ==
  ASSUME NEW v \in Seq(Nat), NEW w \in Seq(Nat), NEW a \in Seq(Nat), NEW g, NEW h,
         Left(v, w, g), Left(w, a, h)
  PROVE  Left(v, a, h + g)
<1>1. Len(v) \in Nat /\ Len(w) \in Nat /\ Len(a) \in Nat /\ h \in 0..Len(a) /\ g \in 0..Len(w)
  BY DEF Left
<1>2. Len(w) = Len(a) - h /\ Len(v) = Len(w) - g
  BY DEF Left
<1>3. h + g \in 0..Len(a) /\ Len(v) = Len(a) - (h + g)
  BY <1>1, <1>2
<1>4. ASSUME NEW i \in 1..Len(v) PROVE v[i] = a[(h + g) + i]
  <2>1. v[i] = w[g + i] /\ g + i \in 1..Len(w)
    BY <1>1, <1>2 DEF Left
  <2>2. w[g + i] = a[h + (g + i)]
    BY <2>1 DEF Left
  <2>3. h + (g + i) = (h + g) + i
    BY <1>1
  <2>4. QED
    BY <2>1, <2>2, <2>3
<1>5. ASSUME NEW i \in 1..(h + g) PROVE a[i] + Window <= monotonic
  <2>1. CASE i <= h
    BY <1>1, <2>1 DEF Left
  <2>2. CASE ~ i <= h
    <3>1. i - h \in 1..g /\ i - h \in 1..Len(w) /\ h + (i - h) = i
      BY <1>1, <1>2, <2>2
    <3>2. w[i - h] = a[i] /\ w[i - h] + Window <= monotonic
      BY <3>1 DEF Left
    <3>3. QED
      BY <3>2
  <2>3. QED
    BY <2>1, <2>2
<1>6. QED
  BY <1>3, <1>4, <1>5 DEF Left
-----------------------------------------------------------------------------
\* The table is empty at first.
LEMMA LimiterInvInit == LimiterInit => LimiterInv
BY RateLimiterAssumption DEF LimiterInit, LimiterInv, LimiterTypeOK, LatestAreKept, Left,
   AdmissionsAreSpread, Spread, PromisesFit, RetryAfterIsKept

\* An admission is a window after the one max_requests before it.
LEMMA AppendSpreads ==
  ASSUME NEW w \in Seq(Nat), NEW a \in Seq(Nat), NEW gone, Left(w, a, gone),
         Len(w) < MaxRequests, Spread(a), monotonic \in Nat
  PROVE  Spread(Append(a, monotonic))
<1> DEFINE b == Append(a, monotonic)
<1>1. /\ Len(a) \in Nat /\ Len(w) \in Nat /\ DOMAIN a = 1..Len(a) /\ DOMAIN b = 1..(Len(a) + 1)
      /\ b[Len(a) + 1] = monotonic /\ \A i \in 1..Len(a) : b[i] = a[i] /\ a[i] \in Nat
      /\ MaxRequests \in Nat \ {0} /\ Window \in Nat
  BY RateLimiterAssumption
<1> HIDE DEF b
<1>2. \A i \in DOMAIN b : b[i] <= monotonic
  BY <1>1 DEF Spread
<1>3. \A i, j \in DOMAIN b : i <= j => b[i] <= b[j]
  BY <1>1, <1>2, SMTT(20) DEF Spread
<1>4. ASSUME NEW i \in DOMAIN b, NEW j \in DOMAIN b, i + MaxRequests <= j
      PROVE  b[i] + Window <= b[j]
  <2>1. CASE j \in 1..Len(a)
    <3>1. i \in 1..Len(a)
      BY <1>1, <1>4, <2>1
    <3>2. a[i] + Window <= a[j]
      BY <1>1, <1>4, <2>1, <3>1 DEF Spread
    <3>3. QED
      BY <1>1, <2>1, <3>1, <3>2
  <2>2. CASE j = Len(a) + 1
    <3>1. gone \in 0..Len(a) /\ Len(w) = Len(a) - gone
      BY DEF Left
    <3>2. i \in 1..gone /\ i \in 1..Len(a)
      BY <1>1, <1>4, <2>2, <3>1, SMTT(20)
    <3>3. a[i] + Window <= monotonic
      BY <3>2 DEF Left
    <3>4. QED
      BY <1>1, <2>2, <3>2, <3>3
  <2>3. QED
    BY <1>1, <2>1, <2>2
<1>5. QED
  BY <1>2, <1>3, <1>4 DEF Spread, b

\* An element at the end of both.
LEMMA AppendLeft ==
  ASSUME NEW w \in Seq(Nat), NEW a \in Seq(Nat), NEW gone, Left(w, a, gone), NEW x \in Nat
  PROVE  Left(Append(w, x), Append(a, x), gone)
<1>1. /\ Len(w) \in Nat /\ Len(a) \in Nat /\ gone \in 0..Len(a) /\ Len(w) = Len(a) - gone
  BY DEF Left
<1>2. /\ Len(Append(w, x)) = Len(w) + 1 /\ Len(Append(a, x)) = Len(a) + 1
      /\ \A i \in 1..Len(w) : Append(w, x)[i] = w[i]
      /\ \A i \in 1..Len(a) : Append(a, x)[i] = a[i]
      /\ Append(w, x)[Len(w) + 1] = x /\ Append(a, x)[Len(a) + 1] = x
  OBVIOUS
<1>3. ASSUME NEW i \in 1..(Len(w) + 1) PROVE Append(w, x)[i] = Append(a, x)[gone + i]
  <2>1. CASE i = Len(w) + 1
    <3>1. gone + i = Len(a) + 1
      BY <1>1, <2>1
    <3>2. QED
      BY <1>2, <2>1, <3>1
  <2>2. CASE i \in 1..Len(w)
    <3>1. gone + i \in 1..Len(a)
      BY <1>1, <2>2
    <3>2. w[i] = a[gone + i]
      BY <2>2 DEF Left
    <3>3. QED
      BY <1>2, <2>2, <3>1, <3>2
  <2>3. i = Len(w) + 1 \/ i \in 1..Len(w)
    BY <1>1, SMTT(20)
  <2>4. QED
    BY <2>1, <2>2, <2>3
<1>4. \A i \in 1..gone : Append(a, x)[i] + Window <= monotonic
  BY <1>1, <1>2 DEF Left
<1>5. gone \in 0..Len(Append(a, x)) /\ Len(Append(w, x)) = Len(Append(a, x)) - gone
  BY <1>1, <1>2
<1>6. QED
  BY <1>2, <1>3, <1>4, <1>5 DEF Left

\* Dividing numbers, and dropping a factor.
LEMMA Divided ==
  ASSUME NEW a \in Nat, NEW d \in Nat \ {0}
  PROVE  a \div d \in Nat /\ (a \div d) * d <= a /\ a < (a \div d) * d + d
OBVIOUS

LEMMA FewerTimes ==
  ASSUME NEW m \in Nat, NEW n \in Nat, NEW d \in Nat \ {0}, m * d < n * d
  PROVE  m < n
OBVIOUS

\* The seconds named for what is left: with the slack they suffice, and one less does not.
LEMMA SecondsFit ==
  ASSUME NEW left \in Nat, left <= Window
  PROVE  LET s == WholeSeconds(left)
         IN  /\ s \in 1 .. Window \div Second + 1 /\ s * Second \in Nat /\ Slack \in Nat \ {0}
             /\ left <= s * Second + Slack
             /\ s > 1 => (s - 1) * Second + Slack <= left
<1> DEFINE q == (left + Rounding) \div Second
           m == Window \div Second
           s == WholeSeconds(left)
<1>1. /\ Second \in Nat \ {0} /\ Rounding \in Nat /\ Rounding < Second /\ Window \in Nat
      /\ left + Rounding \in Nat /\ Slack = Second - Rounding
  BY RateLimiterAssumption DEF Slack
<1>2. q \in Nat /\ q * Second <= left + Rounding /\ left + Rounding < q * Second + Second
  BY <1>1, Divided
<1>3. m \in Nat /\ m * Second <= Window /\ Window < m * Second + Second
  BY <1>1, Divided
<1>4. s = IF q < 1 THEN 1 ELSE q
  BY DEF WholeSeconds
<1> HIDE DEF q, m, s
<1>5. q * Second \in Nat /\ m * Second \in Nat
  BY <1>1, <1>2, <1>3
<1>6. q <= m + 1
  <2>1. (m + 2) * Second = m * Second + Second + Second
    BY <1>1, <1>3
  <2>2. q * Second < (m + 2) * Second
    BY <1>1, <1>2, <1>3, <1>5, <2>1
  <2>3. q < m + 2
    BY <1>1, <1>2, <1>3, <2>2, FewerTimes
  <2>4. QED
    BY <1>2, <1>3, <2>3
<1>7. CASE q < 1
  <2>1. q = 0 /\ s = 1 /\ q * Second = 0 /\ s * Second = Second
    BY <1>1, <1>2, <1>4, <1>7
  <2>2. QED
    BY <1>1, <1>2, <1>3, <2>1 DEF m, s
<1>8. CASE ~ q < 1
  <2>1. s = q /\ s \in 1 .. m + 1
    BY <1>2, <1>3, <1>4, <1>6, <1>8
  <2>2. (s - 1) * Second = q * Second - Second
    BY <1>1, <1>2, <2>1
  <2>3. QED
    BY <1>1, <1>2, <1>5, <2>1, <2>2 DEF m, s
<1>9. QED
  BY <1>7, <1>8

\* The answer is no less than is left, but for the slack.
LEMMA RetryAfterSuffices ==
  ASSUME NEW w \in Seq(Nat), w # <<>>, monotonic \in Nat,
         w[1] <= monotonic, w[1] + Window > monotonic
  PROVE  /\ RetryAfter(w) \in Nat /\ Slack \in Nat \ {0}
         /\ w[1] + Window <= monotonic + RetryAfter(w) + Slack
<1> DEFINE left == w[1] + Window - monotonic
<1>1. w[1] \in Nat /\ Head(w) = w[1] /\ Window \in Nat
  BY RateLimiterAssumption
<1>2. left \in Nat /\ left <= Window /\ w[1] + Window = monotonic + left
  BY <1>1
<1>3. RetryAfter(w) = WholeSeconds(left) * Second
  BY <1>1 DEF RetryAfter
<1> HIDE DEF left
<1>4. /\ RetryAfter(w) \in Nat /\ Slack \in Nat \ {0}
      /\ left <= RetryAfter(w) + Slack
  BY <1>2, <1>3, SecondsFit
<1>5. QED
  BY <1>1, <1>2, <1>4

\* What a call finds: the admissions that are in the window.
LEMMA AllowFinds ==
  ASSUME LimiterInv, NEW k \in Callers
  PROVE  LET q == IF InTable(k) THEN Pruned(windows[k]) ELSE <<>>
         IN  /\ q \in Seq(Nat) /\ Len(q) <= MaxRequests
             /\ \E gone \in 0..Len(admitted[k]) : Left(q, admitted[k], gone)
             /\ q # <<>> => q[1] + Window > monotonic
             /\ promised[k] # 0 /\ promised[k] + Slack <= monotonic => Len(q) < MaxRequests
<1> DEFINE q == IF InTable(k) THEN Pruned(windows[k]) ELSE <<>>
<1>1. /\ monotonic \in Nat /\ admitted[k] \in Seq(Nat) /\ promised[k] \in Nat
      /\ MaxRequests \in Nat \ {0} /\ Window \in Nat
  BY RateLimiterAssumption DEF LimiterInv, LimiterTypeOK
<1>2. CASE ~ InTable(k)
  <2>1. admitted[k] = <<>> /\ promised[k] = 0 /\ q = <<>>
    BY <1>2 DEF LimiterInv, LatestAreKept, InTable
  <2>2. Left(<<>>, <<>>, 0) /\ <<>> \in Seq(Nat) /\ Len(<<>>) = 0
    BY DEF Left
  <2> HIDE DEF q
  <2>3. q \in Seq(Nat) /\ Len(q) = 0 /\ Left(q, admitted[k], 0) /\ 0 \in 0..Len(admitted[k])
    BY <2>1, <2>2
  <2>4. QED
    BY <1>1, <2>1, <2>3 DEF q
<1>3. CASE InTable(k)
  <2> DEFINE w == windows[k]
  <2>1. w \in Seq(Nat) /\ Len(w) <= MaxRequests /\ q = Pruned(w)
    BY <1>3 DEF LimiterInv, LimiterTypeOK, LatestAreKept, InTable
  <2>2. PICK h \in 0..Len(admitted[k]) : Left(w, admitted[k], h)
    BY <1>3 DEF LimiterInv, LatestAreKept, InTable
  <2>3. promised[k] # 0 => w # <<>> /\ w[1] + Window <= promised[k] + Slack
    BY DEF LimiterInv, PromisesFit
  <2> HIDE DEF w, q
  <2>4. q \in Seq(Nat) /\ (q # <<>> => q[1] + Window > monotonic)
    BY <1>1, <2>1, PrunedFacts
  <2>5. PICK g \in 0..Len(w) : Left(q, w, g)
    BY <1>1, <2>1, PrunedFacts
  <2>6. Left(q, admitted[k], h + g)
    BY <1>1, <2>1, <2>2, <2>4, <2>5, LeftTwice
  <2>7. h + g \in 0..Len(admitted[k])
    BY <2>6 DEF Left
  <2>8. Len(q) = Len(w) - g /\ Len(q) \in Nat /\ Len(w) \in Nat /\ g \in Nat
    BY <2>1, <2>4, <2>5 DEF Left
  <2>9. promised[k] # 0 /\ promised[k] + Slack <= monotonic => Len(q) < MaxRequests
    <3> SUFFICES ASSUME promised[k] # 0, promised[k] + Slack <= monotonic
                 PROVE  Len(q) < MaxRequests
      OBVIOUS
    <3>1. w # <<>> /\ w[1] + Window <= promised[k] + Slack
      BY <2>3
    <3>2. w[1] \in Nat /\ 1 \in 1..Len(w)
      BY <2>1, <3>1
    <3>3. g # 0
      <4>1. SUFFICES ASSUME g = 0 PROVE FALSE
        OBVIOUS
      <4>2. q[1] = w[1] /\ q # <<>>
        BY <2>5, <2>8, <3>2, <4>1 DEF Left
      <4>3. w[1] \in Nat /\ w[1] + Window <= promised[k] + Slack /\ q[1] + Window > monotonic
        BY <2>4, <3>1, <3>2, <4>2
      <4>4. Slack \in Nat /\ Window \in Nat /\ monotonic \in Nat /\ promised[k] \in Nat
        BY <1>1, RateLimiterAssumption DEF Slack, LimiterInv, LimiterTypeOK
      <4>5. q[1] + Window <= promised[k] + Slack
        BY <4>2, <4>3
      <4>6. q[1] + Window > promised[k] + Slack
        BY <4>2, <4>3, <4>4
      <4>7. QED
        BY <4>2, <4>3, <4>4, <4>5, <4>6
    <3>4. QED
      BY <1>1, <2>1, <2>8, <3>3
  <2>10. QED
    BY <1>1, <2>1, <2>4, <2>6, <2>7, <2>8, <2>9, SMTT(20) DEF q
<1>4. QED
  BY <1>2, <1>3
\* A call leaves the latest admissions and a promise that fits them.
LEMMA AllowKeeps ==
  ASSUME LimiterInv, NEW k \in Callers, Allow(k)
  PROVE  LimiterInv'
<1> DEFINE q == IF InTable(k) THEN Pruned(windows[k]) ELSE <<>>
           allowed == Len(q) < MaxRequests
           kept == IF allowed THEN Append(q, monotonic) ELSE q
           a == IF allowed THEN Append(admitted[k], monotonic) ELSE admitted[k]
<1>1. /\ monotonic \in Nat /\ admitted \in [Callers -> Seq(Nat)] /\ promised \in [Callers -> Nat]
      /\ DOMAIN windows \subseteq Callers /\ MaxRequests \in Nat \ {0} /\ Window \in Nat
      /\ \A j \in DOMAIN windows : windows[j] \in Seq(Nat)
  BY RateLimiterAssumption DEF LimiterInv, LimiterTypeOK
<1>2. /\ q \in Seq(Nat) /\ Len(q) <= MaxRequests
      /\ \E gone \in 0..Len(admitted[k]) : Left(q, admitted[k], gone)
      /\ q # <<>> => q[1] + Window > monotonic
      /\ promised[k] # 0 /\ promised[k] + Slack <= monotonic => Len(q) < MaxRequests
  BY AllowFinds
<1>3. /\ windows' = [j \in DOMAIN windows \cup {k} |-> IF j = k THEN kept ELSE windows[j]]
      /\ admitted' = IF allowed THEN [admitted EXCEPT ![k] = Append(@, monotonic)] ELSE admitted
      /\ promised' = [promised EXCEPT ![k] = IF allowed THEN 0 ELSE monotonic + RetryAfter(q)]
      /\ brokenWord' =
           (brokenWord \/ (~ allowed /\ promised[k] # 0 /\ promised[k] + Slack <= monotonic))
      /\ monotonic' = monotonic
  BY DEF Allow
<1> HIDE DEF q
<1>4. /\ admitted' = [admitted EXCEPT ![k] = a] /\ admitted'[k] = a
      /\ \A j \in Callers \ {k} : admitted'[j] = admitted[j]
  BY <1>1, <1>3
<1>5. a \in Seq(Nat) /\ kept \in Seq(Nat) /\ kept # <<>>
  <2>1. CASE allowed
    <3>1. /\ Append(admitted[k], monotonic) \in Seq(Nat) /\ Append(q, monotonic) \in Seq(Nat)
          /\ Len(Append(q, monotonic)) = Len(q) + 1 /\ Len(q) \in Nat
      BY <1>1, <1>2
    <3>2. Append(q, monotonic) # <<>>
      BY <3>1
    <3>3. QED
      BY <2>1, <3>1, <3>2
  <2>2. CASE ~ allowed
    <3>1. Len(q) # 0
      BY <1>1, <1>2, <2>2
    <3>2. QED
      BY <1>1, <1>2, <2>2, <3>1
  <2>3. QED
    BY <2>1, <2>2
<1>6. Len(kept) <= MaxRequests /\ \E gone \in 0..Len(a) : Left(kept, a, gone)
  <2>1. PICK gone \in 0..Len(admitted[k]) : Left(q, admitted[k], gone)
    BY <1>2
  <2>2. CASE allowed
    <3>1. Left(kept, a, gone)
      BY <1>1, <1>2, <2>1, <2>2, AppendLeft
    <3>2. gone \in 0..Len(a)
      BY <3>1 DEF Left
    <3>3. Len(kept) = Len(q) + 1 /\ Len(q) \in Nat
      BY <1>1, <1>2, <2>2
    <3>4. QED
      BY <1>1, <2>2, <3>1, <3>2, <3>3
  <2>3. CASE ~ allowed
    BY <1>2, <2>1, <2>3
  <2>4. QED
    BY <2>2, <2>3
<1>7. Spread(a)
  <2>1. Spread(admitted[k])
    BY DEF LimiterInv, AdmissionsAreSpread
  <2>2. CASE allowed
    BY <1>1, <1>2, <2>1, <2>2, AppendSpreads
  <2>3. CASE ~ allowed
    BY <2>1, <2>3
  <2>4. QED
    BY <2>2, <2>3
<1>8. ~ allowed => /\ RetryAfter(q) \in Nat /\ kept = q
                   /\ kept[1] + Window <= monotonic + RetryAfter(q) + Slack
  <2>1. ~ allowed => q # <<>> /\ q[1] + Window > monotonic
    BY <1>2, <1>5
  <2>2. ASSUME q # <<>> PROVE q[1] <= monotonic
    <3>1. PICK gone \in 0..Len(admitted[k]) : Left(q, admitted[k], gone)
      BY <1>2
    <3>2. Len(q) \in Nat /\ Len(q) # 0 /\ admitted[k] \in Seq(Nat)
      BY <1>1, <1>2, <2>2
    <3>3. q[1] = admitted[k][gone + 1] /\ gone + 1 \in DOMAIN admitted[k]
      BY <3>1, <3>2 DEF Left
    <3>4. QED
      BY <3>3 DEF LimiterInv, AdmissionsAreSpread, Spread
  <2>3. QED
    BY <1>1, <1>2, <2>1, <2>2, RetryAfterSuffices
<1> HIDE DEF allowed, kept, a
<1>9. /\ DOMAIN windows' = DOMAIN windows \cup {k} /\ windows'[k] = kept
      /\ \A j \in DOMAIN windows \ {k} : windows'[j] = windows[j]
  BY <1>3
<1>10. /\ promised' \in [Callers -> Nat] /\ \A j \in Callers \ {k} : promised'[j] = promised[j]
       /\ promised'[k] = IF allowed THEN 0 ELSE monotonic + RetryAfter(q)
  BY <1>1, <1>3, <1>8
<1>11. LimiterTypeOK'
  BY <1>1, <1>3, <1>4, <1>5, <1>9, <1>10 DEF LimiterTypeOK
<1>12. LatestAreKept'
  <2>1. ASSUME NEW j \in DOMAIN windows'
        PROVE  /\ \E gone \in 0..Len(admitted'[j]) : Left(windows[j], admitted[j], gone)'
               /\ Len(windows'[j]) <= MaxRequests
    <3>1. CASE j = k
      BY <1>3, <1>4, <1>6, <1>9, <3>1 DEF Left
    <3>2. CASE j # k
      <4>1. /\ j \in DOMAIN windows /\ j \in Callers
            /\ windows'[j] = windows[j] /\ admitted'[j] = admitted[j]
        BY <1>1, <1>4, <1>9, <2>1, <3>2
      <4>2. PICK gone \in 0..Len(admitted[j]) : Left(windows[j], admitted[j], gone)
        BY <4>1 DEF LimiterInv, LatestAreKept
      <4>3. Left(windows[j], admitted[j], gone)'
        BY <1>3, <4>1, <4>2 DEF Left
      <4>4. QED
        BY <4>1, <4>2, <4>3 DEF LimiterInv, LatestAreKept
    <3>3. QED
      BY <3>1, <3>2
  <2>2. ASSUME NEW j \in Callers \ DOMAIN windows'
        PROVE  admitted'[j] = <<>> /\ promised'[j] = 0
    BY <1>4, <1>9, <1>10, <2>2 DEF LimiterInv, LatestAreKept
  <2>3. QED
    BY <2>1, <2>2 DEF LatestAreKept
<1>13. AdmissionsAreSpread'
  <2>1. ASSUME NEW j \in Callers PROVE Spread(admitted[j])'
    <3>1. CASE j = k
      BY <1>3, <1>4, <1>7, <3>1 DEF Spread
    <3>2. CASE j # k
      BY <1>3, <1>4, <3>2 DEF LimiterInv, AdmissionsAreSpread, Spread
    <3>3. QED
      BY <3>1, <3>2
  <2>2. QED
    BY <2>1 DEF AdmissionsAreSpread
<1>14. PromisesFit'
  <2>1. ASSUME NEW j \in Callers, promised'[j] # 0
        PROVE  /\ j \in DOMAIN windows' /\ windows'[j] # <<>>
               /\ windows'[j][1] + Window <= promised'[j] + Slack
    <3>1. CASE j = k
      BY <1>5, <1>8, <1>9, <1>10, <2>1, <3>1
    <3>2. CASE j # k
      BY <1>9, <1>10, <2>1, <3>2 DEF LimiterInv, PromisesFit
    <3>3. QED
      BY <3>1, <3>2
  <2>2. QED
    BY <2>1 DEF PromisesFit
<1>15. RetryAfterIsKept'
  <2>1. ~ (~ allowed /\ promised[k] # 0 /\ promised[k] + Slack <= monotonic)
    BY <1>2 DEF allowed
  <2>2. QED
    BY <1>3, <2>1 DEF LimiterInv, RetryAfterIsKept
<1>16. QED
  BY <1>11, <1>12, <1>13, <1>14, <1>15 DEF LimiterInv

\* What has left the window does not come back.
LEMMA ClockKeeps ==
  ASSUME LimiterInv, UNCHANGED <<windows, admitted, promised, brokenWord>>,
         monotonic' \in Nat, monotonic <= monotonic'
  PROVE  LimiterInv'
<1>1. /\ monotonic \in Nat /\ Window \in Nat /\ admitted \in [Callers -> Seq(Nat)]
      /\ DOMAIN windows \subseteq Callers
  BY RateLimiterAssumption DEF LimiterInv, LimiterTypeOK
<1>2. LimiterTypeOK' /\ PromisesFit' /\ RetryAfterIsKept'
  BY DEF LimiterInv, LimiterTypeOK, PromisesFit, RetryAfterIsKept
<1>3. LatestAreKept'
  <2>1. ASSUME NEW k \in DOMAIN windows
        PROVE  \E gone \in 0..Len(admitted[k]) : Left(windows[k], admitted[k], gone)'
    <3>1. PICK gone \in 0..Len(admitted[k]) : Left(windows[k], admitted[k], gone)
      BY DEF LimiterInv, LatestAreKept
    <3>2. admitted[k] \in Seq(Nat)
      BY <1>1
    <3>3. \A i \in 1..gone : admitted[k][i] + Window <= monotonic'
      <4>1. ASSUME NEW i \in 1..gone PROVE admitted[k][i] + Window <= monotonic'
        <5>1. admitted[k][i] \in Nat /\ admitted[k][i] + Window <= monotonic
          BY <3>1, <3>2 DEF Left
        <5>2. QED
          BY <1>1, <5>1
      <4>2. QED
        BY <4>1
    <3>4. QED
      BY <3>1, <3>3 DEF Left
  <2>2. QED
    BY <2>1 DEF LimiterInv, LatestAreKept
<1>4. AdmissionsAreSpread'
  <2>1. ASSUME NEW k \in Callers PROVE Spread(admitted[k])'
    <3>1. Spread(admitted[k]) /\ admitted[k] \in Seq(Nat)
      BY <1>1 DEF LimiterInv, AdmissionsAreSpread
    <3>2. \A i \in DOMAIN admitted[k] : admitted[k][i] <= monotonic'
      BY <1>1, <3>1 DEF Spread
    <3>3. QED
      BY <3>1, <3>2 DEF Spread
  <2>2. QED
    BY <2>1 DEF AdmissionsAreSpread
<1>5. QED
  BY <1>2, <1>3, <1>4 DEF LimiterInv

\* Every step of the limiter keeps the invariant.
LEMMA LimiterKeeps == LimiterInv /\ [LimiterNext]_limiterVars => LimiterInv'
<1> SUFFICES ASSUME LimiterInv, [LimiterNext]_limiterVars PROVE LimiterInv'
  OBVIOUS
<1>1. monotonic \in Nat
  BY DEF LimiterInv, LimiterTypeOK
<1>2. CASE ClockAdvances
  BY <1>1, <1>2, ClockKeeps, RateLimiterAssumption DEF ClockAdvances
<1>3. CASE Clear
  BY <1>1, <1>3 DEF Clear, LimiterInv, LimiterTypeOK, LatestAreKept, AdmissionsAreSpread, Spread,
     PromisesFit, RetryAfterIsKept
<1>4. CASE UNCHANGED limiterVars
  BY <1>1, <1>4, ClockKeeps DEF limiterVars
<1>5. QED
  BY <1>2, <1>3, <1>4, AllowKeeps DEF LimiterNext

\* Admissions that are spread fill no window.
LEMMA SpreadFitsWindow ==
  ASSUME NEW a \in Seq(Nat), Spread(a), NEW b \in DOMAIN a
  PROVE  Cardinality({i \in DOMAIN a : a[b] <= a[i] /\ a[i] < a[b] + Window}) <= MaxRequests
<1> DEFINE I == {i \in DOMAIN a : a[b] <= a[i] /\ a[i] < a[b] + Window}
<1>1. /\ MaxRequests \in Nat \ {0} /\ Window \in Nat /\ I \subseteq DOMAIN a /\ I \in SUBSET Nat
      /\ a[b] \in Nat /\ \A i \in I : a[i] \in Nat /\ a[b] <= a[i] /\ a[i] < a[b] + Window
  BY RateLimiterAssumption
<1> HIDE DEF I
<1>2. CASE I = {}
  <2>1. Cardinality({}) = 0
    BY FS_EmptySet
  <2>2. Cardinality(I) <= MaxRequests
    BY <1>1, <1>2, <2>1
  <2>3. QED
    BY <2>2 DEF I
<1>3. CASE I # {}
  <2>1. PICK m \in I : \A i \in I : m <= i
    BY <1>1, <1>3, LeastOf
  <2> DEFINE J == m..(m + MaxRequests - 1)
  <2>2. I \subseteq J
    <3>1. ASSUME NEW i \in I PROVE i < m + MaxRequests
      <4>1. SUFFICES ASSUME m + MaxRequests <= i PROVE FALSE
        BY <1>1
      <4>2. a[m] + Window <= a[i]
        BY <1>1, <4>1 DEF Spread
      <4>3. QED
        BY <1>1, <4>2
    <3>2. QED
      BY <1>1, <2>1, <3>1, SMTT(20)
  <2>3. m \in Int /\ m + MaxRequests - 1 \in Int
    BY <1>1
  <2>4. IsFiniteSet(J) /\ Cardinality(J) = IF m > m + MaxRequests - 1 THEN 0
                                           ELSE (m + MaxRequests - 1) - m + 1
    BY <2>3, FS_Interval
  <2>5. Cardinality(J) = MaxRequests
    BY <1>1, <2>3, <2>4
  <2>6. Cardinality(I) <= Cardinality(J)
    BY <2>2, <2>4, FS_Subset
  <2>7. QED
    BY <2>5, <2>6 DEF I
<1>4. QED
  BY <1>2, <1>3

\* However many requests there are, no window holds more than max_requests of them, and a
\* caller that comes back when it was told, and what is not rounded up later, is admitted.
THEOREM WindowsAreKept == LimiterSpec => [](WindowHolds /\ RetryAfterIsKept)
<1>1. LimiterInv => WindowHolds /\ RetryAfterIsKept
  <2> SUFFICES ASSUME LimiterInv PROVE WindowHolds /\ RetryAfterIsKept
    OBVIOUS
  <2>1. \A k \in Callers : admitted[k] \in Seq(Nat) /\ Spread(admitted[k])
    BY DEF LimiterInv, LimiterTypeOK, AdmissionsAreSpread
  <2>2. WindowHolds
    BY <2>1, SpreadFitsWindow DEF WindowHolds
  <2>3. QED
    BY <2>2 DEF LimiterInv
<1>2. QED
  BY <1>1, LimiterInvInit, LimiterKeeps, PTL DEF LimiterSpec
-----------------------------------------------------------------------------
(***************************************************************************)
(* The limiter decides as one that forgets nothing: until the oldest admission it     *)
(* kept leaves the window, those it kept are all that count, and from then on          *)
(* fewer do.                                                                             *)
(***************************************************************************)
\* q is the admissions of k that are in the window now.
InWindow(k, q, gone) ==
  /\ q \in Seq(Nat) /\ Len(q) <= MaxRequests /\ Left(q, admitted[k], gone)
  /\ q # <<>> => q[1] + Window > monotonic

LEMMA CountingFacts ==
  ASSUME LimiterInv, NEW k \in Callers, NEW q, NEW gone, InWindow(k, q, gone)
  PROVE  /\ monotonic \in Nat /\ Window \in Nat \ {0} /\ admitted[k] \in Seq(Nat)
         /\ Len(q) \in Nat /\ gone \in Nat /\ Len(admitted[k]) = gone + Len(q)
         /\ \A i \in DOMAIN admitted[k] :
              /\ admitted[k][i] \in Nat /\ admitted[k][i] <= monotonic
              /\ i <= gone => admitted[k][i] + Window <= monotonic
              /\ i > gone => q # <<>> /\ q[1] \in Nat /\ q[1] <= admitted[k][i]
         /\ q # <<>> => /\ q[1] \in Nat /\ q[1] = admitted[k][gone + 1] /\ q[1] <= monotonic
                        /\ gone + 1 \in DOMAIN admitted[k]
<1> DEFINE a == admitted[k]
<1>1. /\ monotonic \in Nat /\ Window \in Nat \ {0} /\ a \in Seq(Nat) /\ Spread(a)
      /\ q \in Seq(Nat) /\ Left(q, a, gone)
  BY RateLimiterAssumption DEF LimiterInv, LimiterTypeOK, AdmissionsAreSpread, InWindow
<1> HIDE DEF a
<1>2. /\ Len(q) \in Nat /\ gone \in 0..Len(a) /\ Len(a) \in Nat /\ Len(q) = Len(a) - gone
      /\ DOMAIN a = 1..Len(a) /\ \A i \in DOMAIN a : a[i] \in Nat
  BY <1>1 DEF Left
<1>3. q # <<>> => /\ q[1] = a[gone + 1] /\ gone + 1 \in DOMAIN a
  <2>1. q # <<>> => 1 \in 1..Len(q)
    BY <1>1
  <2>2. QED
    BY <1>1, <1>2, <2>1 DEF Left
<1>4. ASSUME NEW i \in DOMAIN a
      PROVE  /\ a[i] \in Nat /\ a[i] <= monotonic
             /\ i <= gone => a[i] + Window <= monotonic
             /\ i > gone => q # <<>> /\ q[1] \in Nat /\ q[1] <= a[i]
  <2>1. a[i] \in Nat /\ a[i] <= monotonic
    BY <1>1, <1>2 DEF Spread
  <2>2. i <= gone => a[i] + Window <= monotonic
    BY <1>1, <1>2 DEF Left
  <2>3. ASSUME i > gone PROVE q # <<>> /\ q[1] \in Nat /\ q[1] <= a[i]
    <3>1. Len(q) # 0
      BY <1>2, <2>3
    <3>2. q # <<>>
      BY <3>1
    <3>3. gone + 1 <= i /\ gone + 1 \in DOMAIN a
      BY <1>2, <1>3, <2>3, <3>2
    <3>4. a[gone + 1] <= a[i]
      BY <1>1, <3>3 DEF Spread
    <3>5. QED
      BY <1>2, <1>3, <3>2, <3>3, <3>4
  <2>4. QED
    BY <2>1, <2>2, <2>3
<1>5. q # <<>> => q[1] \in Nat /\ q[1] <= monotonic
  BY <1>2, <1>3, <1>4
<1>6. QED
  BY <1>1, <1>2, <1>3, <1>4, <1>5 DEF a

\* The instance counts as this module does.
LEMMA IdealCardinality == \A S : Ideal!Cardinality(S) = Cardinality(S)
BY DEF Ideal!Cardinality, Cardinality

\* How many numbers there are from m + 1 to n.
LEMMA CardinalityOfRest ==
  ASSUME NEW m \in Nat, NEW n \in Nat, m <= n
  PROVE  IsFiniteSet((m + 1)..n) /\ Cardinality((m + 1)..n) = n - m
<1>1. m + 1 \in Int /\ n \in Int
  OBVIOUS
<1>2. IsFiniteSet((m + 1)..n) /\ Cardinality((m + 1)..n) = IF m + 1 > n THEN 0 ELSE n - (m + 1) + 1
  BY <1>1, FS_Interval
<1>3. QED
  BY <1>2

\* Until the oldest leaves, the same admissions count.
LEMMA KeptAreCounted ==
  ASSUME LimiterInv, NEW k \in Callers, NEW q, NEW gone, InWindow(k, q, gone),
         NEW t \in Nat, monotonic <= t, q # <<>> => t < q[1] + Window
  PROVE  Ideal!Room(k, t) <=> Len(q) < MaxRequests
<1> DEFINE a == admitted[k]
<1>1. /\ monotonic \in Nat /\ Window \in Nat \ {0} /\ a \in Seq(Nat) /\ Len(q) \in Nat
      /\ gone \in Nat /\ Len(a) = gone + Len(q)
      /\ \A i \in DOMAIN a : /\ a[i] \in Nat /\ a[i] <= monotonic
                             /\ i <= gone => a[i] + Window <= monotonic
                             /\ i > gone => q # <<>> /\ q[1] \in Nat /\ q[1] <= a[i]
  BY CountingFacts
<1> HIDE DEF a
<1>2. Ideal!Counting(k, t) = {i \in DOMAIN a : a[i] + Window > t}
  BY DEF Ideal!Counting, a
<1>3. DOMAIN a = 1..Len(a) /\ Len(a) \in Nat
  BY <1>1
<1>4. ASSUME NEW i \in DOMAIN a PROVE a[i] + Window > t <=> i > gone
  <2>1. CASE i > gone
    <3>1. q # <<>> /\ q[1] \in Nat /\ q[1] <= a[i] /\ a[i] \in Nat
      BY <1>1, <2>1
    <3>2. QED
      BY <1>1, <2>1, <3>1, SMTT(20)
  <2>2. CASE i <= gone
    <3>1. a[i] \in Nat /\ a[i] + Window <= monotonic
      BY <1>1, <2>2
    <3>2. QED
      BY <1>1, <1>3, <2>2, <3>1
  <2>3. QED
    BY <1>1, <1>3, <2>1, <2>2
<1>5. Ideal!Counting(k, t) = (gone + 1)..Len(a)
  <2>1. \A i : i \in (gone + 1)..Len(a) <=> i \in DOMAIN a /\ i > gone
    BY <1>1, <1>3
  <2>2. QED
    BY <1>2, <1>4, <2>1
<1>6. Cardinality(Ideal!Counting(k, t)) = Len(q)
  <2>1. gone <= Len(a) /\ Len(a) - gone = Len(q)
    BY <1>1
  <2>2. QED
    BY <1>1, <1>3, <1>5, <2>1, CardinalityOfRest
<1>7. QED
  BY <1>6, IdealCardinality DEF Ideal!Room

\* Once it left, fewer count.
LEMMA ThenThereIsRoom ==
  ASSUME LimiterInv, NEW k \in Callers, NEW q, NEW gone, InWindow(k, q, gone),
         NEW t \in Nat, monotonic <= t, q # <<>>, q[1] + Window <= t
  PROVE  Ideal!Room(k, t)
<1> DEFINE a == admitted[k]
<1>1. /\ monotonic \in Nat /\ Window \in Nat \ {0} /\ a \in Seq(Nat) /\ Len(q) \in Nat
      /\ gone \in Nat /\ Len(a) = gone + Len(q) /\ Len(q) <= MaxRequests
      /\ MaxRequests \in Nat \ {0}
      /\ \A i \in DOMAIN a : /\ a[i] \in Nat
                             /\ i <= gone => a[i] + Window <= monotonic
      /\ q[1] \in Nat /\ q[1] = a[gone + 1] /\ gone + 1 \in DOMAIN a
  BY CountingFacts, RateLimiterAssumption, ZenonT(40) DEF InWindow
<1> HIDE DEF a
<1>2. Ideal!Counting(k, t) = {i \in DOMAIN a : a[i] + Window > t}
  BY DEF Ideal!Counting, a
<1>3. DOMAIN a = 1..Len(a) /\ Len(a) \in Nat
  BY <1>1
<1>4. ASSUME NEW i \in DOMAIN a, a[i] + Window > t PROVE i \in ((gone + 1) + 1)..Len(a)
  <2>1. i # gone + 1
    BY <1>1, <1>4
  <2>2. ~ i <= gone
    <3>1. SUFFICES ASSUME i <= gone PROVE FALSE
      OBVIOUS
    <3>2. a[i] \in Nat /\ a[i] + Window <= monotonic
      BY <1>1, <3>1
    <3>3. QED
      BY <1>1, <1>4, <3>2
  <2>3. i \in 1..Len(a) /\ i \in Nat /\ i <= Len(a)
    BY <1>3, <1>4
  <2>4. gone \in Nat /\ Len(a) \in Nat
    BY <1>1, <1>3
  <2>5. QED
    BY <2>1, <2>2, <2>3, <2>4
<1>5. Ideal!Counting(k, t) \subseteq ((gone + 1) + 1)..Len(a)
  <2>1. SUFFICES ASSUME NEW i \in Ideal!Counting(k, t) PROVE i \in ((gone + 1) + 1)..Len(a)
    OBVIOUS
  <2>2. i \in DOMAIN a /\ a[i] + Window > t
    BY <1>2, <2>1
  <2>3. QED
    BY <1>4, <2>2
<1>6. /\ IsFiniteSet(((gone + 1) + 1)..Len(a))
      /\ Cardinality(((gone + 1) + 1)..Len(a)) = Len(a) - (gone + 1)
  <2>1. gone + 1 \in Nat /\ gone + 1 <= Len(a)
    BY <1>1, <1>3
  <2>2. QED
    BY <1>3, <2>1, CardinalityOfRest
<1>7. /\ Cardinality(Ideal!Counting(k, t)) <= Len(a) - (gone + 1)
      /\ IsFiniteSet(Ideal!Counting(k, t))
  BY <1>5, <1>6, FS_Subset
<1>8. Cardinality(Ideal!Counting(k, t)) \in Nat
  BY <1>7, FS_CardinalityType
<1>9. QED
  BY <1>1, <1>3, <1>7, <1>8, IdealCardinality DEF Ideal!Room

\* One second less than the answer, with the slack, the oldest has not left.
LEMMA RetryAfterIsLeast ==
  ASSUME NEW w \in Seq(Nat), w # <<>>, monotonic \in Nat,
         w[1] <= monotonic, w[1] + Window > monotonic
  PROVE  /\ Slack \in Nat \ {0}
         /\ \E s \in 1 .. Window \div Second + 1 :
              /\ RetryAfter(w) = s * Second /\ s * Second \in Nat
              /\ w[1] + Window <= monotonic + s * Second + Slack
              /\ s > 1 => /\ (s - 1) * Second \in Nat
                          /\ monotonic + (s - 1) * Second + Slack - 1 < w[1] + Window
<1> DEFINE left == w[1] + Window - monotonic
           s == WholeSeconds(left)
<1>1. w[1] \in Nat /\ Head(w) = w[1] /\ Window \in Nat /\ Second \in Nat \ {0}
  BY RateLimiterAssumption
<1>2. left \in Nat /\ left <= Window /\ w[1] + Window = monotonic + left
  BY <1>1
<1>3. RetryAfter(w) = s * Second
  BY <1>1 DEF RetryAfter
<1> HIDE DEF left
<1>4. /\ s \in 1 .. Window \div Second + 1 /\ s * Second \in Nat /\ Slack \in Nat \ {0}
      /\ left <= s * Second + Slack
      /\ s > 1 => (s - 1) * Second + Slack <= left
  BY <1>2, SecondsFit
<1> HIDE DEF s
<1>5. s \in Nat /\ s >= 1
  <2>1. Window \div Second \in Nat
    BY <1>1, Divided
  <2>2. QED
    BY <1>4, <2>1
<1>6. s > 1 => (s - 1) * Second \in Nat
  BY <1>1, <1>5
<1>7. w[1] + Window <= monotonic + s * Second + Slack
  BY <1>1, <1>2, <1>4
<1>8. s > 1 => monotonic + (s - 1) * Second + Slack - 1 < w[1] + Window
  BY <1>1, <1>2, <1>4, <1>6
<1>9. QED
  BY <1>3, <1>4, <1>6, <1>7, <1>8

\* An admission of the limiter is one of the ideal, a refusal one of its refusals.
LEMMA AllowDecides ==
  ASSUME LimiterInv, NEW k \in Callers, Allow(k)
  PROVE  Ideal!Admit(k) \/ Ideal!Refuse(k)
<1> DEFINE q == IF InTable(k) THEN Pruned(windows[k]) ELSE <<>>
           allowed == Len(q) < MaxRequests
<1>1. /\ monotonic \in Nat /\ promised \in [Callers -> Nat]
      /\ admitted \in [Callers -> Seq(Nat)] /\ MaxRequests \in Nat \ {0} /\ Window \in Nat \ {0}
  BY RateLimiterAssumption DEF LimiterInv, LimiterTypeOK
<1>2. PICK gone : InWindow(k, q, gone)
  BY AllowFinds DEF InWindow
<1>3. /\ admitted' = IF allowed THEN [admitted EXCEPT ![k] = Append(@, monotonic)] ELSE admitted
      /\ promised' = [promised EXCEPT ![k] = IF allowed THEN 0 ELSE monotonic + RetryAfter(q)]
      /\ monotonic' = monotonic
  BY DEF Allow
<1> HIDE DEF q
<1>4. Ideal!Room(k, monotonic) <=> allowed
  <2>1. q # <<>> => monotonic < q[1] + Window
    BY <1>1, <1>2 DEF InWindow, Left
  <2>2. QED
    BY <1>1, <1>2, <2>1, KeptAreCounted
<1>5. CASE allowed
  BY <1>3, <1>4, <1>5 DEF Ideal!Admit
<1>6. CASE ~ allowed
  <2>1. q \in Seq(Nat) /\ q # <<>> /\ q[1] + Window > monotonic /\ q[1] <= monotonic
    <3>1. q \in Seq(Nat) /\ Len(q) # 0
      BY <1>1, <1>2, <1>6 DEF InWindow
    <3>2. q # <<>>
      BY <3>1
    <3>3. QED
      BY <1>2, <3>1, <3>2, CountingFacts DEF InWindow
  <2>2. Slack \in Nat \ {0}
    BY <1>1, <2>1, RetryAfterIsLeast
  <2>3. PICK s \in 1 .. Window \div Second + 1 :
          /\ RetryAfter(q) = s * Second /\ s * Second \in Nat
          /\ q[1] + Window <= monotonic + s * Second + Slack
          /\ s > 1 => /\ (s - 1) * Second \in Nat
                      /\ monotonic + (s - 1) * Second + Slack - 1 < q[1] + Window
    BY <1>1, <2>1, RetryAfterIsLeast
  <2>4. Ideal!Room(k, monotonic + s * Second + Slack)
    <3>1. /\ monotonic + s * Second + Slack \in Nat
          /\ monotonic <= monotonic + s * Second + Slack
      BY <1>1, <2>2, <2>3
    <3>2. QED
      BY <1>2, <2>1, <2>3, <3>1, ThenThereIsRoom
  <2>5. ASSUME s > 1 PROVE ~ Ideal!Room(k, monotonic + (s - 1) * Second + Slack - 1)
    <3> DEFINE t == monotonic + (s - 1) * Second + Slack - 1
    <3>1. t \in Nat /\ monotonic <= t /\ t < q[1] + Window
      BY <1>1, <2>2, <2>3, <2>5
    <3> HIDE DEF t
    <3>2. Ideal!Room(k, t) <=> allowed
      BY <1>2, <3>1, KeptAreCounted
    <3>3. QED
      BY <1>6, <3>2 DEF t
  <2>6. Ideal!RoomAfter(k, s)
    BY <2>4, <2>5 DEF Ideal!RoomAfter
  <2>7. promised' = [promised EXCEPT ![k] = monotonic + s * Second] /\ admitted' = admitted
    BY <1>3, <1>6, <2>3
  <2>8. ~ Ideal!Room(k, monotonic)
    BY <1>4, <1>6
  <2>9. QED
    BY <1>3, <2>6, <2>7, <2>8 DEF Ideal!Refuse
<1>7. QED
  BY <1>5, <1>6

\* Every step of the limiter is one of the ideal.
LEMMA LimiterStepIsIdeal ==
  LimiterInv /\ [LimiterNext]_limiterVars => [Ideal!IdealNext]_(Ideal!idealVars)
<1> SUFFICES ASSUME LimiterInv, [LimiterNext]_limiterVars
             PROVE  Ideal!IdealNext \/ UNCHANGED Ideal!idealVars
  OBVIOUS
<1>1. CASE ClockAdvances
  BY <1>1, RateLimiterAssumption DEF ClockAdvances, Ideal!IdealNext, Ideal!Tick
<1>2. CASE Clear
  BY <1>2 DEF Clear, Ideal!IdealNext, Ideal!Forget
<1>3. ASSUME NEW k \in Callers, Allow(k) PROVE Ideal!IdealNext
  BY <1>3, AllowDecides DEF Ideal!IdealNext
<1>4. CASE UNCHANGED limiterVars
  BY <1>4 DEF limiterVars, Ideal!idealVars
<1>5. QED
  BY <1>1, <1>2, <1>3, <1>4 DEF LimiterNext

\* The limiter implements one that forgets nothing: no caller of the table is refused while
\* its window has room, none is admitted while it is full, and the seconds of every answer
\* fit: with the part of a second that is not rounded up they suffice, and one second less
\* would not do.
THEOREM LimiterForgetsNothingThatCounts == LimiterSpec => DecidesAsIfNothingWasForgotten
<1>1. LimiterInit => Ideal!IdealInit
  BY DEF LimiterInit, Ideal!IdealInit
<1>2. QED
  BY <1>1, LimiterInvInit, LimiterKeeps, LimiterStepIsIdeal, PTL
     DEF LimiterSpec, DecidesAsIfNothingWasForgotten, Ideal!IdealSpec

\* For any windows, instants and rounding of less than a second, the limiter keeps its
\* word: no window overflows, no caller that waited as told and Slack more is refused, and
\* no decision differs from that of a limiter that forgets nothing.
THEOREM LimiterIsSound == LimiterSpec => LimiterKeepsItsWord
BY WindowsAreKept, LimiterForgetsNothingThatCounts, PTL DEF LimiterKeepsItsWord
=============================================================================
