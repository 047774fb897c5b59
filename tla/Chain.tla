---------------------------------- MODULE Chain ----------------------------------
(***************************************************************************)
(* The EVM chain as the indexer's RPC providers show it: blocks are added,  *)
(* and a reorganisation drops the newest ones, never a block that has been   *)
(* buried under ReorgDepth others.  External to the repository.             *)
(***************************************************************************)
EXTENDS Naturals

CONSTANTS
  Logs,        \* log identities: (contract, transaction hash, log index)
  MaxHeight,   \* bound on block numbers
  MaxHash,     \* bound on the blocks ever mined; a block's hash is its rank
  ReorgDepth   \* blocks buried this deep are final

Heights == 1 .. MaxHeight

NoHash == 0

Hashes == 1 .. MaxHash

ASSUME ChainAssumption == MaxHeight \in Nat /\ MaxHash \in Nat /\ ReorgDepth \in Nat

VARIABLES
  block,    \* [Heights -> [hash, logs]], NoBlock above the head
  height,   \* the head's block number
  highest,  \* the greatest height so far
  mined     \* how many blocks were ever mined

chainVars == <<block, height, highest, mined>>

Blocks == [hash: Hashes \cup {NoHash}, logs: SUBSET Logs]

NoBlock == [hash |-> NoHash, logs |-> {}]

ChainTypes ==
  /\ block \in [Heights -> Blocks]
  /\ height \in 0 .. MaxHeight
  /\ highest \in 0 .. MaxHeight
  /\ mined \in 0 .. MaxHash

ChainInit ==
  /\ block = [n \in Heights |-> NoBlock]
  /\ height = 0
  /\ highest = 0
  /\ mined = 0

OnChain(log) == \E n \in Heights : log \in block[n].logs

Final(n) == n + ReorgDepth <= highest

\* A transaction is mined once on a chain, but may be mined again after its
\* block was dropped.
MineBlock(logs) ==
  /\ height < MaxHeight
  /\ mined < MaxHash
  /\ \A l \in logs : ~OnChain(l)
  /\ mined' = mined + 1
  /\ height' = height + 1
  /\ highest' = IF height' > highest THEN height' ELSE highest
  /\ block' = [block EXCEPT ![height + 1] = [hash |-> mined + 1, logs |-> logs]]

DropBlocks(n) ==
  /\ n < height
  /\ highest <= n + ReorgDepth
  /\ height' = n
  /\ block' = [m \in Heights |-> IF m <= n THEN block[m] ELSE NoBlock]
  /\ UNCHANGED <<highest, mined>>

ChainStep ==
  \/ \E logs \in SUBSET Logs : MineBlock(logs)
  \/ \E n \in 0 .. MaxHeight : DropBlocks(n)

\* Blocks up to the head have hashes of their own, a log is in one block at
\* most, and final blocks are still there.
ChainInv ==
  /\ ChainTypes
  /\ height <= highest
  /\ highest <= height + ReorgDepth
  /\ \A n \in Heights : /\ n <= height => block[n].hash \in 1 .. mined
                        /\ n > height => block[n] = NoBlock
  /\ \A m, n \in Heights :
       block[m].hash = block[n].hash /\ block[m].hash # NoHash => m = n
  /\ \A m, n \in Heights : \A l \in block[m].logs \cap block[n].logs : m = n
=============================================================================
