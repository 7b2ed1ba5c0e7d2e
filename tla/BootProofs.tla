----------------------------- MODULE BootProofs -----------------------------
(***************************************************************************)
(* Proofs of the safety properties of Boot from the inductive invariant of  *)
(* BootInv: for any heights of the fork and the genesis, any configurations *)
(* and releases, and any number of kills, updates and changes of node.      *)
(***************************************************************************)
EXTENDS BootInv, TLAPS

USE BootAssumption
(* Groups of variables, expanded everywhere. *)
USE DEF database, chainVars, operatorVars

(* A node serves blocks from a height on, of its own chain but for those    *)
(* that the new chain shares with the old one.                              *)
LEMMA NodeBlocks ==
  ASSUME NEW n \in Nodes, NEW h \in 1..MaxHeight
  PROVE  /\ n.earliest \in 1..MaxHeight /\ n.chain \in {OldChain, NewChain, OtherChain}
         /\ BlockOf(n, h) \in Blocks /\ BlockOf(n, h).height = h
         /\ BlockOf(n, h).chain = OtherChain <=> n.chain = OtherChain
         /\ BlockOf(n, h).chain = NewChain <=> n.chain = NewChain /\ h > ForkHeight
         /\ n.chain = NewChain => n.earliest = ForkHeight + 1
BY DEF Nodes, BlockOf, Block, Blocks

(* No block is taken for a missing hash. *)
LEMMA BlockIsNoNoHash == ASSUME NEW b \in Blocks PROVE b # NoHash
BY DEF Blocks, NoHash

(* Two hashes of the code are a schema that is up to date. *)
LEMMA BothHashes ==
  ASSUME NEW f \in [Tags -> {"code", "older", "none"}],
         f["data"] = "code", f["aggregates"] = "code"
  PROVE  f = [t \in Tags |-> "code"]
BY DEF Tags

(* The first block of the database, which is below the fork. *)
LEMMA FirstOfDB ==
  ASSUME TypeOK, HeightsInv, block_log # {}
  PROVE  /\ FirstInDB \in block_log /\ FirstInDB.height \in {1, GenesisHeight}
         /\ FirstInDB.height <= ForkHeight /\ FirstInDB.height \in Nat
         /\ \A b \in block_log : b.height >= FirstInDB.height
<1>1. PICK first \in {1, GenesisHeight}, last \in 1..MaxHeight :
        HeightsInDB = first..last /\ first <= last
  BY DEF HeightsInv
<1>2. PICK b \in block_log : b.height = first
  <2>1. first \in HeightsInDB
    BY <1>1
  <2> QED
    BY <2>1 DEF HeightsInDB
<1>3. \A c \in block_log : c.height \in first..last
  BY <1>1 DEF HeightsInDB
<1>4. \E c \in block_log : \A d \in block_log : c.height <= d.height
  BY <1>2, <1>3
<1>5. FirstInDB \in block_log /\ \A d \in block_log : FirstInDB.height <= d.height
  BY <1>4 DEF FirstInDB
<1>6. FirstInDB.height = first
  BY <1>2, <1>3, <1>5
<1> QED
  BY <1>5, <1>6

(* The newest height of the database, or zero. *)
LEMMA NewestOfDB ==
  ASSUME TypeOK, HeightsInv, NEW n, n = Max({0} \cup HeightsInDB)
  PROVE  /\ n \in 0..MaxHeight
         /\ block_log = {} => n = 0
         /\ block_log # {} => n \in HeightsInDB /\ \A h \in HeightsInDB : h <= n
<1>1. CASE block_log = {}
  <2>1. HeightsInDB = {}
    BY <1>1 DEF HeightsInDB
  <2>2. {0} \cup HeightsInDB = {0}
    BY <2>1
  <2>3. n = 0
    BY <2>2 DEF Max
  <2> QED
    BY <1>1, <2>3
<1>2. CASE block_log # {}
  <2>1. PICK first \in {1, GenesisHeight}, last \in 1..MaxHeight :
          HeightsInDB = first..last /\ first <= last
    BY <1>2 DEF HeightsInv
  <2>2. last \in {0} \cup HeightsInDB /\ \A h \in {0} \cup HeightsInDB : last >= h
    BY <2>1
  <2>3. n \in {0} \cup HeightsInDB /\ \A h \in {0} \cup HeightsInDB : n >= h
    BY <2>2 DEF Max
  <2>4. n = last
    BY <2>1, <2>2, <2>3
  <2>5. last \in first..last /\ last \in 0..MaxHeight /\ \A h \in first..last : h <= last
    BY <2>1
  <2>6. n \in HeightsInDB /\ n \in 0..MaxHeight /\ \A h \in HeightsInDB : h <= n
    BY <2>1, <2>4, <2>5
  <2> QED
    BY <1>2, <2>6
<1> QED
  BY <1>1, <1>2

(* The heights of the database are those of its blocks. *)
LEMMA HeightsAreOfBlocks ==
  ASSUME TypeOK
  PROVE  /\ \A b \in block_log : b \in Blocks /\ b.height \in HeightsInDB
         /\ \A h \in HeightsInDB : h \in 1..MaxHeight /\ \E b \in block_log : b.height = h
BY DEF TypeOK, HeightsInDB, Blocks

-----------------------------------------------------------------------------
(* One lemma for each action: it keeps every part of the invariant. *)

(* The schema is left when both hashes are the code's. *)
LEMMA CompareHashStep ==
  ASSUME IInv, CompareHash
  PROVE  IInv'
<1>1. /\ pc = "schema"
      /\ \/ pc' = "schema" /\ tag' = "aggregates" /\ hashes["data"] = "code"
         \/ /\ tag = "aggregates" /\ hashes["aggregates"] = "code"
            /\ pc' = "setup" /\ tag' = "data"
         \/ pc' \in {"apply", "down"} /\ tag' = tag
      /\ UNCHANGED <<operatorVars, chainVars, lastCommitted, faults, database>>
  BY DEF CompareHash, HashDiffers
<1>2. pc' = "setup" => hashes' = [t \in Tags |-> "code"]
  BY <1>1, BothHashes DEF IInv, TypeOK, SchemaInv
<1>3. tag' \in Tags
  BY <1>1 DEF IInv, TypeOK, Tags
<1>4. TypeOK'
  BY <1>1, <1>2, <1>3 DEF IInv, TypeOK
<1>5. SchemaInv'
  BY <1>1, <1>2 DEF IInv, SchemaInv, Current
<1>6. GenesisInv'
  BY DEF IInv, GenesisInv, CompareHash, HashDiffers, UpdateProhibited
<1>7. HeightsInv'
  BY DEF IInv, HeightsInv, CompareHash, HashDiffers, UpdateProhibited, HeightsInDB
<1>8. ChainsInv'
  BY DEF IInv, ChainsInv, CompareHash, HashDiffers, UpdateProhibited
<1>9. NewestInv'
  BY DEF IInv, NewestInv, CompareHash, HashDiffers, UpdateProhibited, HeightsInDB,
         Current, SetUp, ChainKnown, GenesisChecked, ChainChecked, ForkChecked
<1>10. CheckedInv'
  BY DEF IInv, CheckedInv, CompareHash, HashDiffers, UpdateProhibited, Ancestry, BlockAt,
         Current, SetUp, ChainKnown, GenesisChecked, ChainChecked, ForkChecked
<1> QED
  BY <1>4, <1>5, <1>6, <1>7, <1>8, <1>9, <1>10 DEF IInv

(* The genesis goes with its constant, and all of the blocks. *)
LEMMA ApplyDDLStep ==
  ASSUME IInv, ApplyDDL
  PROVE  IInv'
<1>1. TypeOK'
  BY DEF IInv, TypeOK, ApplyDDL, GoTo
<1>2. SchemaInv'
  BY DEF IInv, SchemaInv, ApplyDDL, GoTo, Current, SetUp, ChainKnown, GenesisChecked,
         ChainChecked, ForkChecked
<1>3. GenesisInv'
  BY DEF IInv, GenesisInv, ApplyDDL, GoTo
<1>4. HeightsInv'
  BY DEF IInv, HeightsInv, ApplyDDL, GoTo, HeightsInDB
<1>5. ChainsInv'
  BY DEF IInv, ChainsInv, ApplyDDL, GoTo
<1>6. NewestInv'
  BY DEF IInv, NewestInv, ApplyDDL, GoTo, HeightsInDB, Current, SetUp, ChainKnown,
         GenesisChecked, ChainChecked, ForkChecked
<1>7. CheckedInv'
  BY DEF IInv, CheckedInv, ApplyDDL, GoTo, Ancestry, BlockAt, Current, SetUp, ChainKnown,
         GenesisChecked, ChainChecked, ForkChecked
<1> QED
  BY <1>1, <1>2, <1>3, <1>4, <1>5, <1>6, <1>7 DEF IInv

(* The hash of the schema that has been applied. *)
LEMMA StoreHashStep ==
  ASSUME IInv, StoreHash
  PROVE  IInv'
<1>1. TypeOK'
  BY DEF IInv, TypeOK, StoreHash, GoTo
<1>2. SchemaInv'
  BY DEF IInv, SchemaInv, StoreHash, GoTo, Current, SetUp, ChainKnown, GenesisChecked,
         ChainChecked, ForkChecked
<1>3. GenesisInv'
  BY DEF IInv, GenesisInv, StoreHash, GoTo
<1>4. HeightsInv'
  BY DEF IInv, HeightsInv, StoreHash, GoTo, HeightsInDB
<1>5. ChainsInv'
  BY DEF IInv, ChainsInv, StoreHash, GoTo
<1>6. NewestInv'
  BY DEF IInv, NewestInv, StoreHash, GoTo, HeightsInDB, Current, SetUp, ChainKnown,
         GenesisChecked, ChainChecked, ForkChecked
<1>7. CheckedInv'
  BY DEF IInv, CheckedInv, StoreHash, GoTo, Ancestry, BlockAt, Current, SetUp, ChainKnown,
         GenesisChecked, ChainChecked, ForkChecked
<1> QED
  BY <1>1, <1>2, <1>3, <1>4, <1>5, <1>6, <1>7 DEF IInv

(* The newest height is the greatest of the database. *)
LEMMA SetupStep ==
  ASSUME IInv, Setup
  PROVE  IInv'
<1>1. /\ lastCommitted' \in 0..MaxHeight
      /\ block_log = {} => lastCommitted' = 0
      /\ block_log # {} =>
           lastCommitted' \in HeightsInDB /\ \A h \in HeightsInDB : h <= lastCommitted'
  BY NewestOfDB DEF IInv, Setup, HeightsInDB
<1>2. TypeOK'
  BY <1>1 DEF IInv, TypeOK, Setup, GoTo
<1>3. SchemaInv'
  BY DEF IInv, SchemaInv, Setup, GoTo, Current, SetUp, ChainKnown, GenesisChecked,
         ChainChecked, ForkChecked
<1>4. GenesisInv'
  BY DEF IInv, GenesisInv, Setup, GoTo
<1>5. HeightsInv'
  BY DEF IInv, HeightsInv, Setup, GoTo, HeightsInDB
<1>6. ChainsInv'
  BY DEF IInv, ChainsInv, Setup, GoTo
<1>7. NewestInv'
  BY <1>1 DEF IInv, NewestInv, Setup, GoTo, HeightsInDB, SetUp, Current
<1>8. CheckedInv'
  BY DEF IInv, CheckedInv, Setup, GoTo, Ancestry, BlockAt, Current, SetUp, ChainKnown,
         GenesisChecked, ChainChecked, ForkChecked
<1> QED
  BY <1>2, <1>3, <1>4, <1>5, <1>6, <1>7, <1>8 DEF IInv

(* The node's chain is looked up. *)
LEMMA InitializeChainVarsStep ==
  ASSUME IInv, InitializeChainVars
  PROVE  IInv'
<1>1. TypeOK'
  <2>1. current' \in Ids /\ root' \in Ids
    BY AncestryAssumption DEF IInv, TypeOK, InitializeChainVars, Ancestry
  <2>2. FirstBlock' \in Blocks \cup {NoHash}
    BY NodeBlocks DEF IInv, TypeOK, InitializeChainVars, BlockAt
  <2> QED
    BY <2>1, <2>2 DEF IInv, TypeOK, InitializeChainVars, GoTo
<1>2. SchemaInv'
  BY DEF IInv, SchemaInv, InitializeChainVars, GoTo, Current, SetUp, ChainKnown,
         GenesisChecked, ChainChecked, ForkChecked
<1>3. GenesisInv'
  BY DEF IInv, GenesisInv, InitializeChainVars, GoTo
<1>4. HeightsInv'
  BY DEF IInv, HeightsInv, InitializeChainVars, GoTo, HeightsInDB
<1>5. ChainsInv'
  BY DEF IInv, ChainsInv, InitializeChainVars, GoTo
<1>6. NewestInv'
  BY DEF IInv, NewestInv, InitializeChainVars, GoTo, HeightsInDB, Current, SetUp,
         ChainKnown, GenesisChecked, ChainChecked, ForkChecked
<1>7. CheckedInv'
  BY DEF IInv, CheckedInv, InitializeChainVars, GoTo, Ancestry, BlockAt, Current, SetUp,
         ChainKnown, GenesisChecked, ChainChecked, ForkChecked
<1> QED
  BY <1>1, <1>2, <1>3, <1>4, <1>5, <1>6, <1>7 DEF IInv

(* The process ends. *)
LEMMA UnknownChainStep ==
  ASSUME IInv, UnknownChain
  PROVE  IInv'
<1>1. TypeOK'
  BY DEF IInv, TypeOK, UnknownChain, Exit
<1>2. SchemaInv'
  BY DEF IInv, SchemaInv, UnknownChain, Exit, Current, SetUp, ChainKnown, GenesisChecked,
         ChainChecked, ForkChecked
<1>3. GenesisInv'
  BY DEF IInv, GenesisInv, UnknownChain, Exit
<1>4. HeightsInv'
  BY DEF IInv, HeightsInv, UnknownChain, Exit, HeightsInDB
<1>5. ChainsInv'
  BY DEF IInv, ChainsInv, UnknownChain, Exit
<1>6. NewestInv'
  BY DEF IInv, NewestInv, UnknownChain, Exit, HeightsInDB, Current, SetUp, ChainKnown,
         GenesisChecked, ChainChecked, ForkChecked
<1>7. CheckedInv'
  BY DEF IInv, CheckedInv, UnknownChain, Exit, Ancestry, BlockAt, Current, SetUp,
         ChainKnown, GenesisChecked, ChainChecked, ForkChecked
<1> QED
  BY <1>1, <1>2, <1>3, <1>4, <1>5, <1>6, <1>7 DEF IInv

(* The genesis is not of another chain. *)
LEMMA CheckGenesisStatusStep ==
  ASSUME IInv, CheckGenesisStatus
  PROVE  IInv'
<1>1. /\ pc = "init" /\ pc' \in {"ensure", "down"}
      /\ FirstBlock' \in {FirstBlock, GenesisBlock}
      /\ pc' = "ensure" /\ ~config.genesis => FirstBlock' = FirstBlock
      /\ pc' = "ensure" /\ config.genesis => BlockAt(GenesisHeight) = GenesisBlock
      /\ UNCHANGED <<tag, operatorVars, current, root, lastCommitted, faults, database>>
  BY DEF CheckGenesisStatus, GenesisFits, GoTo, Exit
<1>2. pc' = "ensure" /\ config.genesis => node.chain # OtherChain
  <2> SUFFICES ASSUME BlockAt(GenesisHeight) = GenesisBlock PROVE node.chain # OtherChain
    BY <1>1
  <2>1. node \in Nodes /\ GenesisHeight \in 1..MaxHeight
    BY DEF IInv, TypeOK
  <2>2. GenesisBlock.chain = OldChain
    BY DEF GenesisBlock, Block
  <2> QED
    BY <2>1, <2>2, NodeBlocks DEF BlockAt
<1>3. TypeOK'
  <2>1. GenesisBlock \in Blocks
    BY DEF GenesisBlock, Block, Blocks
  <2> QED
    BY <1>1, <2>1 DEF IInv, TypeOK
<1>4. SchemaInv'
  BY DEF IInv, SchemaInv, CheckGenesisStatus, GoTo, Exit, Current, SetUp, ChainKnown,
         GenesisChecked, ChainChecked, ForkChecked
<1>5. GenesisInv'
  BY DEF IInv, GenesisInv, CheckGenesisStatus, GoTo, Exit
<1>6. HeightsInv'
  BY DEF IInv, HeightsInv, CheckGenesisStatus, GoTo, Exit, HeightsInDB
<1>7. ChainsInv'
  BY DEF IInv, ChainsInv, CheckGenesisStatus, GoTo, Exit
<1>8. NewestInv'
  BY DEF IInv, NewestInv, CheckGenesisStatus, GoTo, Exit, HeightsInDB, Current, SetUp,
         ChainKnown, GenesisChecked, ChainChecked, ForkChecked
<1>9. CheckedInv'
  BY <1>1, <1>2
     DEF IInv, CheckedInv, Ancestry, BlockAt, SetUp, Current, ChainKnown, GenesisChecked,
         ChainChecked, ForkChecked
<1> QED
  BY <1>3, <1>4, <1>5, <1>6, <1>7, <1>8, <1>9 DEF IInv

(* The first block of the database tells which chain it is of. *)
LEMMA EnsureDBMatchesChainStep ==
  ASSUME IInv, EnsureDBMatchesChain
  PROVE  IInv'
<1>1. /\ pc = "ensure" /\ pc' \in {"genesis", "overrun", "down"}
      /\ root \in Ids /\ root' \in Ids /\ root'.StartHeight = root.StartHeight
      /\ FirstBlock' \in Blocks \cup {NoHash}
      /\ pc' = "genesis" => block_log = {}
      /\ pc' = "overrun" => block_log # {} /\ FirstHashMatches /\ FirstBlockFits
      /\ UNCHANGED <<tag, operatorVars, current, lastCommitted, faults, database>>
  <2>1. root \in Ids /\ block_log \subseteq Blocks /\ FirstBlock \in Blocks \cup {NoHash}
    BY DEF IInv, TypeOK
  <2>2. block_log # {} => FirstInDB \in Blocks
    BY <2>1, FirstOfDB DEF IInv
  <2> QED
    BY <2>1, <2>2 DEF EnsureDBMatchesChain, GoTo, Exit, Ids
<1>2. ASSUME pc' = "overrun"
      PROVE  \A b \in block_log : b.chain = OtherChain <=> node.chain = OtherChain
  <2>1. FirstInDB \in block_log /\ FirstInDB \in Blocks
    BY <1>1, <1>2, FirstOfDB DEF IInv, TypeOK
  <2>2. CASE config.genesis
    <3>1. node.chain # OtherChain
      BY <1>1, <2>2 DEF IInv, CheckedInv, GenesisChecked, ChainKnown, SetUp, Current
    <3>2. StartHash = GenesisBlock /\ GenesisBlock \in Blocks /\ GenesisBlock.chain = OldChain
      BY <2>2 DEF StartHash, GenesisBlock, Block, Blocks
    <3>3. FirstInDB.chain = OldChain
      BY <1>1, <1>2, <3>2, BlockIsNoNoHash DEF FirstHashMatches
    <3> QED
      BY <2>1, <3>1, <3>3 DEF IInv, ChainsInv
  <2>3. CASE ~config.genesis
    <3>1. /\ Ancestry.valid /\ root = Ancestry.root /\ node \in Nodes
               /\ config.release \in Releases
          /\ FirstBlock = IF node.earliest = root.StartHeight THEN BlockAt(node.earliest)
                          ELSE NoHash
      BY <1>1, <2>3 DEF IInv, TypeOK, CheckedInv, ChainKnown, SetUp, Current
    <3>2. StartHash = root.StartHash
      BY <2>3 DEF StartHash
    <3>3. CASE root.StartHash = NoHash
      <4>1. root.StartHeight = node.earliest
        BY <3>1, <3>3, AncestryAssumption DEF Ancestry
      <4>2. FirstBlock = BlockOf(node, node.earliest) /\ FirstBlock \in Blocks
            /\ (FirstBlock.chain = OtherChain <=> node.chain = OtherChain)
        BY <3>1, <4>1, NodeBlocks DEF BlockAt
      <4>3. FirstBlock = FirstInDB
        BY <1>1, <1>2, <4>2, BlockIsNoNoHash DEF FirstBlockFits
      <4> QED
        BY <2>1, <4>2, <4>3 DEF IInv, ChainsInv
    <3>4. CASE root.StartHash # NoHash
      <4>1. root.StartHash.chain = OtherChain <=> node.chain = OtherChain
        BY <3>1, <3>4, AncestryAssumption DEF Ancestry
      <4>2. root.StartHash = FirstInDB
        BY <1>1, <1>2, <3>2, <3>4 DEF FirstHashMatches
      <4> QED
        BY <2>1, <4>1, <4>2 DEF IInv, ChainsInv
    <3> QED
      BY <3>3, <3>4
  <2> QED
    BY <2>2, <2>3
<1>3. TypeOK'
  BY <1>1 DEF IInv, TypeOK
<1>4. SchemaInv'
  BY DEF IInv, SchemaInv, EnsureDBMatchesChain, GoTo, Exit, Current, SetUp, ChainKnown,
         GenesisChecked, ChainChecked, ForkChecked
<1>5. GenesisInv'
  BY DEF IInv, GenesisInv, EnsureDBMatchesChain, GoTo, Exit
<1>6. HeightsInv'
  BY DEF IInv, HeightsInv, EnsureDBMatchesChain, GoTo, Exit, HeightsInDB
<1>7. ChainsInv'
  BY DEF IInv, ChainsInv, EnsureDBMatchesChain, GoTo, Exit
<1>8. NewestInv'
  BY DEF IInv, NewestInv, EnsureDBMatchesChain, GoTo, Exit, HeightsInDB, Current, SetUp,
         ChainKnown, GenesisChecked, ChainChecked, ForkChecked
<1>9. CheckedInv'
  BY <1>1, <1>2
     DEF IInv, CheckedInv, Ancestry, FirstBlockFits, SetUp, Current, ChainKnown,
         GenesisChecked, ChainChecked, ForkChecked
<1> QED
  BY <1>3, <1>4, <1>5, <1>6, <1>7, <1>8, <1>9 DEF IInv

(* The block after the fork tells which chain the later ones are of. *)
LEMMA PreventOverrunAfterForkStep ==
  ASSUME IInv, PreventOverrunAfterFork
  PROVE  IInv'
<1>1. TypeOK'
  BY DEF IInv, TypeOK, PreventOverrunAfterFork, GoTo, Exit
<1>2. SchemaInv'
  BY DEF IInv, SchemaInv, PreventOverrunAfterFork, GoTo, Exit, Current, SetUp, ChainKnown,
         GenesisChecked, ChainChecked, ForkChecked
<1>3. GenesisInv'
  BY DEF IInv, GenesisInv, PreventOverrunAfterFork, GoTo, Exit
<1>4. HeightsInv'
  BY DEF IInv, HeightsInv, PreventOverrunAfterFork, GoTo, Exit, HeightsInDB
<1>5. ChainsInv'
  BY DEF IInv, ChainsInv, PreventOverrunAfterFork, GoTo, Exit
<1>6. NewestInv'
  BY DEF IInv, NewestInv, PreventOverrunAfterFork, GoTo, Exit, HeightsInDB, Current,
         SetUp, ChainKnown, GenesisChecked, ChainChecked, ForkChecked
<1>7. CheckedInv'
  <2>1. ASSUME pc' = "genesis", node.chain = NewChain, NEW b \in block_log, b.height > ForkHeight
        PROVE  b.chain = NewChain
    <3>1. ~Overrun /\ pc = "overrun"
      BY <2>1 DEF PreventOverrunAfterFork, Exit
    <3>2. /\ Ancestry.valid /\ current = Ancestry.current /\ node \in Nodes
          /\ root.StartHeight = Ancestry.root.StartHeight /\ config.release \in Releases
      BY <3>1 DEF IInv, TypeOK, CheckedInv, ChainKnown, SetUp, Current
    <3>3. /\ current.StartHeight = ForkHeight + 1
          /\ current.StartHash = Block(ForkHeight + 1, NewChain)
          /\ root.StartHeight # current.StartHeight
      BY <2>1, <3>2, AncestryAssumption DEF Ancestry
    <3>4. \A c \in block_log : c.height = ForkHeight + 1 => c.chain = NewChain
      BY <3>1, <3>3 DEF Overrun, Block
    <3>5. PICK c \in block_log : c.height = ForkHeight + 1
      <4>1. PICK first \in {1, GenesisHeight}, last \in 1..MaxHeight :
              HeightsInDB = first..last
        BY <2>1 DEF IInv, HeightsInv
      <4>2. b.height \in first..last
        BY <4>1 DEF HeightsInDB
      <4>3. ForkHeight + 1 \in first..last
        BY <2>1, <4>2
      <4> QED
        BY <4>1, <4>3 DEF HeightsInDB
    <3> QED
      BY <2>1, <3>4, <3>5 DEF IInv, ChainsInv
  <2> QED
    BY <2>1
       DEF IInv, CheckedInv, Ancestry, PreventOverrunAfterFork, GoTo, Exit, SetUp,
           Current, ChainKnown, GenesisChecked, ChainChecked, ForkChecked
<1> QED
  BY <1>1, <1>2, <1>3, <1>4, <1>5, <1>6, <1>7 DEF IInv

(* A genesis without its constant has no rows. *)
LEMMA LoadGenesisStep ==
  ASSUME IInv, LoadGenesis
  PROVE  IInv'
<1>1. TypeOK'
  <2>1. GenesisHeight - 1 \in 0..MaxHeight
    OBVIOUS
  <2>2. pc' \in {"run", "constant"} /\ lastCommitted' \in 0..MaxHeight
    BY <2>1 DEF IInv, TypeOK, LoadGenesis, GoTo
  <2>3. pc' = "run" => hashes = [t \in Tags |-> "code"]
    BY DEF IInv, SchemaInv, Current, LoadGenesis, GoTo
  <2> QED
    BY <2>2, <2>3 DEF IInv, TypeOK, LoadGenesis, GoTo
<1>2. SchemaInv'
  BY DEF IInv, SchemaInv, LoadGenesis, GoTo, Current, SetUp, ChainKnown, GenesisChecked,
         ChainChecked, ForkChecked
<1>3. GenesisInv'
  BY DEF IInv, GenesisInv, LoadGenesis, GoTo
<1>4. HeightsInv'
  BY DEF IInv, HeightsInv, LoadGenesis, GoTo, HeightsInDB
<1>5. ChainsInv'
  BY DEF IInv, ChainsInv, LoadGenesis, GoTo
<1>6. NewestInv'
  <2>1. pc = "genesis" /\ pc' \in {"run", "constant"} /\ UNCHANGED <<block_log, genesisConstant>>
    BY DEF LoadGenesis, GoTo
  <2>2. block_log # {} =>
          lastCommitted \in HeightsInDB /\ \A h \in HeightsInDB : h <= lastCommitted
    BY <2>1 DEF IInv, NewestInv, SetUp, Current
  <2>3. block_log = {} => lastCommitted = 0
    BY <2>1 DEF IInv, NewestInv, SetUp, Current
  <2>4. block_log # {} => lastCommitted # 0
    BY <2>2, HeightsAreOfBlocks DEF IInv
  <2>5. block_log # {} => pc' = "run" /\ lastCommitted' = lastCommitted
    BY <2>1, <2>4 DEF IInv, CheckedInv, LoadGenesis, GoTo
  <2>6. block_log = {} =>
          \/ pc' = "constant" /\ lastCommitted' = 0
          \/ pc' = "run" /\ lastCommitted' \in {0, GenesisHeight - 1}
    BY <2>1, <2>3 DEF LoadGenesis, GoTo
  <2> QED
    BY <2>1, <2>2, <2>5, <2>6 DEF NewestInv, HeightsInDB, SetUp, Current
<1>7. CheckedInv'
  BY DEF IInv, CheckedInv, LoadGenesis, GoTo, Ancestry, BlockAt, Current, SetUp,
         ChainKnown, GenesisChecked, ChainChecked, ForkChecked
<1> QED
  BY <1>1, <1>2, <1>3, <1>4, <1>5, <1>6, <1>7 DEF IInv

(* The constant is stored before the rows. *)
LEMMA SetGenesisConstantStep ==
  ASSUME IInv, SetGenesisConstant
  PROVE  IInv'
<1>1. TypeOK'
  BY DEF IInv, TypeOK, SetGenesisConstant, GoTo
<1>2. SchemaInv'
  BY DEF IInv, SchemaInv, SetGenesisConstant, GoTo, Current, SetUp, ChainKnown,
         GenesisChecked, ChainChecked, ForkChecked
<1>3. GenesisInv'
  BY DEF IInv, GenesisInv, SetGenesisConstant, GoTo
<1>4. HeightsInv'
  BY DEF IInv, HeightsInv, SetGenesisConstant, GoTo, HeightsInDB
<1>5. ChainsInv'
  BY DEF IInv, ChainsInv, SetGenesisConstant, GoTo
<1>6. NewestInv'
  BY DEF IInv, NewestInv, SetGenesisConstant, GoTo, HeightsInDB, Current, SetUp,
         ChainKnown, GenesisChecked, ChainChecked, ForkChecked
<1>7. CheckedInv'
  BY DEF IInv, CheckedInv, SetGenesisConstant, GoTo, Ancestry, BlockAt, Current, SetUp,
         ChainKnown, GenesisChecked, ChainChecked, ForkChecked
<1> QED
  BY <1>1, <1>2, <1>3, <1>4, <1>5, <1>6, <1>7 DEF IInv

(* The rows are stored once. *)
LEMMA FlushGenesisStep ==
  ASSUME IInv, FlushGenesis
  PROVE  IInv'
<1>1. TypeOK'
  <2>1. GenesisHeight - 1 \in 0..MaxHeight
    OBVIOUS
  <2>2. pc = "flush" /\ pc' \in {"run", "down"} /\ genesisRows' \in Nat
          /\ faults' \in 0..MaxFaults
        /\ lastCommitted' \in 0..MaxHeight
    BY <2>1 DEF IInv, TypeOK, FlushGenesis, GoTo, Fault
  <2>3. hashes = [t \in Tags |-> "code"]
    BY <2>2 DEF IInv, SchemaInv, Current
  <2> QED
    BY <2>2, <2>3 DEF IInv, TypeOK, FlushGenesis, GoTo
<1>2. SchemaInv'
  BY DEF IInv, SchemaInv, FlushGenesis, GoTo, Fault, Current, SetUp, ChainKnown,
         GenesisChecked, ChainChecked, ForkChecked
<1>3. GenesisInv'
  BY DEF IInv, GenesisInv, FlushGenesis, GoTo, Fault
<1>4. HeightsInv'
  BY DEF IInv, HeightsInv, FlushGenesis, GoTo, Fault, HeightsInDB
<1>5. ChainsInv'
  BY DEF IInv, ChainsInv, FlushGenesis, GoTo, Fault
<1>6. NewestInv'
  BY DEF IInv, NewestInv, FlushGenesis, GoTo, Fault, HeightsInDB, Current, SetUp,
         ChainKnown, GenesisChecked, ChainChecked, ForkChecked
<1>7. CheckedInv'
  BY DEF IInv, CheckedInv, FlushGenesis, GoTo, Fault, Ancestry, BlockAt, Current, SetUp,
         ChainKnown, GenesisChecked, ChainChecked, ForkChecked
<1> QED
  BY <1>1, <1>2, <1>3, <1>4, <1>5, <1>6, <1>7 DEF IInv

(* The next block, of the chain of those before it. *)
LEMMA WriteBlockStep ==
  ASSUME IInv, WriteBlock
  PROVE  IInv'
<1> DEFINE h == lastCommitted + 1
           new == BlockAt(h)
<1>1. /\ pc = "run" /\ h \in 1..MaxHeight /\ lastCommitted' = h
           /\ block_log' = block_log \cup {new}
      /\ current.HardForkHeight # 0 => lastCommitted < current.HardForkHeight
      /\ UNCHANGED <<pc, tag, operatorVars, chainVars, faults, hashes, genesisConstant,
           genesisRows>>
  BY DEF IInv, TypeOK, WriteBlock
<1>2. /\ new \in Blocks /\ new.height = h
      /\ new.chain = OtherChain <=> node.chain = OtherChain
      /\ new.chain = NewChain <=> node.chain = NewChain /\ h > ForkHeight
      /\ node.chain \in {OldChain, NewChain, OtherChain} /\ node \in Nodes
  BY <1>1, NodeBlocks DEF IInv, TypeOK, BlockAt
<1>3. /\ \A b \in block_log : b \in Blocks /\ b.height < h /\ b.height \in Nat
      /\ block_log # {} => lastCommitted \in HeightsInDB
      /\ block_log = {} => h \in {1, GenesisHeight}
  BY <1>1, HeightsAreOfBlocks DEF IInv, TypeOK, NewestInv, SetUp, Current
<1>4. HeightsInDB' = HeightsInDB \cup {h}
  BY <1>1, <1>2 DEF HeightsInDB
<1>5. /\ \A b \in block_log : b.chain = OtherChain <=> node.chain = OtherChain
      /\ node.chain = NewChain => \A b \in block_log : b.height > ForkHeight =>
           b.chain = NewChain
      /\ Ancestry.valid /\ current = Ancestry.current
  BY <1>1
     DEF IInv, CheckedInv, SetUp, Current, ChainKnown, GenesisChecked, ChainChecked,
         ForkChecked
<1>6. node.chain = OldChain /\ h > ForkHeight => \A b \in block_log : b.chain # NewChain
  <2> SUFFICES ASSUME node.chain = OldChain, h > ForkHeight, NEW b \in block_log,
                        b.chain = NewChain
               PROVE  FALSE
    OBVIOUS
  <2>1. PICK release \in Releases, n \in Nodes :
          release <= config.release /\ n.chain = NewChain /\ AncestryOf(release, n).valid
    BY DEF IInv, ChainsInv
  <2>2. config.release \in Releases /\ config.release \in Nat /\ release \in Nat
    BY DEF IInv, TypeOK
  <2>3. current.HardForkHeight = ForkHeight
    BY <1>2, <1>5, <2>1, <2>2, AncestryAssumption DEF Ancestry
  <2>4. b.height > ForkHeight /\ b.height < h
    BY <1>3 DEF IInv, ChainsInv
  <2> QED
    BY <1>1, <1>3, <2>3, <2>4 DEF IInv, TypeOK
<1> HIDE DEF h, new
<1>7. TypeOK'
  BY <1>1, <1>2 DEF IInv, TypeOK
<1>8. SchemaInv'
  BY DEF IInv, SchemaInv, WriteBlock, Current, SetUp, ChainKnown, GenesisChecked,
         ChainChecked, ForkChecked
<1>9. GenesisInv'
  BY DEF IInv, GenesisInv, WriteBlock
<1>10. HeightsInv'
  <2>1. \A b, c \in block_log' : b.height = c.height => b = c
    BY <1>1, <1>2, <1>3 DEF IInv, HeightsInv
  <2>2. \E first \in {1, GenesisHeight}, last \in 1..MaxHeight :
          HeightsInDB' = first..last /\ first <= last
    <3>1. CASE block_log = {}
      <4>1. HeightsInDB' = h..h
        BY <1>1, <1>4, <3>1 DEF HeightsInDB
      <4> QED
        BY <1>1, <1>3, <3>1, <4>1
    <3>2. CASE block_log # {}
      <4>1. PICK first \in {1, GenesisHeight}, last \in 1..MaxHeight :
              HeightsInDB = first..last /\ first <= last
        BY <3>2 DEF IInv, HeightsInv
      <4>2. last = lastCommitted /\ h = last + 1
        <5>1. lastCommitted \in HeightsInDB /\ \A k \in HeightsInDB : k <= lastCommitted
          BY <1>1, <3>2 DEF IInv, NewestInv, SetUp, Current
        <5> QED
          BY <4>1, <5>1 DEF h
      <4>3. HeightsInDB' = first..h
        BY <1>4, <4>1, <4>2
      <4> QED
        BY <1>1, <4>1, <4>2, <4>3
    <3> QED
      BY <3>1, <3>2
  <2> QED
    BY <2>1, <2>2 DEF HeightsInv
<1>11. ChainsInv'
  <2>1. \A b, c \in block_log' : b.chain = OtherChain <=> c.chain = OtherChain
    BY <1>1, <1>2, <1>5 DEF IInv, ChainsInv
  <2>2. ASSUME NEW b \in block_log, b.height > ForkHeight PROVE b.chain = new.chain
    <3>1. h > ForkHeight /\ b.chain \in {OldChain, NewChain, OtherChain}
          /\ new.chain \in {OldChain, NewChain, OtherChain}
      BY <1>1, <1>2, <1>3, <2>2 DEF Blocks
    <3> QED
      BY <1>2, <1>5, <1>6, <2>2, <3>1
  <2>3. \A b, c \in block_log' :
          b.height > ForkHeight /\ c.height > ForkHeight => b.chain = c.chain
    BY <1>1, <2>2 DEF IInv, ChainsInv
  <2>4. ASSUME new.chain = NewChain
        PROVE  /\ new.height > ForkHeight
               /\ \E release \in Releases, n \in Nodes :
                    release <= config.release /\ n.chain = NewChain
                      /\ AncestryOf(release, n).valid
    <3>1. config.release \in Releases /\ config.release \in Nat
      BY DEF IInv, TypeOK
    <3>2. config.release <= config.release
      BY <3>1
    <3> QED
      BY <1>2, <1>5, <2>4, <3>1, <3>2 DEF Ancestry
  <2> QED
    BY <1>1, <2>1, <2>3, <2>4 DEF IInv, ChainsInv
<1>12. NewestInv'
  <2>1. lastCommitted' \in HeightsInDB' /\ \A k \in HeightsInDB' : k <= lastCommitted'
    BY <1>1, <1>3, <1>4, HeightsAreOfBlocks DEF IInv
  <2> QED
    BY <1>1, <2>1 DEF NewestInv, SetUp, Current
<1>13. CheckedInv'
  <2>1. /\ \A b \in block_log' : b.chain = OtherChain <=> node.chain = OtherChain
        /\ node.chain = NewChain => \A b \in block_log' : b.height > ForkHeight =>
             b.chain = NewChain
    BY <1>1, <1>2, <1>5
  <2> QED
    BY <1>1, <2>1
       DEF IInv, CheckedInv, Ancestry, SetUp, Current, ChainKnown, GenesisChecked,
           ChainChecked, ForkChecked
<1> QED
  BY <1>7, <1>8, <1>9, <1>10, <1>11, <1>12, <1>13 DEF IInv

(* Nothing is kept but the database. *)
LEMMA KillStep ==
  ASSUME IInv, Kill
  PROVE  IInv'
<1>1. TypeOK'
  BY DEF IInv, TypeOK, Kill, Fault
<1>2. SchemaInv'
  BY DEF IInv, SchemaInv, Kill, Fault, Current, SetUp, ChainKnown, GenesisChecked,
         ChainChecked, ForkChecked
<1>3. GenesisInv'
  BY DEF IInv, GenesisInv, Kill, Fault
<1>4. HeightsInv'
  BY DEF IInv, HeightsInv, Kill, Fault, HeightsInDB
<1>5. ChainsInv'
  BY DEF IInv, ChainsInv, Kill, Fault
<1>6. NewestInv'
  BY DEF IInv, NewestInv, Kill, Fault, HeightsInDB, Current, SetUp, ChainKnown,
         GenesisChecked, ChainChecked, ForkChecked
<1>7. CheckedInv'
  BY DEF IInv, CheckedInv, Kill, Fault, Ancestry, BlockAt, Current, SetUp, ChainKnown,
         GenesisChecked, ChainChecked, ForkChecked
<1> QED
  BY <1>1, <1>2, <1>3, <1>4, <1>5, <1>6, <1>7 DEF IInv

(* Only the hash of the data goes. *)
LEMMA NukeStep ==
  ASSUME IInv, Nuke
  PROVE  IInv'
<1>1. TypeOK'
  <2>1. hashes' \in [Tags -> {"code", "older", "none"}] /\ faults' \in 0..MaxFaults
    BY DEF IInv, TypeOK, Nuke, Fault, Tags
  <2> QED
    BY <2>1 DEF IInv, TypeOK, Nuke
<1>2. SchemaInv'
  BY DEF IInv, SchemaInv, Nuke, Fault, Current, SetUp, ChainKnown, GenesisChecked,
         ChainChecked, ForkChecked
<1>3. GenesisInv'
  BY DEF IInv, GenesisInv, Nuke, Fault
<1>4. HeightsInv'
  BY DEF IInv, HeightsInv, Nuke, Fault, HeightsInDB
<1>5. ChainsInv'
  BY DEF IInv, ChainsInv, Nuke, Fault
<1>6. NewestInv'
  BY DEF IInv, NewestInv, Nuke, Fault, HeightsInDB, Current, SetUp, ChainKnown,
         GenesisChecked, ChainChecked, ForkChecked
<1>7. CheckedInv'
  BY DEF IInv, CheckedInv, Nuke, Fault, Ancestry, BlockAt, Current, SetUp, ChainKnown,
         GenesisChecked, ChainChecked, ForkChecked
<1> QED
  BY <1>1, <1>2, <1>3, <1>4, <1>5, <1>6, <1>7 DEF IInv

(* A later release still knows of the fork. *)
LEMMA ReconfigureStep ==
  ASSUME IInv, Reconfigure
  PROVE  IInv'
<1>1. TypeOK'
  BY DEF IInv, TypeOK, Reconfigure, Fault
<1>2. SchemaInv'
  BY DEF IInv, SchemaInv, Reconfigure, Fault, Current, SetUp, ChainKnown, GenesisChecked,
         ChainChecked, ForkChecked
<1>3. GenesisInv'
  BY DEF IInv, GenesisInv, Reconfigure, Fault
<1>4. HeightsInv'
  BY DEF IInv, HeightsInv, Reconfigure, Fault, HeightsInDB
<1>5. ChainsInv'
  <2>1. config.release \in Nat /\ config'.release \in Nat /\ config.release <= config'.release
    <3>1. config \in Configs /\ config' \in Configs /\ config.release <= config'.release
      BY DEF IInv, TypeOK, Reconfigure
    <3>2. \A c \in Configs : c.release \in Nat
      <4>1. Releases \subseteq Nat /\ \A c \in Configs : c.release \in Releases
        BY BootAssumption, Zenon
      <4> QED
        BY <4>1, Zenon
    <3> QED
      BY <3>1, <3>2
  <2>2. UNCHANGED block_log
    BY DEF Reconfigure
  <2>3. ASSUME NEW b \in block_log, b.chain = NewChain
        PROVE  \E release \in Releases, n \in Nodes :
                 release <= config'.release /\ n.chain = NewChain /\ AncestryOf(release, n).valid
    <3>1. PICK release \in Releases, n \in Nodes :
            release <= config.release /\ n.chain = NewChain /\ AncestryOf(release, n).valid
      BY <2>3 DEF IInv, ChainsInv
    <3>2. release <= config'.release
      <4>1. release \in Nat
        BY BootAssumption, Zenon
      <4> QED
        BY <2>1, <3>1, <4>1
    <3> QED
      BY <3>1, <3>2
  <2> QED
    BY <2>2, <2>3 DEF IInv, ChainsInv
<1>6. NewestInv'
  BY DEF IInv, NewestInv, Reconfigure, Fault, HeightsInDB, Current, SetUp, ChainKnown,
         GenesisChecked, ChainChecked, ForkChecked
<1>7. CheckedInv'
  BY DEF IInv, CheckedInv, Reconfigure, Fault, Ancestry, BlockAt, Current, SetUp,
         ChainKnown, GenesisChecked, ChainChecked, ForkChecked
<1> QED
  BY <1>1, <1>2, <1>3, <1>4, <1>5, <1>6, <1>7 DEF IInv

(* The process knows nothing yet. *)
LEMMA StartStep ==
  ASSUME IInv, Start
  PROVE  IInv'
<1>1. TypeOK'
  <2>1. NoId \in Ids
    BY DEF NoId, Ids
  <2> QED
    BY <2>1 DEF IInv, TypeOK, Start, Tags
<1>2. SchemaInv'
  BY DEF IInv, SchemaInv, Start, NoId, Current, SetUp, ChainKnown, GenesisChecked,
         ChainChecked, ForkChecked
<1>3. GenesisInv'
  BY DEF IInv, GenesisInv, Start, NoId
<1>4. HeightsInv'
  BY DEF IInv, HeightsInv, Start, NoId, HeightsInDB
<1>5. ChainsInv'
  BY DEF IInv, ChainsInv, Start, NoId
<1>6. NewestInv'
  BY DEF IInv, NewestInv, Start, NoId, HeightsInDB, Current, SetUp, ChainKnown,
         GenesisChecked, ChainChecked, ForkChecked
<1>7. CheckedInv'
  BY DEF IInv, CheckedInv, Start, NoId, Ancestry, BlockAt, Current, SetUp, ChainKnown,
         GenesisChecked, ChainChecked, ForkChecked
<1> QED
  BY <1>1, <1>2, <1>3, <1>4, <1>5, <1>6, <1>7 DEF IInv

-----------------------------------------------------------------------------
(* Nothing is in the database and nothing is known. *)
LEMMA InitIInv == Init => IInv
<1> SUFFICES ASSUME Init PROVE IInv
  OBVIOUS
<1>1. TypeOK
  <2>1. NoId \in Ids
    BY DEF NoId, Ids
  <2>2. hashes \in [Tags -> {"code", "older", "none"}]
    BY DEF Init
  <2> QED
    BY <2>1, <2>2 DEF Init, TypeOK, Tags
<1>2. SchemaInv /\ GenesisInv /\ HeightsInv /\ ChainsInv
  BY DEF Init, SchemaInv, GenesisInv, HeightsInv, ChainsInv, Current
<1>3. NewestInv /\ CheckedInv
  BY DEF Init, NewestInv, CheckedInv, SetUp, Current, ChainKnown, GenesisChecked, ChainChecked,
         ForkChecked
<1> QED
  BY <1>1, <1>2, <1>3 DEF IInv

(* A step in which nothing changes keeps the invariant. *)
LEMMA StutterStep ==
  ASSUME IInv, UNCHANGED vars
  PROVE  IInv'
<1>1. TypeOK'
  BY DEF vars, IInv, TypeOK
<1>2. SchemaInv' /\ GenesisInv' /\ HeightsInv' /\ ChainsInv'
  BY DEF vars, IInv, SchemaInv, GenesisInv, HeightsInv, HeightsInDB, ChainsInv
<1>3. NewestInv' /\ CheckedInv'
  BY DEF vars, IInv, NewestInv, HeightsInDB, CheckedInv, Ancestry, BlockAt
<1> QED
  BY <1>1, <1>2, <1>3 DEF IInv

(* Every step of the process, of a fault and of the operator keeps it. *)
LEMMA StepIInv == IInv /\ [Next]_vars => IInv'
<1> SUFFICES ASSUME IInv, [Next]_vars PROVE IInv'
  OBVIOUS
<1>1. CASE SchemaStep
  BY <1>1, CompareHashStep, ApplyDDLStep, StoreHashStep, SetupStep DEF SchemaStep
<1>2. CASE ChainStep
  BY <1>2, InitializeChainVarsStep, UnknownChainStep, CheckGenesisStatusStep,
     EnsureDBMatchesChainStep, PreventOverrunAfterForkStep DEF ChainStep
<1>3. CASE GenesisStep
  BY <1>3, LoadGenesisStep, SetGenesisConstantStep, FlushGenesisStep DEF GenesisStep
<1>4. CASE Start \/ WriteBlock \/ Kill \/ Nuke \/ Reconfigure
  BY <1>4, StartStep, WriteBlockStep, KillStep, NukeStep, ReconfigureStep
<1>5. CASE UNCHANGED vars
  BY <1>5, StutterStep
<1> QED
  BY <1>1, <1>2, <1>3, <1>4, <1>5 DEF Next

(* The parts of the invariant hold in every state of every behaviour. *)
THEOREM Invariance == Spec => []IInv
<1> QED
  BY InitIInv, StepIInv, PTL DEF Spec

(* Every variable keeps its type, and nobody writes before both schemas     *)
(* are the code's.                                                          *)
THEOREM TypeCorrect == Spec => []TypeOK
BY Invariance, PTL DEF IInv

(* However often the process is killed, reconfigured, the schema replaced or *)
(* the genesis begun again, its rows are stored at most once, never without *)
(* the constant (SetGenesisConstant comes first and LoadGenesis looks at it) *)
(* and only while there is no block: CheckGenesisStatus refuses older ones, *)
(* SetAndCheckFirstBlock all others without the constant.                   *)
THEOREM GenesisStoredOnce == Spec => []GenesisOnce
<1>1. IInv => GenesisOnce
  BY DEF IInv, TypeOK, GenesisInv, NewestInv, GenesisOnce
<1> QED
  BY <1>1, Invariance, PTL

(* The blocks of a chain with another first block are never mixed with      *)
(* those of the database, and no height is left out, whatever nodes and     *)
(* configurations the process is started with.                              *)
THEOREM DatabaseOfOneChain == Spec => []OneChain
<1>1. IInv => OneChain
  <2> SUFFICES ASSUME IInv, block_log # {}
               PROVE  HeightsInDB = FirstInDB.height .. Max(HeightsInDB)
    BY DEF OneChain, HeightsInDB, IInv, ChainsInv
  <2>1. PICK first \in {1, GenesisHeight}, last \in 1..MaxHeight :
          HeightsInDB = first..last /\ first <= last
    BY DEF IInv, HeightsInv
  <2>2. first \in HeightsInDB /\ last \in HeightsInDB
    BY <2>1
  <2>3. FirstInDB.height = first
    <3>1. FirstInDB \in block_log /\ FirstInDB.height \in Nat
          /\ \A b \in block_log : b.height >= FirstInDB.height
      BY FirstOfDB DEF IInv
    <3>2. FirstInDB.height \in first..last /\ FirstInDB.height <= first
      BY <2>1, <2>2, <3>1, HeightsAreOfBlocks DEF IInv
    <3> QED
      BY <2>1, <3>2
  <2>4. Max(HeightsInDB) = last
    <3>1. \A h \in HeightsInDB : last >= h
      BY <2>1
    <3>2. Max(HeightsInDB) \in HeightsInDB /\ \A h \in HeightsInDB : Max(HeightsInDB) >= h
      BY <2>2, <3>1 DEF Max
    <3> QED
      BY <2>1, <2>2, <3>2
  <2> QED
    BY <2>1, <2>3, <2>4
<1> QED
  BY <1>1, Invariance, PTL

(* Once the process follows the chain after the fork no block of the old    *)
(* chain is left above it, whenever the fork height came to be known and    *)
(* whichever nodes were used before.                                        *)
THEOREM NoBogusBlocksLeft == Spec => []NoBogusBlocks
<1>1. IInv => NoBogusBlocks
  BY DEF IInv, CheckedInv, NoBogusBlocks, SetUp, Current, ChainKnown, GenesisChecked,
         ChainChecked, ForkChecked
<1> QED
  BY <1>1, Invariance, PTL
=============================================================================
