--------------------------------- MODULE Boot ---------------------------------
(***************************************************************************)
(* From the start of the process to the first block it writes: what is in   *)
(* the database is compared with the code (schema), with the node (chain    *)
(* and fork) and with the configuration (genesis), and the process refuses  *)
(* to go on, resets the database or resumes.  The process may be killed     *)
(* between any two statements; the operator updates the configuration and   *)
(* connects to the node of the chain, of the one after the fork, or to a    *)
(* wrong one.                                                               *)
(*                                                                         *)
(* A block is known by its height and its chain; the chain before the fork  *)
(* may live on after it (its blocks are then bogus).                        *)
(***************************************************************************)
EXTENDS ChainAncestry, FiniteSets, FiniteSetsExt

CONSTANTS
  OldChain, NewChain, OtherChain,
  ForkHeight,     \* the last height the old and the new chain share
  MaxHeight,
  GenesisHeight,  \* of the genesis file
  Configs,        \* of [genesis, noauto : the schemas not updated, release]
  ForkInfos,      \* release -> its ForkInfos
  MaxFaults       \* kills and acts of the operator in a behaviour

Releases == DOMAIN ForkInfos
Tags == {"data", "aggregates"}

ASSUME BootAssumption ==
  /\ OldChain # NewChain /\ OldChain # OtherChain /\ NewChain # OtherChain
  /\ ForkHeight \in Nat \ {0} /\ MaxHeight \in Nat /\ ForkHeight < MaxHeight
  /\ GenesisHeight \in 1..ForkHeight
  /\ Releases \subseteq Nat
  /\ \A c \in Configs :
       c.release \in Releases /\ c.genesis \in BOOLEAN /\ c.noauto \in {{}, {"data"}, Tags}
  /\ MaxFaults \in Nat

VARIABLES
  pc, tag,        \* where the process is; the schema being updated
  config, node,   \* what it has been started with
  current, root,  \* CurrentChain, RootChain
  FirstBlock,
  lastCommitted,  \* height of LastCommittedBlock
  faults,
  hashes,         \* the database: schema hash "code", "older" or "none"
  genesisConstant,  \* the database: height of the genesis written, or 0
  genesisRows,    \* the database: how often its rows are there
  block_log       \* the database: its blocks

database == <<hashes, genesisConstant, genesisRows, block_log>>
chainVars == <<current, root, FirstBlock>>
operatorVars == <<config, node>>
vars == <<pc, tag, operatorVars, chainVars, lastCommitted, faults, database>>

Block(h, c) == [height |-> h, chain |-> c]
Blocks == [height : 1..MaxHeight, chain : {OldChain, NewChain, OtherChain}]
NoId == [Name |-> NoChain, StartHash |-> NoHash, StartHeight |-> 0, HardForkHeight |-> 0]

(* The nodes: of the old chain with all of its blocks or pruned, of the new *)
(* chain, which begins after the fork, and of a chain of its own.           *)
Nodes ==
  {[chain |-> OldChain, earliest |-> 1], [chain |-> OldChain, earliest |-> 2],
   [chain |-> NewChain, earliest |-> ForkHeight + 1], [chain |-> OtherChain, earliest |-> 1]}

(* The block at a height: of the node, or of the block store, which is that  *)
(* of the root chain.                                                        *)
BlockOf(n, h) == Block(h, IF n.chain = NewChain /\ h <= ForkHeight THEN OldChain ELSE n.chain)

BlockAt(h) == BlockOf(node, h)

Fault == faults < MaxFaults /\ faults' = faults + 1
Exit == pc' = "down" /\ UNCHANGED <<tag, operatorVars, chainVars, lastCommitted, faults>>
GoTo(next) == pc' = next /\ UNCHANGED <<tag, operatorVars, faults>>

-----------------------------------------------------------------------------
(* UpdateDDLIfNeeded, for the data and then for the aggregates. *)

(* Mutant: any hash will do. *)
HashMissing == hashes[tag] = "none"

HashDiffers == hashes[tag] # "code"

(* The updates that are prohibited: of the data, or of the aggregates and    *)
(* then of both.  Even so a schema without a readable hash is replaced.     *)
UpdateProhibited == tag \in config.noauto /\ hashes[tag] # "none"

CompareHash ==
  /\ pc = "schema"
  /\ \/ ~HashDiffers /\ tag = "data" /\ tag' = "aggregates" /\ UNCHANGED pc
     \/ ~HashDiffers /\ tag = "aggregates" /\ pc' = "setup" /\ tag' = "data"
     \/ HashDiffers /\ ~UpdateProhibited /\ pc' = "apply" /\ UNCHANGED tag
     \/ HashDiffers /\ UpdateProhibited /\ pc' = "down" /\ UNCHANGED tag
  /\ UNCHANGED <<operatorVars, chainVars, lastCommitted, faults, database>>

(* The parts of the schema: what was there is dropped, the constants too. *)
ApplyDDL ==
  /\ pc = "apply"
  /\ IF tag = "data"
     THEN /\ hashes' = [t \in Tags |-> "none"] /\ genesisConstant' = 0 /\ genesisRows' = 0
          /\ block_log' = {}
     ELSE UNCHANGED database
  /\ GoTo("hash") /\ UNCHANGED <<chainVars, lastCommitted>>

StoreHash ==
  /\ pc = "hash"
  /\ hashes' = [hashes EXCEPT ![tag] = "code"]
  /\ GoTo("schema") /\ UNCHANGED <<chainVars, lastCommitted, genesisConstant, genesisRows, block_log>>

(* timeseries.Setup *)
Setup ==
  /\ pc = "setup"
  /\ lastCommitted' = Max({0} \cup {b.height : b \in block_log})
  /\ GoTo("status") /\ UNCHANGED <<chainVars, database>>

-----------------------------------------------------------------------------
(* InitGlobalSync: the chain by the node's status, then the genesis. *)
IdOf(n) == [Name |-> n.chain, StartHash |-> BlockOf(n, n.earliest),
            StartHeight |-> n.earliest, HardForkHeight |-> 0]

Ancestries ==
  [release \in Releases, n \in Nodes |-> EnrichAndGetRoot(ForkInfos[release], IdOf(n))]

AncestryOf(release, n) == Ancestries[release, n]

Ancestry == AncestryOf(config.release, node)

(* What the configured ForkInfos are trusted with, where they are accepted   *)
(* at all: a first block they give is one of the chain it is given for, a    *)
(* root without one begins where the node does, and the new chain is known   *)
(* as the child of the old one, with its first block.  From then on the fork *)
(* height of the old one is known too.                                       *)
Ids == [Name : {NoChain, OldChain, NewChain, OtherChain}, StartHash : Blocks \cup {NoHash},
        StartHeight : 0..MaxHeight, HardForkHeight : Nat]

ASSUME AncestryAssumption ==
  \A release \in Releases, n \in Nodes :
    LET a == AncestryOf(release, n)
    IN a.valid =>
         /\ a.current \in Ids /\ a.root \in Ids
         /\ IF a.root.StartHash = NoHash THEN a.root.StartHeight = n.earliest
            ELSE a.root.StartHash.chain = OtherChain <=> n.chain = OtherChain
         /\ n.chain = NewChain =>
              /\ a.current.StartHeight = ForkHeight + 1
              /\ a.current.StartHash = Block(ForkHeight + 1, NewChain)
              /\ a.root.StartHeight # a.current.StartHeight
              /\ \A later \in Releases, o \in Nodes :
                   later >= release /\ o.chain = OldChain /\ AncestryOf(later, o).valid =>
                     AncestryOf(later, o).current.HardForkHeight = ForkHeight

InitializeChainVars ==
  /\ pc = "status" /\ GoTo("init")
  /\ Ancestry.valid
  /\ current' = Ancestry.current /\ root' = Ancestry.root
  /\ FirstBlock' = IF node.earliest = root'.StartHeight THEN BlockAt(node.earliest) ELSE NoHash
  /\ UNCHANGED <<lastCommitted, database>>

UnknownChain ==
  /\ pc = "status" /\ Exit
  /\ ~Ancestry.valid
  /\ UNCHANGED database

(* InitGenesis and CheckGenesisStatus. *)
GenesisBlock == Block(GenesisHeight, OldChain)

GenesisFits ==
  /\ genesisConstant \in {0, GenesisHeight}
  /\ lastCommitted = 0 \/ GenesisHeight <= lastCommitted
  /\ BlockAt(GenesisHeight) = GenesisBlock

CheckGenesisStatus ==
  /\ pc = "init"
  /\ \/ ~config.genesis /\ GoTo("ensure") /\ UNCHANGED <<chainVars, lastCommitted>>
     \/ /\ config.genesis /\ GenesisFits
        /\ FirstBlock' = GenesisBlock
        /\ GoTo("ensure") /\ UNCHANGED <<current, root, lastCommitted>>
     \/ config.genesis /\ ~GenesisFits /\ Exit
  /\ UNCHANGED database

-----------------------------------------------------------------------------
(* EnsureDBMatchesChain *)
FirstInDB == CHOOSE b \in block_log : \A c \in block_log : b.height <= c.height

StartHash == IF config.genesis THEN GenesisBlock ELSE root.StartHash

(* Mutant: the hash is only compared with a genesis. *)
GenesisHashMatches == config.genesis => StartHash = FirstInDB

FirstHashMatches == StartHash = NoHash \/ StartHash = FirstInDB

(* SetAndCheckFirstBlock *)
FirstBlockFits ==
  /\ config.genesis => genesisConstant = GenesisHeight
  /\ FirstInDB.height = IF config.genesis THEN GenesisHeight ELSE root.StartHeight
  /\ FirstBlock # NoHash => FirstBlock = FirstInDB

EnsureDBMatchesChain ==
  /\ pc = "ensure"
  /\ \/ block_log = {} /\ GoTo("genesis") /\ UNCHANGED chainVars
     \/ /\ block_log # {} /\ FirstHashMatches /\ FirstBlockFits
        /\ FirstBlock' = FirstInDB
        /\ root' = [root EXCEPT !.StartHash = IF StartHash = NoHash THEN FirstInDB ELSE @]
        /\ GoTo("overrun") /\ UNCHANGED current
     \/ block_log # {} /\ ~(FirstHashMatches /\ FirstBlockFits) /\ Exit
  /\ UNCHANGED <<lastCommitted, database>>

(* Mutant: only a chain with a fork height of its own is looked at. *)
OverrunBeforeFork ==
  /\ current.HardForkHeight # 0
  /\ \E b \in block_log : b.height = current.StartHeight /\ b # current.StartHash

(* PreventOverrunAfterFork: the block after the fork is of another chain. *)
Overrun ==
  /\ current.StartHeight # root.StartHeight
  /\ \E b \in block_log : b.height = current.StartHeight /\ b # current.StartHash

(* Mutant: the process ends, but the database is not marked. *)
OnlyRefuse ==
  /\ pc = "overrun"
  /\ \/ ~Overrun /\ GoTo("genesis") /\ UNCHANGED <<chainVars, lastCommitted, database>>
     \/ Overrun /\ Exit /\ UNCHANGED database

PreventOverrunAfterFork ==
  /\ pc = "overrun"
  /\ \/ ~Overrun /\ GoTo("genesis") /\ UNCHANGED <<chainVars, lastCommitted, database>>
     \/ /\ Overrun
        /\ hashes' = [hashes EXCEPT !["data"] = "none"]
        /\ Exit /\ UNCHANGED <<genesisConstant, genesisRows, block_log>>

-----------------------------------------------------------------------------
(* LoadGenesis: a genesis that is written already is not written again; a    *)
(* database with blocks and without the constant has not come this far.      *)
LoadGenesis ==
  /\ pc = "genesis"
  /\ \/ ~config.genesis /\ GoTo("run") /\ UNCHANGED lastCommitted
     \/ /\ config.genesis /\ genesisConstant # 0
        /\ lastCommitted' = IF lastCommitted = 0 THEN GenesisHeight - 1 ELSE lastCommitted
        /\ GoTo("run")
     \/ config.genesis /\ genesisConstant = 0 /\ GoTo("constant") /\ UNCHANGED lastCommitted
  /\ UNCHANGED <<chainVars, database>>

(* Mutant: the constant is not stored. *)
SkipGenesisConstant ==
  /\ pc = "constant"
  /\ GoTo("flush") /\ UNCHANGED <<chainVars, lastCommitted, database>>

(* The rows wait in the inserter; the constant is stored by itself. *)
SetGenesisConstant ==
  /\ pc = "constant"
  /\ genesisConstant' = GenesisHeight
  /\ GoTo("flush") /\ UNCHANGED <<chainVars, lastCommitted, hashes, genesisRows, block_log>>

(* If the rows are refused the process ends before deleteDBIfFail. *)
FlushGenesis ==
  /\ pc = "flush"
  /\ \/ /\ genesisRows' = genesisRows + 1 /\ lastCommitted' = GenesisHeight - 1
        /\ GoTo("run") /\ UNCHANGED <<chainVars, hashes, genesisConstant, block_log>>
     \/ /\ Fault /\ pc' = "down"
        /\ UNCHANGED <<tag, operatorVars, chainVars, lastCommitted, database>>

(* The pipeline, up to the fork of the current chain. *)
WriteBlock ==
  /\ pc = "run" /\ lastCommitted < MaxHeight
  /\ current.HardForkHeight # 0 => lastCommitted < current.HardForkHeight
  /\ block_log' = block_log \cup {BlockAt(lastCommitted + 1)}
  /\ lastCommitted' = lastCommitted + 1
  /\ UNCHANGED <<pc, tag, operatorVars, chainVars, faults, hashes, genesisConstant, genesisRows>>

-----------------------------------------------------------------------------
Kill ==
  /\ pc # "down" /\ Fault
  /\ pc' = "down"
  /\ UNCHANGED <<tag, operatorVars, chainVars, lastCommitted, database>>

(* nukedb removes the hash of the data. *)
Nuke ==
  /\ pc = "down" /\ Fault
  /\ hashes' = [hashes EXCEPT !["data"] = "none"]
  /\ UNCHANGED <<pc, tag, operatorVars, chainVars, lastCommitted, genesisConstant, genesisRows,
                 block_log>>

(* The operator stops the process, if it runs, and changes what it is to be  *)
(* started with: later releases, other settings, another node.  The schema   *)
(* may change with a release.                                                *)
Reconfigure ==
  /\ pc' = "down" /\ Fault
  /\ \E c \in Configs :
       /\ c.release >= config.release /\ config' = c
       /\ hashes' \in IF c.release = config.release THEN {hashes}
                      ELSE {hashes} \cup {[t \in Tags |-> IF t \in changed /\ hashes[t] = "code"
                                             THEN "older" ELSE hashes[t]] : changed \in SUBSET Tags}
  /\ node' \in Nodes
  /\ UNCHANGED <<tag, chainVars, lastCommitted, genesisConstant, genesisRows, block_log>>

Start ==
  /\ pc = "down"
  /\ pc' = "schema" /\ tag' = "data"
  /\ current' = NoId /\ root' = NoId /\ FirstBlock' = NoHash /\ lastCommitted' = 0
  /\ UNCHANGED <<operatorVars, faults, database>>

Init ==
  /\ pc = "down" /\ tag = "data"
  /\ config \in {c \in Configs : \A d \in Configs : c.release <= d.release} /\ node \in Nodes
  /\ current = NoId /\ root = NoId /\ FirstBlock = NoHash /\ lastCommitted = 0 /\ faults = 0
  /\ hashes = [t \in Tags |-> "none"] /\ genesisConstant = 0 /\ genesisRows = 0
  /\ block_log = {}

SchemaStep == CompareHash \/ ApplyDDL \/ StoreHash \/ Setup
ChainStep ==
  InitializeChainVars \/ UnknownChain \/ CheckGenesisStatus \/ EnsureDBMatchesChain
    \/ PreventOverrunAfterFork
GenesisStep == LoadGenesis \/ SetGenesisConstant \/ FlushGenesis

Next ==
  \/ Start \/ SchemaStep \/ ChainStep \/ GenesisStep \/ WriteBlock
  \/ Kill \/ Nuke \/ Reconfigure

Spec == Init /\ [][Next]_vars

(* A process that has ended is started again. *)
FairSpec == Spec /\ WF_vars(Start \/ SchemaStep \/ ChainStep \/ GenesisStep)

-----------------------------------------------------------------------------
TypeOK ==
  /\ pc \in {"down", "schema", "apply", "hash", "setup", "status", "init", "ensure", "overrun",
             "genesis", "constant", "flush", "run"}
  /\ tag \in Tags /\ config \in Configs /\ node \in Nodes
  /\ current \in Ids /\ root \in Ids
  /\ FirstBlock \in Blocks \cup {NoHash} /\ lastCommitted \in 0..MaxHeight
  /\ faults \in 0..MaxFaults
  /\ hashes \in [Tags -> {"code", "older", "none"}]
  /\ genesisConstant \in {0, GenesisHeight} /\ genesisRows \in Nat /\ block_log \subseteq Blocks
  /\ pc \in {"setup", "run"} => hashes = [t \in Tags |-> "code"]

(* The blocks of a chain with another first block are never mixed with those *)
(* of the one in the database, and no height is left out.                    *)
OneChain ==
  /\ \A b, c \in block_log : b.chain = OtherChain <=> c.chain = OtherChain
  /\ block_log # {} =>
       {b.height : b \in block_log} = FirstInDB.height .. Max({b.height : b \in block_log})

(* After the fork has been followed no bogus block is left, whenever the     *)
(* fork height came to be known: globalblocks.go:285-287.                    *)
NoBogusBlocks ==
  pc = "run" /\ node.chain = NewChain =>
    \A b \in block_log : b.height > ForkHeight => b.chain = NewChain

(* However often the process is killed or reconfigured in between, the       *)
(* genesis is stored at most once, and only into a database without blocks.  *)
GenesisOnce ==
  /\ genesisRows <= 1
  /\ genesisRows = 1 => genesisConstant = GenesisHeight
  /\ pc \in {"constant", "flush"} => block_log = {}

(* What the process rightly refuses: another chain than the one in the       *)
(* database, a chain without proper ForkInfos, a genesis of another chain,   *)
(* one added to a database that begins elsewhere or without it, one left out *)
(* where the blocks begin with it, a schema it may not update.               *)
RightlyRefused ==
  \/ \E b \in block_log : (b.chain = OtherChain) # (node.chain = OtherChain)
  \/ ~Ancestry.valid
  \/ config.genesis /\ node.chain = OtherChain
  \/ block_log # {} /\ config.genesis /\ (genesisConstant = 0 \/ FirstInDB # GenesisBlock)
  \/ block_log # {} /\ ~config.genesis /\ GenesisHeight # 1 /\ FirstInDB = GenesisBlock
  \/ \E t \in config.noauto : hashes[t] = "older"

(* Nothing else stops it for ever: a database with bogus blocks is marked,   *)
(* dropped and filled again, an interrupted update of the schema is made     *)
(* good, and a database that belongs to this chain is accepted.              *)
ComesUp == <>[](pc = "run") \/ <>[]RightlyRefused

(* genesis.go:24: "The Genesis is already written."  A process that goes on  *)
(* after the constant has been stored has the rows.                          *)
GenesisIsWritten == pc = "run" /\ config.genesis => genesisRows = 1
=============================================================================
