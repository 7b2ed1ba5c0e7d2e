------------------------------- MODULE BootInv -------------------------------
(***************************************************************************)
(* The inductive invariant behind the safety properties of Boot, in parts:  *)
(* what each step of the start has made sure of by the time it is left, and *)
(* what that keeps true of the blocks of the database.                      *)
(***************************************************************************)
EXTENDS Boot

(* The schema is known to be the code's. *)
Current == {"setup", "status", "init", "ensure", "overrun", "genesis", "constant", "flush",
  "run"}
(* Setup has read the newest height. *)
SetUp == Current \ {"setup"}
(* The node's chain has been looked up. *)
ChainKnown == SetUp \ {"status"}
(* The genesis fits the node. *)
GenesisChecked == ChainKnown \ {"init"}
(* The blocks fit the node's chain, and then the fork. *)
ChainChecked == GenesisChecked \ {"ensure"}
ForkChecked == ChainChecked \ {"overrun"}

SchemaInv ==
  /\ pc \in Current => hashes = [t \in Tags |-> "code"]
  /\ pc \in {"schema", "apply", "hash"} /\ tag = "aggregates" => hashes["data"] = "code"

(* The rows of the genesis come after its constant, and go with it. *)
GenesisInv ==
  /\ genesisRows \in {0, 1}
  /\ genesisConstant = 0 => genesisRows = 0
  /\ pc = "constant" => genesisConstant = 0
  /\ pc = "flush" => genesisRows = 0 /\ genesisConstant = GenesisHeight

HeightsInDB == {b.height : b \in block_log}

(* One block for each height from the first one, which is below the fork. *)
HeightsInv ==
  /\ \A b, c \in block_log : b.height = c.height => b = c
  /\ block_log # {} =>
       \E first \in {1, GenesisHeight}, last \in 1..MaxHeight :
         HeightsInDB = first..last /\ first <= last

(* The chains of the blocks: one, but for the fork.  Blocks of the new chain *)
(* have only been written by a release that knows of the fork.               *)
ChainsInv ==
  /\ \A b, c \in block_log : b.chain = OtherChain <=> c.chain = OtherChain
  /\ \A b, c \in block_log :
       b.height > ForkHeight /\ c.height > ForkHeight => b.chain = c.chain
  /\ \A b \in block_log : b.chain = NewChain =>
       /\ b.height > ForkHeight
       /\ \E release \in Releases, n \in Nodes :
            release <= config.release /\ n.chain = NewChain /\ AncestryOf(release, n).valid

(* The newest height is that of the database, or what the genesis makes it. *)
NewestInv ==
  /\ pc \in SetUp /\ block_log # {} =>
       lastCommitted \in HeightsInDB /\ \A h \in HeightsInDB : h <= lastCommitted
  /\ pc \in SetUp \ {"run"} /\ block_log = {} => lastCommitted = 0
  /\ pc = "run" /\ block_log = {} => lastCommitted \in {0, GenesisHeight - 1}
  /\ pc \in {"constant", "flush"} => block_log = {}

(* What the process has found out about the node, and checked against it. *)
CheckedInv ==
  /\ pc \in ChainKnown =>
       /\ Ancestry.valid /\ current = Ancestry.current
       /\ root.StartHeight = Ancestry.root.StartHeight
  /\ pc \in {"init", "ensure"} => root = Ancestry.root
  /\ pc = "init" \/ (pc = "ensure" /\ ~config.genesis) =>
       FirstBlock = IF node.earliest = root.StartHeight THEN BlockAt(node.earliest) ELSE NoHash
  /\ pc \in GenesisChecked /\ config.genesis => node.chain # OtherChain
  /\ pc \in ChainChecked =>
       \A b \in block_log : b.chain = OtherChain <=> node.chain = OtherChain
  /\ pc \in {"overrun", "genesis"} /\ block_log # {} /\ config.genesis =>
       genesisConstant = GenesisHeight
  /\ pc \in ForkChecked /\ node.chain = NewChain =>
       \A b \in block_log : b.height > ForkHeight => b.chain = NewChain

IInv ==
  /\ TypeOK /\ SchemaInv /\ GenesisInv /\ HeightsInv /\ ChainsInv /\ NewestInv /\ CheckedInv
=============================================================================
