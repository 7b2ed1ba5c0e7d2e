-------------------------------- MODULE MCBoot --------------------------------
(* A small instance of the start for TLC; see the cfg files. *)
EXTENDS BootInv

Info(c, p, e, f) ==
  [ChainId |-> c, ParentChainId |-> p, EarliestBlockHash |-> e, EarliestBlockHeight |-> 0,
   HardForkHeight |-> f]

(* The first release does not know of the fork, the second has forgotten its *)
(* height, the third is right.                                               *)
MCForkInfos ==
  <<<<Info(OldChain, NoChain, Block(1, OldChain), 0)>>,
    <<Info(OldChain, NoChain, Block(1, OldChain), 0), Info(NewChain, OldChain, NoHash, 0)>>,
    <<Info(OldChain, NoChain, Block(1, OldChain), ForkHeight), Info(NewChain, OldChain, NoHash, 0)>>>>

MCConfigs == [genesis : BOOLEAN, noauto : {{}, {"data"}, Tags}, release : 1..3]
=============================================================================
