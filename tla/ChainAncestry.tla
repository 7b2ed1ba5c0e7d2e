---------------------------- MODULE ChainAncestry ----------------------------
(***************************************************************************)
(* Which chain the node is on and which one it has been forked from         *)
(* (internal/db/chainancestry.go).  A ForkInfo is a record of the chain, its *)
(* parent, its first height and the height at which it is forked; zero and  *)
(* "none" stand for what is not given.                                      *)
(***************************************************************************)
EXTENDS Naturals, Sequences, SequencesExt, TLC

NoChain == "none"
NoHash == [height |-> 0, chain |-> NoChain]

Invalid == [valid |-> FALSE, map |-> << >>]

(* A child begins where its parent is forked, a root at one. *)
FilledIn(map, fi) ==
  IF fi.EarliestBlockHeight # 0 THEN fi
  ELSE IF fi.ParentChainId = NoChain THEN [fi EXCEPT !.EarliestBlockHeight = 1]
  ELSE [fi EXCEPT !.EarliestBlockHeight = map[fi.ParentChainId].HardForkHeight + 1]

ParentFits(map, fi) ==
  fi.ParentChainId # NoChain =>
    /\ fi.ParentChainId \in DOMAIN map
    /\ map[fi.ParentChainId].HardForkHeight # 0
    /\ FilledIn(map, fi).EarliestBlockHeight = map[fi.ParentChainId].HardForkHeight + 1

ForkAfterStart(fi) == fi.HardForkHeight = 0 \/ fi.EarliestBlockHeight <= fi.HardForkHeight

(* The infos in their order, the well-known ones first: a later one replaces *)
(* an earlier one of the same chain.  A wrong one ends the process.          *)
CombinedForkInfoMap(infos) ==
  FoldLeft(LAMBDA acc, fi :
             IF acc.valid /\ ParentFits(acc.map, fi) /\ ForkAfterStart(FilledIn(acc.map, fi))
             THEN [acc EXCEPT !.map = (fi.ChainId :> FilledIn(acc.map, fi)) @@ @]
             ELSE Invalid,
           [valid |-> TRUE, map |-> << >>], infos)

(* recursiveFindRoot: the ancestor whose parent is not in the map. *)
RootOf(map, chain) ==
  LET ancestor[n \in 0..Cardinality(DOMAIN map)] ==
        IF n = 0 THEN chain
        ELSE IF map[ancestor[n - 1]].ParentChainId \in DOMAIN map
             THEN map[ancestor[n - 1]].ParentChainId
             ELSE ancestor[n - 1]
  IN ancestor[Cardinality(DOMAIN map)]

(* mergeAdditionalInfo: what is given replaces what the node says. *)
Merged(id, fi) ==
  [id EXCEPT
    !.StartHash = IF fi.EarliestBlockHash # NoHash THEN fi.EarliestBlockHash ELSE @,
    !.StartHeight = IF fi.EarliestBlockHeight # 0 THEN fi.EarliestBlockHeight ELSE @,
    !.HardForkHeight = IF fi.HardForkHeight # 0 THEN fi.HardForkHeight ELSE @]

(* EnrichAndGetRoot for the chain id the node gives: the chain as it is      *)
(* known here, and its root; "valid" is FALSE where the process ends.        *)
EnrichAndGetRoot(infos, id) ==
  LET combined == CombinedForkInfoMap(infos)
      map == combined.map
      known == Merged(id, map[id.Name])
      oldest == RootOf(map, id.Name)
  IN IF ~combined.valid THEN [valid |-> FALSE, current |-> id, root |-> id]
     ELSE IF id.Name \notin DOMAIN map
     THEN [valid |-> id.StartHeight = 1, current |-> id, root |-> id]
     ELSE [valid |-> known.HardForkHeight = 0 \/ known.StartHeight <= known.HardForkHeight,
           current |-> known,
           root |-> IF oldest = id.Name THEN known
                    ELSE [Name |-> oldest, StartHash |-> map[oldest].EarliestBlockHash,
                          StartHeight |-> map[oldest].EarliestBlockHeight,
                          HardForkHeight |-> map[oldest].HardForkHeight]]
=============================================================================
