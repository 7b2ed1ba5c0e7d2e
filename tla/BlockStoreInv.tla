----------------------------- MODULE BlockStoreInv -----------------------------
(***************************************************************************)
(* The inductive invariant of the block store: what is in the file being    *)
(* written, and what is left of the file being read, at every step of the   *)
(* three programs.                                                          *)
(***************************************************************************)
EXTENDS BlockStore

Finalizing == pc \in {"remove", "rename"}

NothingEnds(first, last) == \A h \in first..last : ~EndsChunk(h)

(* Until a job begins, updateFromRemote works down its list.                *)
UpdateInv ==
  /\ pc \in {"update", "download"} => missing = ListedFromGenesis \ DOMAIN chunks
  /\ pc \in {"update", "download", "opened"} => currentHeight = 0
  /\ pc = "download" => finalName \in missing
  /\ pc = "opened" => opened = FALSE

(* A file about to get the name of a chunk has that whole chunk, and there  *)
(* is none of that name: it comes from the list, or dump has come to the    *)
(* end of the first chunk after the last one.                               *)
FinalizeInv ==
  Finalizing =>
    /\ finalName \in ChunkNames \ DOMAIN chunks
    /\ current = LinesOf(finalName, TRUE)
    /\ currentHeight = 0 =>
         /\ finalName \in ListedFromGenesis
         /\ missing = (ListedFromGenesis \ DOMAIN chunks) \ {finalName}
    /\ currentHeight # 0 =>
         /\ tool = "dump"
         /\ currentHeight = finalName + 1
         /\ LastLocal < finalName
         /\ NothingEnds(LastLocal + 1, finalName - 1)

(* dump writes the chunk after the last one, from its first height on.      *)
DumpInv ==
  pc = "loop" /\ tool = "dump" =>
    /\ NothingEnds(LastLocal + 1, currentHeight - 1)
    /\ IF opened THEN LastLocal + 1 < currentHeight ELSE LastLocal + 1 = currentHeight
    /\ opened => current = Lines(LastLocal + 1, currentHeight - 1, TRUE)

(* What dump may ask the node for.                                          *)
NodeInv ==
  /\ node \in Nodes
  /\ currentHeight # 0 /\ tool = "dump" =>
       /\ node.earliest <= currentHeight
       /\ endHeight <= node.latest

(* What is left of the chunk that is open begins with the next height.      *)
ReaderInv ==
  /\ itb.chunk # 0 =>
       /\ itb.chunk \in ChunkNames
       /\ FirstIn(itb.chunk) < itb.next /\ itb.next <= itb.chunk + 1
       /\ \E p \in BOOLEAN : itb.rest = Lines(itb.next, itb.chunk, p)
  /\ pc = "loop" /\ tool = "fragment" => currentHeight = itb.next
  /\ pc = "failed" => tool \in {"read", "fragment"}

IInv ==
  /\ TypeOK
  /\ ChunksWhole
  /\ UpdateInv
  /\ FinalizeInv
  /\ DumpInv
  /\ NodeInv
  /\ ReaderInv
  /\ LostChunkRestored
  /\ ReaderFailsOnlyAtGap
=============================================================================
