------------------------------- MODULE Ledger -------------------------------
(***************************************************************************)
(* What the block pipeline promises to those who read its database, without *)
(* jobs, channels, batches or restarts: the blocks of the chain are         *)
(* recorded in their order, each once, never taken back, and the depths     *)
(* stored with the newest block are those of the rewards that were stored.  *)
(***************************************************************************)
EXTENDS Integers

CONSTANTS
  MaxHeight,  \* bound: the last height of the chain
  Losable     \* blocks whose rewards the database may reject

VARIABLES
  chainHeight,  \* the newest block of the chain
  recorded,     \* the newest recorded block: 1..recorded are in the database
  lost,         \* the recorded blocks whose rewards are not in the database
  total         \* the rewards that the stored depths include

ledgerVars == <<chainHeight, recorded, lost, total>>

LedgerInit ==
  /\ chainHeight \in 1..MaxHeight
  /\ recorded = 0
  /\ lost = {}
  /\ total = {}

Grow ==
  /\ chainHeight < MaxHeight
  /\ chainHeight' = chainHeight + 1
  /\ UNCHANGED <<recorded, lost, total>>

(* Some more blocks are recorded, all of them at once. *)
Record ==
  /\ recorded' \in (recorded + 1)..chainHeight
  /\ \E rejected \in SUBSET (Losable \cap ((recorded + 1)..recorded')) :
       lost' = lost \cup rejected
  /\ total' = (1..recorded') \ lost'
  /\ UNCHANGED chainHeight

LedgerNext == Grow \/ Record

LedgerSpec == LedgerInit /\ [][LedgerNext]_ledgerVars
=============================================================================
