----------------------------- MODULE RecorderInv -----------------------------
(***************************************************************************)
(* The inductive invariant behind the safety properties of Recorder, in     *)
(* parts: where the walk over the events is, what the rows written so far   *)
(* have to do with it, and what the depths have to do with both.            *)
(***************************************************************************)
EXTENDS Recorder

Places == Nat \X Nat \X Nat
EventRows == [event : Places, part : Nat, id : Int]
DepthRows == [height : Nat, pool : Pools, qbtc : Int, synth : Int]

IsMap(f) == DOMAIN f \subseteq Pools /\ f \in [DOMAIN f -> Int]
IsTotals(t) == t = [qbtc |-> t.qbtc, synth |-> t.synth] /\ IsMap(t.qbtc) /\ IsMap(t.synth)

IsLogRow(r) ==
  /\ r = [height |-> r.height, saved |-> r.saved, agg |-> r.agg]
  /\ r.height \in Nat /\ r.saved \in BOOLEAN /\ IsTotals(r.agg)

IsTables(t) ==
  /\ t = [events |-> t.events, depths |-> t.depths, log |-> t.log, blocks |-> t.blocks]
  /\ t.events \subseteq EventRows /\ IsFiniteSet(t.events)
  /\ t.depths \subseteq DepthRows
  /\ \A r \in t.log : IsLogRow(r)

RowsType ==
  /\ IsTables(db) /\ IsTables(pending)
  /\ IsTotals(totals) /\ IsTotals(snapshot)
  /\ tx \in Nat /\ event \in Nat

(* The newest block of the database. *)
Top == IF db.log = {} THEN 0 ELSE LastRow(db.log).height

(* The id of an event is a function of its place in the chain. *)
IdOf(e) ==
  e[1] * blockHeightScale + e[3] + (IF e[2] = 0 THEN 0 ELSE typeDigit + e[2] * txIndexScale)

(* There is such an event in the chain, or such a coin in the genesis file. *)
InChain(e) ==
  \/ e[1] = 0 /\ e[2] = 0 /\ e[3] \in 1..Balances
  \/ /\ e[1] \in 1..Len(chain)
     /\ e[2] \in 0..Len(chain[e[1]].TxsResults)
     /\ e[3] \in 1..Len(EventsOf(chain[e[1]], e[2]))

(* The walk over the events of the block in hand has come past the event. *)
Passed(e) ==
  \/ e[1] < height
  \/ /\ e[1] = height
     /\ pc = "event" => e[2] < tx \/ (e[2] = tx /\ e[3] <= event)

(* Where the process is, the id of the next event included. *)
PositionInv ==
  /\ Top <= Len(chain)
  /\ pc = "down" => pending = NoRows
  /\ pc \in {"down", "genesis"} => snapshot = NoTotals /\ missed = FALSE
  /\ pc = "genesis" => height = Top /\ pending = NoRows
  /\ pc # "down" => Top <= height
  /\ pc = "event" =>
       /\ Top < height
       /\ EventId = [Location |-> IF tx = 0 THEN "finalized" ELSE "txs", TxIndex |-> tx,
                     EventIndex |-> event + 1]

(* Every row is of an event of the chain and has its id; rows not committed *)
(* are of blocks after the newest one, as far as the walk has come.         *)
EventsInv ==
  /\ \A r \in Written.events :
       /\ InChain(r.event)
       /\ r.id = IdOf(r.event)
       /\ r.event[1] > 0 => r.part \in DOMAIN RowsOf(EventAt(r.event))
  /\ \A r \in db.events : r.event[1] <= Top
  /\ \A r \in pending.events : Top < r.event[1] /\ Passed(r.event)

(* The newest row of a table is the only one of its height and has a state. *)
EndsSaved(log) ==
  log # {} => \E r \in log : r.saved /\ \A s \in log : s # r => s.height < r.height

LogInv ==
  /\ EndsSaved(db.log)
  /\ \A r \in pending.log : r.saved => pc = "flush" /\ r = LogRow(TRUE)
  /\ pc # "down" =>
       \A r \in Written.log : r.height <= height /\ (pc = "event" => r.height < height)
  /\ pc = "flush" =>
       LogRow(TRUE) \in pending.log /\ \A s \in Written.log : s # LogRow(TRUE) =>
         s.height < height

Known(t) == DOMAIN t.qbtc \cup DOMAIN t.synth

(* What the depth recorder has seen is in the rows, and a pool has rows only *)
(* if the totals, the stored ones after a restart, know of it.               *)
DepthsInv ==
  /\ \A r, s \in Written.depths : r.pool = s.pool /\ r.height = s.height => r = s
  /\ \A r \in db.depths :
       db.log # {} /\ r.height <= Top /\ r.pool \in Known(LastRow(db.log).agg)
  /\ pc # "down" =>
       \A r \in Written.depths :
         /\ r.height <= height /\ (pc = "event" => r.height < height)
         /\ r.pool \in Known(totals)
  /\ Known(snapshot) \subseteq Known(totals)
  /\ pc # "down" /\ snapshot # NoTotals /\ ~missed =>
       \A p \in Pools : NewestDepth(p) = <<At(snapshot.qbtc, p), At(snapshot.synth, p)>>
  /\ pc \in {"select", "flush"} /\ snapshot # NoTotals => snapshot = totals

IInv ==
  /\ TypeOK
  /\ RowsType
  /\ PositionInv
  /\ EventsInv
  /\ LogInv
  /\ DepthsInv
  /\ DepthsAreRewards
=============================================================================
