------------------------------ MODULE MCQueries ------------------------------
(* A small instance of recording and reading for TLC; see the cfg files. *)
EXTENDS QueriesInv

Attr(key, form, e8, accepted) ==
  [key |-> key, form |-> form, e8 |-> e8, accepted |-> accepted]
PoolAmount(pool, e8, accepted) == Attr(pool, "number", e8, accepted)
Ev(t, attrs, accepted) == [type |-> t, attrs |-> attrs, accepted |-> accepted]
Block(finalized, txs, n) ==
  [FinalizeBlockEvents |-> finalized, TxsResults |-> txs, Txs |-> SubSeq(<<"x", "y", "z">>, 1, n)]

Transfer == Ev("transfer", <<Attr("amount", "coin", 0, TRUE)>>, TRUE)
Unknown == Ev("unknown", << >>, TRUE)
Contract == Ev("wasm-", <<Attr("code_id", "text", 0, TRUE)>>, TRUE)
RewardsOf(attrs) == Ev("rewards", attrs, TRUE)

(* Rewards; a transfer the schema refuses and rewards of which it refuses the *)
(* second entry; contracts; a correction downwards, and malformed events.     *)
MCBlocks ==
  {Block(<<RewardsOf(<<PoolAmount("a", 1, TRUE), Attr("bond_reward", "number", 7, TRUE),
                       PoolAmount("b", 2, TRUE), Attr("mode", "text", 0, TRUE)>>),
           Unknown, Transfer>>, << >>, 0),
   Block(<< >>, <<<<Ev("transfer", << >>, FALSE)>>, << >>,
                  <<RewardsOf(<<PoolAmount("a", 1, TRUE), PoolAmount("b", 1, FALSE)>>)>>>>, 3),
   Block(<<Ev("instantiate", <<Attr("code_id", "text", 0, TRUE)>>, TRUE)>>,
         <<<<Transfer, Contract, Ev("tx", << >>, TRUE)>>,
           <<Ev("instantiate", <<Attr("code_id", "number", 1, TRUE)>>, TRUE)>>>>, 2),
   Block(<<RewardsOf(<<PoolAmount("a", 1, TRUE), PoolAmount("a", -3, TRUE), Attr("b", "text", 9, TRUE),
                       Attr("amount", "empty", 0, TRUE)>>),
           RewardsOf(<<PoolAmount("b", 4, TRUE), Attr("amount", "number", 5, TRUE)>>)>>, << >>, 0)}

(* Three different blocks in any order. *)
MCChains == {c \in [1..3 -> MCBlocks] : \A h, k \in 1..3 : h # k => c[h] # c[k]}
MCSupplies == [p \in {"b"} |-> 5]

(* The month does not begin with the epoch. *)
Calendar(exact, min, max, cycle, offsets, origin) ==
  [exact |-> exact, minDuration |-> min, maxDuration |-> max, cycle |-> cycle,
   offsets |-> offsets, origin |-> origin]
MCIntervals ==
  [day |-> Calendar(TRUE, 3, 3, 3, {0}, 0), month |-> Calendar(FALSE, 6, 9, 15, {0, 6}, -3)]
MCTimes == <<4, 8, 14>>

Request(interval, from, to, count, named) ==
  [interval |-> interval, from |-> from, to |-> to, count |-> count, named |-> named]
(* Some end before they begin: in one day, in two of them and far apart. *)
MCRequests ==
  {Request({"day"}, {}, {}, {}, TRUE), Request({"day"}, {}, {}, {2}, FALSE),
   Request({"day"}, {5}, {10}, {}, TRUE), Request({"month"}, {}, {}, {2}, TRUE),
   Request({"month"}, {5}, {}, {1}, TRUE), Request({"day"}, {0}, {30}, {}, TRUE),
   Request({"day"}, {0}, {16}, {}, TRUE), Request({}, {10}, {5}, {}, TRUE),
   Request({"day"}, {8}, {7}, {}, TRUE), Request({"day"}, {10}, {7}, {}, TRUE),
   Request({"day"}, {14}, {4}, {}, TRUE),
   Request({}, {5}, {10}, {}, TRUE), Request({}, {}, {}, {}, FALSE)}
=============================================================================
