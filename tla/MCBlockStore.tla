----------------------------- MODULE MCBlockStore -----------------------------
(* A small block store for TLC; see the cfg file. *)
EXTENDS BlockStoreInv

Attr(k, v) == [key |-> k, value |-> v]
Ev(t, attrs) == [type |-> t, attributes |-> attrs]

(* Events without a mode come first, then those of the beginning, then those *)
(* of the end; the mode is the last attribute, or it is not; an event of a  *)
(* transaction has a mode of its own.                                       *)
MCKinds ==
  <<[FinalizeBlockEvents |->
       <<Ev("upgrade", <<Attr("name", "v2")>>),
         Ev("rewards", <<Attr("mode", "BeginBlock"), Attr("amount", "5qbtc")>>),
         Ev("transfer", <<Attr("amount", "1qbtc"), Attr("mode", "EndBlock")>>)>>,
     TxsResults |-> <<<<Ev("wasm-swap", <<Attr("mode", "fast"), Attr("to", "x")>>)>>>>,
     PureBlock |-> [txs |-> <<"tx1">>, evidence |-> "double vote"]],
    [FinalizeBlockEvents |->
       <<Ev("transfer", <<Attr("mode", "EndBlock"), Attr("sender", "")>>),
         Ev("coinbase", <<Attr("mode", "EndBlock")>>)>>,
     TxsResults |-> <<>>,
     PureBlock |-> [txs |-> <<>>, evidence |-> "[]"]],
    [FinalizeBlockEvents |-> <<>>,
     TxsResults |-> <<<<>>, <<Ev("transfer", <<Attr("msg_index", "0"), Attr("amount", "2b")>>)>>>>,
     PureBlock |-> [txs |-> <<"tx1", "tx2">>, evidence |-> "[]"]]>>

MCBlocks == [h \in 1..MaxHeight |-> MCKinds[1 + (h % 3)]]
=============================================================================
