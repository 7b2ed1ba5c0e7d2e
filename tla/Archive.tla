------------------------------- MODULE Archive --------------------------------
(***************************************************************************)
(* What the block store promises: a set of finished chunks that only grows, *)
(* by the next one or by one of a known list that is missing.               *)
(***************************************************************************)
EXTENDS Naturals, FiniteSets

CONSTANTS
  Names,        \* the names a chunk can have
  Base,         \* where an empty archive begins
  ListedChunks  \* those that can be had from elsewhere

VARIABLE have

Init == have \subseteq Names

(* None is left out between those there are, or the base, and this one. *)
IsNext(n) ==
  \A m \in Names : Base < m /\ m < n /\ m \notin have => \E k \in have : m < k

Add(n) ==
  /\ n \notin have
  /\ n \in ListedChunks \/ IsNext(n)
  /\ have' = have \cup {n}

Next == \E n \in Names : Add(n)

Spec == Init /\ [][Next]_have
=============================================================================
