---- MODULE MCWebsockets ----
(* A small instance of the subscriptions for TLC; see the cfg file. *)
EXTENDS WebsocketsInv
====
