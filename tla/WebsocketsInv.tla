---------------------------- MODULE WebsocketsInv ----------------------------
(***************************************************************************)
(* The inductive invariant behind the safety properties of Websockets, in   *)
(* parts: what holds of the descriptors, of the handlers, of the events and *)
(* the instruction the reader works on, of the subscriptions and of the     *)
(* notifier between any two steps.                                          *)
(***************************************************************************)
EXTENDS Websockets

(* A connection is open on one descriptor, and the map never names another  *)
(* connection than the one that is open.                                    *)
SocketsInv ==
  /\ \A fd \in Fds : socket[fd] <= opened
  /\ \A f, g \in Fds : socket[f] # 0 /\ socket[f] = socket[g] => f = g
  /\ \A fd \in Fds : connections[fd] # 0 => connections[fd] = socket[fd]
  /\ \A fd \in Fds : socket[fd] # 0 =>
       connections[fd] # 0 \/ \E h \in Handlers : hpc[h] # "idle" /\ hfd[h] = fd
  /\ \A fd \in Fds : connections[fd] # 0 =>
       fd \in epoll \/ (rpc = "remove" /\ task.fd = fd)

(* Each handler adds a descriptor of its own, open and not yet in the map. *)
HandlersInv ==
  /\ \A h \in Handlers : hpc[h] # "idle" =>
       socket[hfd[h]] # 0 /\ connections[hfd[h]] = 0
  /\ \A h \in Handlers : hpc[h] = "store" => hfd[h] \in epoll
  /\ \A g, h \in Handlers : hpc[g] # "idle" /\ hpc[h] # "idle" /\ hfd[g] = hfd[h] => g = h

AtRest == {"top", "each", "done"}
Adding == {"subscribe", "store"}
Clearing == {"disconnect", "remove"}

(* The events and the instruction in hand are of connections that are still *)
(* there: only the reader removes one, and it works on one at a time.       *)
ReaderInv ==
  /\ \A r \in ready : connections[r.fd] = r.conn
  /\ rpc \notin AtRest =>
       /\ task.conn # 0 /\ connections[task.fd] = task.conn
       /\ \A r \in ready : r.fd # task.fd
  /\ rpc \in Adding \cup {"read", "clear"} => ~task.clearing
  /\ rpc = "store" => task.found = (task.asset \in pools)
  /\ rpc \in Clearing => task.clearing /\ task.todo = {}

(* The pools the instruction in hand still has to be carried out for. *)
Unfinished ==
  CASE rpc \in {"subscribe", "unsubscribe"} -> task.todo
    [] rpc \in {"store", "delete"} -> task.todo \cup {task.asset}
    [] rpc = "clear" -> Assets
    [] OTHER -> {}

Wants(fd, a) == connections[fd] # 0 /\ <<connections[fd], a>> \in wanted

(* The subscriptions are what was asked for, except of the client and the   *)
(* pools in hand; of those it is known what will be done.                   *)
SubscriptionsInv ==
  /\ \A fd \in Fds, a \in Assets :
       ~(fd = task.fd /\ a \in Unfinished) => (fd \in assetFDs[a] <=> Wants(fd, a))
  /\ \A a \in Unfinished : Wants(task.fd, a) <=> rpc \in Adding
  /\ rpc = "clear" \/ (rpc \notin AtRest /\ task.clearing) =>
       \A a \in Assets : ~Wants(task.fd, a)
  /\ \A a \in Assets : assetFDs[a] # {} => a \in pools
  /\ \A p \in wanted : \E fd \in Fds : connections[fd] = p[1]

(* write holds the read lock: nobody is added or removed under its hands. *)
NotifierInv == npc = "write" => fdsLeft \subseteq assetFDs[pool]

IInv ==
  /\ TypeOK /\ SocketsInv /\ HandlersInv /\ ReaderInv /\ SubscriptionsInv /\ NotifierInv
=============================================================================
