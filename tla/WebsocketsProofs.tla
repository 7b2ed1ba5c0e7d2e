-------------------------- MODULE WebsocketsProofs --------------------------
(***************************************************************************)
(* Proofs of the safety properties of Websockets from the inductive        *)
(* invariant of WebsocketsInv: for any number of pools, descriptors,       *)
(* handlers and connections.                                               *)
(***************************************************************************)
EXTENDS WebsocketsInv, TLAPS

USE WebsocketsAssumption
(* Groups of variables and the numbers of connections, expanded everywhere. *)
USE DEF clientVars, mapVars, handlerVars, readerVars, notifierVars, stopVars, Conns

(* There is a descriptor and a pool to choose. *)
LEMMA AnyIn == AnyFd \in Fds /\ AnyAsset \in Assets
BY DEF AnyFd, AnyAsset

(* The unfinished pools are pools. *)
LEMMA UnfinishedAssets == ASSUME IInv PROVE Unfinished \subseteq Assets
BY DEF IInv, TypeOK, Unfinished, Tasks

-----------------------------------------------------------------------------
(* One lemma for each action: it keeps every part of the invariant. *)

(* A client only changes its inbox. *)
LEMMA SendStep ==
  ASSUME IInv, NEW c \in Conns, Send(c)
  PROVE  IInv'
<1>1. TypeOK'
  BY DEF IInv, TypeOK, Send
<1>2. SocketsInv'
  BY DEF IInv, SocketsInv, Send
<1>3. HandlersInv'
  BY DEF IInv, HandlersInv, Send
<1>4. ReaderInv'
  BY DEF IInv, ReaderInv, Send, AtRest, Adding, Clearing
<1>5. SubscriptionsInv'
  BY DEF IInv, SubscriptionsInv, Send, Unfinished, Wants, AtRest, Adding, Clearing
<1>6. NotifierInv'
  BY DEF IInv, NotifierInv, Send
<1> QED
  BY <1>1, <1>2, <1>3, <1>4, <1>5, <1>6 DEF IInv

(* A new connection has a number and a descriptor nobody uses. *)
LEMMA WsHandlerStep ==
  ASSUME IInv, NEW h \in Handlers, WsHandler(h)
  PROVE  IInv'
<1> PICK fd \in Fds :
          /\ socket[fd] = 0
          /\ socket' = [socket EXCEPT ![fd] = opened + 1]
          /\ hfd' = [hfd EXCEPT ![h] = fd]
  BY DEF WsHandler
<1>1. /\ hpc[h] = "idle" /\ hpc' = [hpc EXCEPT ![h] = "add"]
      /\ opened \in Nat /\ opened' = opened + 1 /\ opened' \in 1..MaxConns
      /\ UNCHANGED <<inbox, epoll, mapVars, readerVars, notifierVars, stopVars>>
  BY DEF WsHandler, IInv, TypeOK
<1>2. TypeOK'
  BY <1>1 DEF IInv, TypeOK
<1>3. SocketsInv'
  BY <1>1 DEF IInv, TypeOK, SocketsInv, HandlersInv
<1>4. HandlersInv'
  <2>1. \A k \in Handlers : hpc[k] # "idle" => hfd[k] # fd
    BY DEF IInv, HandlersInv
  <2>2. socket \in [Fds -> 0..MaxConns] /\ hpc \in [Handlers -> {"idle", "add", "store"}]
        /\ hfd \in [Handlers -> Fds] /\ connections[fd] = 0
    BY DEF IInv, TypeOK, SocketsInv
  <2> QED
    BY <1>1, <2>1, <2>2 DEF IInv, HandlersInv
<1>5. ReaderInv'
  BY DEF IInv, ReaderInv, WsHandler, AtRest, Adding, Clearing
<1>6. SubscriptionsInv'
  BY DEF IInv, SubscriptionsInv, WsHandler, Unfinished, Wants, AtRest, Adding, Clearing
<1>7. NotifierInv'
  BY DEF IInv, NotifierInv, WsHandler
<1> QED
  BY <1>2, <1>3, <1>4, <1>5, <1>6, <1>7 DEF IInv

(* The descriptor of a handler is no other's: closing it loses no *)
(* connection.                                                    *)
LEMMA EpollAddStep ==
  ASSUME IInv, NEW h \in Handlers, EpollAdd(h)
  PROVE  IInv'
<1>1. /\ hpc[h] = "add" /\ hfd[h] \in Fds
      /\ connections[hfd[h]] = 0 /\ socket[hfd[h]] # 0
      /\ UNCHANGED <<clientVars, mapVars, hfd, readerVars, notifierVars, stopVars>>
  BY DEF IInv, TypeOK, HandlersInv, EpollAdd
<1>2. \/ /\ epoll' = epoll \cup {hfd[h]} /\ hpc' = [hpc EXCEPT ![h] = "store"]
         /\ socket' = socket
      \/ /\ socket' = [socket EXCEPT ![hfd[h]] = 0] /\ hpc' = [hpc EXCEPT ![h] = "idle"]
         /\ epoll' = epoll
  BY DEF EpollAdd
<1>3. TypeOK'
  <2>1. socket' \in [Fds -> 0..MaxConns] /\ epoll' \subseteq Fds
        /\ hpc' \in [Handlers -> {"idle", "add", "store"}]
    BY <1>1, <1>2 DEF IInv, TypeOK
  <2> QED
    BY <1>1, <2>1 DEF IInv, TypeOK
<1>4. SocketsInv'
  <2>1. CASE epoll' = epoll \cup {hfd[h]} /\ hpc' = [hpc EXCEPT ![h] = "store"]
               /\ UNCHANGED socket
    BY <2>1 DEF IInv, TypeOK, SocketsInv, EpollAdd
  <2>2. CASE /\ socket' = [socket EXCEPT ![hfd[h]] = 0] /\ hpc' = [hpc EXCEPT ![h] = "idle"]
             /\ UNCHANGED epoll
    BY <2>2 DEF IInv, TypeOK, SocketsInv, HandlersInv, EpollAdd
  <2> QED
    BY <2>1, <2>2 DEF EpollAdd
<1>5. HandlersInv'
  <2>1. CASE /\ epoll' = epoll \cup {hfd[h]} /\ hpc' = [hpc EXCEPT ![h] = "store"]
             /\ socket' = socket
    BY <1>1, <2>1 DEF IInv, TypeOK, HandlersInv
  <2>2. CASE /\ socket' = [socket EXCEPT ![hfd[h]] = 0] /\ hpc' = [hpc EXCEPT ![h] = "idle"]
             /\ epoll' = epoll
    <3>1. \A k \in Handlers \ {h} : hpc[k] # "idle" => hfd[k] # hfd[h] /\ hfd[k] \in Fds
      BY <1>1 DEF IInv, TypeOK, HandlersInv
    <3>2. \A k \in Handlers : hpc'[k] # "idle" => k # h /\ hpc'[k] = hpc[k]
      BY <2>2 DEF IInv, TypeOK
    <3> QED
      BY <1>1, <2>2, <3>1, <3>2 DEF IInv, TypeOK, HandlersInv
  <2> QED
    BY <1>2, <2>1, <2>2
<1>6. ReaderInv'
  BY DEF IInv, ReaderInv, EpollAdd, AtRest, Adding, Clearing
<1>7. SubscriptionsInv'
  BY DEF IInv, SubscriptionsInv, EpollAdd, Unfinished, Wants, AtRest, Adding, Clearing
<1>8. NotifierInv'
  BY DEF IInv, NotifierInv, EpollAdd
<1> QED
  BY <1>3, <1>4, <1>5, <1>6, <1>7, <1>8 DEF IInv

(* Nobody has asked for anything on a connection that enters the map. *)
LEMMA AddConnectionStep ==
  ASSUME IInv, NEW h \in Handlers, AddConnection(h)
  PROVE  IInv'
<1>1. TypeOK'
  BY AnyIn DEF IInv, TypeOK, AddConnection
<1>2. SocketsInv'
  BY DEF IInv, TypeOK, Tasks, SocketsInv, HandlersInv, AddConnection
<1>3. HandlersInv'
  BY DEF IInv, TypeOK, HandlersInv, AddConnection
<1>4. ReaderInv'
  BY DEF IInv, TypeOK, Tasks, SocketsInv, HandlersInv, ReaderInv, AddConnection, AtRest,
         Adding, Clearing
<1>5. SubscriptionsInv'
  <2> DEFINE f == hfd[h]
  <2>1. /\ f \in Fds /\ socket[f] # 0 /\ connections[f] = 0
        /\ connections' = [connections EXCEPT ![f] = socket[f]]
        /\ UNCHANGED <<rpc, task, wanted, pools, assetFDs>>
    BY DEF IInv, TypeOK, HandlersInv, AddConnection
  <2>2. ASSUME NEW a \in Assets PROVE <<socket[f], a>> \notin wanted
    <3>1. \A fd \in Fds : connections[fd] # socket[f]
      BY <2>1 DEF IInv, SocketsInv
    <3> QED
      BY <3>1 DEF IInv, SubscriptionsInv
  <2>3. /\ \A fd \in Fds, a \in Assets : Wants(fd, a)' <=> Wants(fd, a)
        /\ Unfinished' = Unfinished /\ task.fd \in Fds
    BY <2>1, <2>2 DEF IInv, TypeOK, Wants, Unfinished, Tasks
  <2>4. \A p \in wanted : \E fd \in Fds : connections'[fd] = p[1]
    <3>1. ASSUME NEW p \in wanted PROVE \E fd \in Fds : connections'[fd] = p[1]
      <4>1. PICK fd \in Fds : connections[fd] = p[1]
        BY DEF IInv, SubscriptionsInv
      <4>2. p[1] # 0
        BY DEF IInv, TypeOK
      <4> QED
        BY <2>1, <4>1, <4>2 DEF IInv, TypeOK
    <3> QED
      BY <3>1
  <2> QED
    BY <2>1, <2>3, <2>4, UnfinishedAssets DEF IInv, SubscriptionsInv, AtRest, Adding
<1>6. NotifierInv'
  BY DEF IInv, NotifierInv, AddConnection
<1> QED
  BY <1>1, <1>2, <1>3, <1>4, <1>5, <1>6 DEF IInv

(* The events are those of connections in the map. *)
LEMMA WaitOnReceiveStep ==
  ASSUME IInv, WaitOnReceive
  PROVE  IInv'
<1>1. TypeOK'
  <2>1. ready' \subseteq [fd : Fds, conn : Conns] /\ rpc' \in {"top", "each"}
    BY DEF IInv, TypeOK, WaitOnReceive, OpenConnections
  <2> QED
    BY <2>1 DEF IInv, TypeOK, WaitOnReceive
<1>2. SocketsInv'
  BY DEF IInv, SocketsInv, WaitOnReceive, OpenConnections
<1>3. HandlersInv'
  BY DEF IInv, HandlersInv, WaitOnReceive, OpenConnections
<1>4. ReaderInv'
  BY DEF IInv, ReaderInv, WaitOnReceive, OpenConnections, AtRest, Adding, Clearing
<1>5. SubscriptionsInv'
  BY DEF IInv, SubscriptionsInv, WaitOnReceive, OpenConnections, Unfinished, Wants,
         AtRest, Adding, Clearing
<1>6. NotifierInv'
  BY DEF IInv, NotifierInv, WaitOnReceive, OpenConnections
<1> QED
  BY <1>1, <1>2, <1>3, <1>4, <1>5, <1>6 DEF IInv

(* A reader that stops has nothing in hand. *)
LEMMA ReaderStopsStep ==
  ASSUME IInv, ReaderStops
  PROVE  IInv'
<1>1. TypeOK'
  BY DEF IInv, TypeOK, ReaderStops
<1>2. SocketsInv'
  BY DEF IInv, SocketsInv, ReaderStops
<1>3. HandlersInv'
  BY DEF IInv, HandlersInv, ReaderStops
<1>4. ReaderInv'
  BY DEF IInv, ReaderInv, ReaderStops, AtRest, Adding, Clearing
<1>5. SubscriptionsInv'
  BY DEF IInv, SubscriptionsInv, ReaderStops, Unfinished, Wants, AtRest, Adding, Clearing
<1>6. NotifierInv'
  BY DEF IInv, NotifierInv, ReaderStops
<1> QED
  BY <1>1, <1>2, <1>3, <1>4, <1>5, <1>6 DEF IInv

(* The reader takes up one of the events, and no other names its *)
(* descriptor.                                                   *)
LEMMA NextConnectionStep ==
  ASSUME IInv, NextConnection
  PROVE  IInv'
<1>1. /\ rpc = "each"
      /\ UNCHANGED <<clientVars, socket, epoll, mapVars, handlerVars, wanted, notifierVars,
           stopVars>>
  BY DEF NextConnection
<1>2. /\ ready' \subseteq ready /\ task' \in Tasks
      /\ \/ rpc' = "top"
         \/ /\ rpc' = "read" /\ ~task'.clearing
            /\ task'.fd \in Fds /\ task'.conn # 0 /\ connections[task'.fd] = task'.conn
            /\ \A r \in ready' : r.fd # task'.fd
  <2>1. CASE ready = {} /\ rpc' = "top" /\ UNCHANGED <<ready, task>>
    BY <2>1 DEF IInv, TypeOK
  <2>2. ASSUME NEW r \in ready, ready' = ready \ {r}, rpc' = "read",
               task' = [NoTask EXCEPT !.fd = r.fd, !.conn = r.conn]
        PROVE  /\ ready' \subseteq ready /\ task' \in Tasks
               /\ rpc' = "read" /\ ~task'.clearing
               /\ task'.fd \in Fds /\ task'.conn # 0 /\ connections[task'.fd] = task'.conn
               /\ \A q \in ready' : q.fd # task'.fd
    <3>1. r.fd \in Fds /\ r.conn \in 0..MaxConns /\ r.conn # 0 /\ connections[r.fd] = r.conn
      BY DEF IInv, TypeOK, ReaderInv
    <3>2. task' \in Tasks /\ task'.fd = r.fd /\ task'.conn = r.conn /\ ~task'.clearing
      BY <2>2, <3>1, AnyIn DEF Tasks, NoTask
    <3>3. ASSUME NEW q \in ready' PROVE q.fd # r.fd
      BY <2>2 DEF IInv, TypeOK, ReaderInv
    <3> QED
      BY <2>2, <3>1, <3>2, <3>3
  <2> QED
    BY <2>1, <2>2 DEF NextConnection
<1>3. TypeOK'
  BY <1>1, <1>2 DEF IInv, TypeOK
<1>4. SocketsInv'
  BY <1>1, <1>2 DEF IInv, SocketsInv
<1>5. HandlersInv'
  BY <1>1 DEF IInv, HandlersInv
<1>6. ReaderInv'
  BY <1>1, <1>2 DEF IInv, ReaderInv, AtRest, Adding, Clearing
<1>7. SubscriptionsInv'
  <2>1. Unfinished = {} /\ Unfinished' = {}
    BY <1>1, <1>2 DEF Unfinished
  <2> QED
    BY <1>1, <1>2, <2>1 DEF IInv, SubscriptionsInv, Wants, AtRest
<1>8. NotifierInv'
  BY <1>1 DEF IInv, NotifierInv
<1> QED
  BY <1>3, <1>4, <1>5, <1>6, <1>7, <1>8 DEF IInv

(* The instruction read is the one now unfinished. *)
LEMMA ReadClientDataStep ==
  ASSUME IInv, ReadClientData
  PROVE  IInv'
<1>1. /\ rpc = "read" /\ task \in Tasks /\ ~task.clearing
      /\ task.fd \in Fds /\ task.conn # 0 /\ task.conn \in Conns
      /\ connections[task.fd] = task.conn
      /\ UNCHANGED <<opened, socket, epoll, mapVars, handlerVars, ready, notifierVars, stopVars>>
  BY DEF ReadClientData, IInv, TypeOK, ReaderInv, AtRest, Adding, Tasks
<1>2. /\ inbox' \in [Conns -> Complete \cup {Nothing, Part}]
      /\ \/ \E T \in SUBSET Assets : 
              /\ task' = [task EXCEPT !.todo = T]
              /\ \/ rpc' = "subscribe" /\ wanted' = wanted \cup ({task.conn} \X T)
                 \/ rpc' = "unsubscribe" /\ wanted' = wanted \ ({task.conn} \X T)
         \/ /\ rpc' = "clear" /\ task' = task
            /\ wanted' = wanted \ ({task.conn} \X Assets)
  <2> DEFINE c == task.conn
             m == inbox[c]
  <2>1. inbox' = IF m = Closed THEN inbox ELSE [inbox EXCEPT ![c] = Nothing]
    BY DEF ReadClientData
  <2>2. inbox' \in [Conns -> Complete \cup {Nothing, Part}]
    BY <1>1, <2>1 DEF IInv, TypeOK
  <2>3. CASE Accepted(m)
    <3>1. m.assets \in SUBSET Assets
      BY <2>3 DEF Accepted, Instructions
    <3>2. task' = [task EXCEPT !.todo = m.assets]
      BY <2>3 DEF ReadClientData
    <3>3. \/ rpc' = "subscribe" /\ wanted' = wanted \cup ({c} \X m.assets)
          \/ rpc' = "unsubscribe" /\ wanted' = wanted \ ({c} \X m.assets)
      BY <2>3 DEF ReadClientData
    <3> QED
      BY <2>2, <3>1, <3>2, <3>3
  <2>4. CASE ~Accepted(m)
    <3>1. /\ rpc' = "clear" /\ task' = task
          /\ wanted' = wanted \ ({c} \X Assets)
      BY <2>4 DEF ReadClientData
    <3> QED
      BY <2>2, <3>1
  <2> QED
    BY <2>3, <2>4
<1>3. task' \in Tasks /\ task'.fd = task.fd /\ task'.conn = task.conn /\ ~task'.clearing
      /\ wanted' \subseteq Conns \X Assets /\ rpc' \in {"subscribe", "unsubscribe", "clear"}
  <2>1. wanted \subseteq Conns \X Assets
    BY DEF IInv, TypeOK
  <2>2. \A T \in SUBSET Assets : {task.conn} \X T \subseteq Conns \X Assets
    BY <1>1
  <2>3. \A T \in SUBSET Assets : task' = [task EXCEPT !.todo = T] =>
          task' \in Tasks /\ task'.fd = task.fd /\ task'.conn = task.conn /\ ~task'.clearing
    BY <1>1 DEF Tasks
  <2>4. wanted' \subseteq Conns \X Assets
    BY <1>2, <2>1, <2>2
  <2> QED
    BY <1>1, <1>2, <2>3, <2>4
<1>4. TypeOK'
  BY <1>1, <1>2, <1>3 DEF IInv, TypeOK
<1>5. SocketsInv'
  BY <1>1, <1>3 DEF IInv, SocketsInv
<1>6. HandlersInv'
  BY <1>1 DEF IInv, HandlersInv
<1>7. ReaderInv'
  BY <1>1, <1>3 DEF IInv, ReaderInv, AtRest, Adding, Clearing
<1>8. SubscriptionsInv'
  <2>1. \A fd \in Fds : fd # task.fd /\ connections[fd] # 0 => connections[fd] # task.conn
    BY <1>1 DEF IInv, SocketsInv
  <2>2. \A fd \in Fds, a \in Assets : fd \in assetFDs[a] <=> Wants(fd, a)
    BY <1>1 DEF IInv, SubscriptionsInv, Unfinished
  <2>3. /\ \A a \in Assets : assetFDs'[a] # {} => a \in pools'
        /\ \A p \in wanted' : \E fd \in Fds : connections'[fd] = p[1]
    BY <1>1, <1>2 DEF IInv, SubscriptionsInv
  <2>4. ASSUME NEW T \in SUBSET Assets, task' = [task EXCEPT !.todo = T],
               rpc' = "subscribe", wanted' = wanted \cup ({task.conn} \X T)
        PROVE  SubscriptionsInv'
    <3>1. task'.todo = T /\ Unfinished' = T
      BY <1>1, <2>4 DEF Unfinished, Tasks
    <3>2. \A fd \in Fds, a \in Assets : 
            Wants(fd, a)' <=> Wants(fd, a) \/ (fd = task.fd /\ a \in T)
      BY <1>1, <2>1, <2>4 DEF Wants
    <3> QED
      BY <1>1, <1>3, <2>2, <2>3, <2>4, <3>1, <3>2 DEF SubscriptionsInv, AtRest, Adding
  <2>5. ASSUME NEW T \in SUBSET Assets, task' = [task EXCEPT !.todo = T],
               rpc' = "unsubscribe", wanted' = wanted \ ({task.conn} \X T)
        PROVE  SubscriptionsInv'
    <3>1. task'.todo = T /\ Unfinished' = T
      BY <1>1, <2>5 DEF Unfinished, Tasks
    <3>2. \A fd \in Fds, a \in Assets : 
            Wants(fd, a)' <=> Wants(fd, a) /\ ~(fd = task.fd /\ a \in T)
      BY <1>1, <2>1, <2>5 DEF Wants
    <3> QED
      BY <1>1, <1>3, <2>2, <2>3, <2>5, <3>1, <3>2 DEF SubscriptionsInv, AtRest, Adding
  <2>6. ASSUME rpc' = "clear", task' = task, wanted' = wanted \ ({task.conn} \X Assets)
        PROVE  SubscriptionsInv'
    <3>1. Unfinished' = Assets
      BY <2>6 DEF Unfinished
    <3>2. \A fd \in Fds, a \in Assets : Wants(fd, a)' <=> Wants(fd, a) /\ fd # task.fd
      BY <1>1, <2>1, <2>6 DEF Wants
    <3> QED
      BY <1>1, <2>2, <2>3, <2>6, <3>1, <3>2 DEF SubscriptionsInv, AtRest, Adding
  <2> QED
    BY <1>2, <2>4, <2>5, <2>6
<1>9. NotifierInv'
  BY <1>1 DEF IInv, NotifierInv
<1> QED
  BY <1>4, <1>5, <1>6, <1>7, <1>8, <1>9 DEF IInv

(* A pool looked up is done, or has to be stored. *)
LEMMA LookUpPoolStep ==
  ASSUME IInv, LookUpPool
  PROVE  IInv'
<1>1. /\ rpc = "subscribe" /\ task \in Tasks /\ ~task.clearing
      /\ task.fd \in Fds /\ task.conn # 0 /\ connections[task.fd] = task.conn
      /\ UNCHANGED <<clientVars, socket, epoll, mapVars, handlerVars, ready, wanted,
                  notifierVars, stopVars>>
  BY DEF LookUpPool, OnlyReaderMoves, IInv, TypeOK, ReaderInv, AtRest, Adding, Tasks
<1>2. \/ task.todo = {} /\ rpc' = "each" /\ task' = NoTask
      \/ \E a \in task.todo :
           /\ task' = [task EXCEPT !.todo = @ \ {a}, !.asset = a, !.found = a \in pools]
           /\ rpc' = IF task.fd \in assetFDs[a] THEN "subscribe" ELSE "store"
  BY DEF LookUpPool
<1>3. ASSUME NEW a \in task.todo,
             task' = [task EXCEPT !.todo = @ \ {a}, !.asset = a, !.found = a \in pools]
      PROVE  /\ task' \in Tasks /\ task'.fd = task.fd /\ task'.conn = task.conn
             /\ ~task'.clearing /\ task'.todo = task.todo \ {a} /\ task'.asset = a
             /\ task'.found = (a \in pools)
  <2>1. (a \in pools) \in BOOLEAN /\ a \in Assets
    BY <1>1 DEF Tasks
  <2>2. task' = [fd |-> task.fd, conn |-> task.conn, todo |-> task.todo \ {a}, asset |-> a,
                 found |-> a \in pools, clearing |-> task.clearing]
    BY <1>1, <1>3 DEF Tasks
  <2> QED
    BY <1>1, <2>1, <2>2 DEF Tasks
<1>4. TypeOK'
  <2>1. NoTask \in Tasks
    BY AnyIn DEF NoTask, Tasks
  <2> QED
    BY <1>1, <1>2, <1>3, <2>1 DEF IInv, TypeOK
<1>5. SocketsInv'
  BY <1>1, <1>2 DEF IInv, SocketsInv
<1>6. HandlersInv'
  BY <1>1 DEF IInv, HandlersInv
<1>7. ReaderInv'
  <2>1. rpc' \in {"each", "subscribe", "store"}
    BY <1>2
  <2>2. rpc' # "each" => /\ task'.fd = task.fd /\ task'.conn = task.conn /\ ~task'.clearing
                        /\ task'.found = (task'.asset \in pools)
    BY <1>2, <1>3
  <2> QED
    BY <1>1, <2>1, <2>2 DEF IInv, ReaderInv, AtRest, Adding, Clearing
<1>8. SubscriptionsInv'
  <2>1. CASE task.todo = {} /\ rpc' = "each" /\ task' = NoTask
    BY <1>1, <2>1 DEF IInv, SubscriptionsInv, Unfinished, Wants, AtRest
  <2>2. ASSUME NEW a \in task.todo,
               task' = [task EXCEPT !.todo = @ \ {a}, !.asset = a, !.found = a \in pools],
               rpc' = IF task.fd \in assetFDs[a] THEN "subscribe" ELSE "store"
        PROVE  SubscriptionsInv'
    <3>1. task'.fd = task.fd /\ task'.todo = task.todo \ {a} /\ task'.asset = a
            /\ ~task'.clearing
      BY <1>3, <2>2
    <3>2. /\ Unfinished = task.todo
          /\ Unfinished' = IF task.fd \in assetFDs[a] THEN task.todo \ {a} ELSE task.todo
      BY <1>1, <2>2, <3>1 DEF Unfinished
    <3>3. task.todo \subseteq Assets /\ rpc' \in Adding /\ rpc \in Adding
      BY <1>1, <2>2 DEF Tasks, Adding
    <3> QED
      BY <1>1, <2>2, <3>1, <3>2, <3>3 DEF IInv, SubscriptionsInv, Wants, AtRest, Adding
  <2> QED
    BY <1>2, <2>1, <2>2
<1>9. NotifierInv'
  BY <1>1 DEF IInv, NotifierInv
<1> QED
  BY <1>4, <1>5, <1>6, <1>7, <1>8, <1>9 DEF IInv

(* Storing the subscription settles the pool in hand; write is not running. *)
LEMMA StoreSubscriptionStep ==
  ASSUME IInv, StoreSubscription
  PROVE  IInv'
<1>1. TypeOK'
  BY DEF IInv, TypeOK, Tasks, StoreSubscription, OnlyReaderMoves, SubscribedPool, CanLock,
         NotifierReads
<1>2. SocketsInv'
  BY DEF IInv, SocketsInv, StoreSubscription, OnlyReaderMoves, SubscribedPool, CanLock,
         NotifierReads
<1>3. HandlersInv'
  BY DEF IInv, HandlersInv, StoreSubscription, OnlyReaderMoves, SubscribedPool, CanLock,
         NotifierReads
<1>4. ReaderInv'
  BY DEF IInv, ReaderInv, StoreSubscription, OnlyReaderMoves, SubscribedPool, CanLock,
         NotifierReads, AtRest, Adding, Clearing
<1>5. SubscriptionsInv'
  BY DEF IInv, TypeOK, Tasks, ReaderInv, SubscriptionsInv, StoreSubscription,
         OnlyReaderMoves, SubscribedPool, CanLock, NotifierReads, Unfinished, Wants,
         AtRest, Adding, Clearing
<1>6. NotifierInv'
  BY DEF IInv, NotifierInv, StoreSubscription, OnlyReaderMoves, SubscribedPool, CanLock,
         NotifierReads
<1> QED
  BY <1>1, <1>2, <1>3, <1>4, <1>5, <1>6 DEF IInv

(* All pools are unfinished; those without subscribers need nothing. *)
LEMMA ClearConnEntirelyStep ==
  ASSUME IInv, ClearConnEntirely
  PROVE  IInv'
<1>1. TypeOK'
  BY DEF IInv, TypeOK, Tasks, ClearConnEntirely, OnlyReaderMoves, PoolsToClear
<1>2. SocketsInv'
  BY DEF IInv, SocketsInv, ClearConnEntirely, OnlyReaderMoves, PoolsToClear
<1>3. HandlersInv'
  BY DEF IInv, HandlersInv, ClearConnEntirely, OnlyReaderMoves, PoolsToClear
<1>4. ReaderInv'
  BY DEF IInv, ReaderInv, ClearConnEntirely, OnlyReaderMoves, PoolsToClear, AtRest,
         Adding, Clearing
<1>5. SubscriptionsInv'
  BY DEF IInv, TypeOK, SubscriptionsInv, ClearConnEntirely, OnlyReaderMoves, PoolsToClear,
         Unfinished, Wants, AtRest, Adding, Clearing
<1>6. NotifierInv'
  BY DEF IInv, NotifierInv, ClearConnEntirely, OnlyReaderMoves, PoolsToClear
<1> QED
  BY <1>1, <1>2, <1>3, <1>4, <1>5, <1>6 DEF IInv

(* A pool is done, or the subscription has to be deleted. *)
LEMMA UnsubscribeFromPoolsStep ==
  ASSUME IInv, UnsubscribeFromPools
  PROVE  IInv'
<1>1. /\ rpc = "unsubscribe" /\ task \in Tasks
      /\ task.fd \in Fds /\ task.conn # 0 /\ connections[task.fd] = task.conn
      /\ UNCHANGED <<clientVars, socket, epoll, mapVars, handlerVars, ready, wanted,
                  notifierVars, stopVars>>
  BY DEF UnsubscribeFromPools, OnlyReaderMoves, IInv, TypeOK, ReaderInv, AtRest, Tasks
<1>2. \/ task.todo = {} /\ task.clearing /\ rpc' = "disconnect" /\ task' = task
      \/ task.todo = {} /\ rpc' = "each" /\ task' = NoTask
      \/ \E a \in task.todo :
           /\ task' = [task EXCEPT !.todo = @ \ {a}, !.asset = a]
           /\ rpc' = IF task.fd \in assetFDs[a] THEN "delete" ELSE "unsubscribe"
  BY DEF UnsubscribeFromPools
<1>3. ASSUME NEW a \in task.todo, task' = [task EXCEPT !.todo = @ \ {a}, !.asset = a]
      PROVE  /\ task' \in Tasks /\ task'.fd = task.fd /\ task'.conn = task.conn
             /\ task'.clearing = task.clearing /\ task'.todo = task.todo \ {a}
             /\ task'.asset = a
  BY <1>1, <1>3 DEF Tasks
<1>4. TypeOK'
  <2>1. NoTask \in Tasks
    BY AnyIn DEF NoTask, Tasks
  <2> QED
    BY <1>1, <1>2, <1>3, <2>1 DEF IInv, TypeOK
<1>5. SocketsInv'
  BY <1>1, <1>2 DEF IInv, SocketsInv
<1>6. HandlersInv'
  BY <1>1 DEF IInv, HandlersInv
<1>7. ReaderInv'
  <2>1. rpc' \in {"disconnect", "each", "delete", "unsubscribe"}
    BY <1>2
  <2>2. /\ rpc' # "each" => task'.fd = task.fd /\ task'.conn = task.conn
        /\ rpc' = "disconnect" => task'.clearing /\ task'.todo = {}
    BY <1>2, <1>3
  <2> QED
    BY <1>1, <2>1, <2>2 DEF IInv, ReaderInv, AtRest, Adding, Clearing
<1>8. SubscriptionsInv'
  <2>1. CASE task.todo = {} /\ task.clearing /\ rpc' = "disconnect" /\ task' = task
    BY <1>1, <2>1 DEF IInv, SubscriptionsInv, Unfinished, Wants, AtRest
  <2>2. CASE task.todo = {} /\ rpc' = "each" /\ task' = NoTask
    BY <1>1, <2>2 DEF IInv, SubscriptionsInv, Unfinished, Wants, AtRest
  <2>3. ASSUME NEW a \in task.todo, task' = [task EXCEPT !.todo = @ \ {a}, !.asset = a],
               rpc' = IF task.fd \in assetFDs[a] THEN "delete" ELSE "unsubscribe"
        PROVE  SubscriptionsInv'
    <3>1. task'.fd = task.fd /\ task'.todo = task.todo \ {a} /\ task'.asset = a
          /\ task'.clearing = task.clearing
      BY <1>3, <2>3
    <3>2. /\ Unfinished = task.todo
          /\ Unfinished' = IF task.fd \in assetFDs[a] THEN task.todo ELSE task.todo \ {a}
      BY <1>1, <2>3, <3>1 DEF Unfinished
    <3>3. task.todo \subseteq Assets /\ rpc' \notin Adding /\ rpc \notin Adding
      BY <1>1, <2>3 DEF Tasks, Adding
    <3> QED
      BY <1>1, <2>3, <3>1, <3>2, <3>3 DEF IInv, SubscriptionsInv, Wants, AtRest
  <2> QED
    BY <1>2, <2>1, <2>2, <2>3
<1>9. NotifierInv'
  BY <1>1 DEF IInv, NotifierInv
<1> QED
  BY <1>4, <1>5, <1>6, <1>7, <1>8, <1>9 DEF IInv

(* Deleting the subscription settles the pool in hand; write is not *)
(* running.                                                         *)
LEMMA DeleteSubscriptionStep ==
  ASSUME IInv, DeleteSubscription
  PROVE  IInv'
<1>1. TypeOK'
  BY DEF IInv, TypeOK, DeleteSubscription, OnlyReaderMoves, CanLock, NotifierReads
<1>2. SocketsInv'
  BY DEF IInv, SocketsInv, DeleteSubscription, OnlyReaderMoves, CanLock, NotifierReads
<1>3. HandlersInv'
  BY DEF IInv, HandlersInv, DeleteSubscription, OnlyReaderMoves, CanLock, NotifierReads
<1>4. ReaderInv'
  BY DEF IInv, ReaderInv, DeleteSubscription, OnlyReaderMoves, CanLock, NotifierReads,
         AtRest, Adding, Clearing
<1>5. SubscriptionsInv'
  BY DEF IInv, TypeOK, SubscriptionsInv, DeleteSubscription, OnlyReaderMoves, CanLock,
         NotifierReads, Unfinished, Wants, AtRest, Adding, Clearing
<1>6. NotifierInv'
  BY DEF IInv, NotifierInv, DeleteSubscription, OnlyReaderMoves, CanLock, NotifierReads
<1> QED
  BY <1>1, <1>2, <1>3, <1>4, <1>5, <1>6 DEF IInv

(* The reader takes its own connection out of epoll and no handler's. *)
LEMMA EpollDelStep ==
  ASSUME IInv, EpollDel
  PROVE  IInv'
<1>1. TypeOK'
  BY DEF IInv, TypeOK, EpollDel
<1>2. SocketsInv'
  BY DEF IInv, SocketsInv, EpollDel
<1>3. HandlersInv'
  <2>1. /\ rpc = "disconnect" /\ connections[task.fd] # 0 /\ epoll' = epoll \ {task.fd}
        /\ UNCHANGED <<socket, connections, handlerVars>>
    BY DEF IInv, ReaderInv, AtRest, EpollDel
  <2>2. \A h \in Handlers : hpc[h] = "store" => hfd[h] # task.fd
    BY <2>1 DEF IInv, HandlersInv
  <2> QED
    BY <2>1, <2>2 DEF IInv, HandlersInv
<1>4. ReaderInv'
  BY DEF IInv, ReaderInv, EpollDel, AtRest, Adding, Clearing
<1>5. SubscriptionsInv'
  BY DEF IInv, SubscriptionsInv, EpollDel, Unfinished, Wants, AtRest, Adding, Clearing
<1>6. NotifierInv'
  BY DEF IInv, NotifierInv, EpollDel
<1> QED
  BY <1>1, <1>2, <1>3, <1>4, <1>5, <1>6 DEF IInv

(* The connection leaves the map with its descriptor, and nobody's *)
(* subscriptions go with it.                                       *)
LEMMA RemoveConnectionStep ==
  ASSUME IInv, RemoveConnection
  PROVE  IInv'
<1> DEFINE f == task.fd
           c == task.conn
<1>1. /\ rpc = "remove" /\ f \in Fds /\ c \in Conns /\ c # 0
      /\ connections[f] = c /\ socket[f] = c
      /\ task.clearing /\ task.todo = {}
      /\ connections \in [Fds -> 0..MaxConns] /\ socket \in [Fds -> 0..MaxConns]
      /\ inbox \in [Conns -> Complete \cup {Nothing, Part}]
      /\ hfd \in [Handlers -> Fds]
  BY DEF RemoveConnection, IInv, TypeOK, SocketsInv, ReaderInv, AtRest, Clearing, Tasks
<1>2. /\ connections' = [connections EXCEPT ![f] = 0] /\ socket' = [socket EXCEPT ![f] = 0]
      /\ inbox' = [inbox EXCEPT ![c] = Nothing] /\ rpc' = "each" /\ task' = NoTask
      /\ UNCHANGED <<opened, epoll, pools, assetFDs, handlerVars, ready, wanted, notifierVars,
           stopVars>>
  BY DEF RemoveConnection
<1> HIDE DEF f, c
<1>3. TypeOK'
  <2>1. task' \in Tasks
    BY <1>2, AnyIn DEF NoTask, Tasks
  <2>2. /\ connections' \in [Fds -> 0..MaxConns] /\ socket' \in [Fds -> 0..MaxConns]
        /\ inbox' \in [Conns -> Complete \cup {Nothing, Part}]
    BY <1>1, <1>2
  <2> QED
    BY <1>2, <2>1, <2>2 DEF IInv, TypeOK
<1>4. SocketsInv'
  <2>1. \A fd \in Fds : fd # f => connections'[fd] = connections[fd] /\ socket'[fd] = socket[fd]
    BY <1>1, <1>2
  <2>2. connections'[f] = 0 /\ socket'[f] = 0
    BY <1>1, <1>2
  <2>3. \A fd \in Fds : socket'[fd] <= opened'
    BY <1>2, <2>1, <2>2 DEF IInv, TypeOK, SocketsInv
  <2>4. \A fd \in Fds : connections'[fd] # 0 => fd \in epoll'
    BY <1>2, <2>1, <2>2 DEF IInv, SocketsInv, f
  <2> QED
    BY <1>2, <2>1, <2>2, <2>3, <2>4 DEF IInv, SocketsInv
<1>5. HandlersInv'
  <2>1. \A h \in Handlers : hpc[h] # "idle" => hfd[h] # f
    BY <1>1 DEF IInv, HandlersInv
  <2> QED
    BY <1>1, <1>2, <2>1 DEF IInv, HandlersInv
<1>6. ReaderInv'
  <2>1. \A r \in ready : r.fd # f /\ r.fd \in Fds
    BY <1>1 DEF IInv, TypeOK, ReaderInv, AtRest, f
  <2> QED
    BY <1>1, <1>2, <2>1 DEF IInv, ReaderInv, AtRest, Adding, Clearing
<1>7. SubscriptionsInv'
  <2>1. Unfinished = {} /\ Unfinished' = {}
    BY <1>1, <1>2 DEF Unfinished
  <2>2. \A a \in Assets : <<c, a>> \notin wanted
    BY <1>1 DEF IInv, SubscriptionsInv, Wants, AtRest, f
  <2>3. \A fd \in Fds, a \in Assets : Wants(fd, a)' <=> Wants(fd, a)
    BY <1>1, <1>2, <2>2 DEF Wants
  <2>4. ASSUME NEW p \in wanted PROVE \E fd \in Fds : connections'[fd] = p[1]
    <3>1. PICK fd \in Fds : connections[fd] = p[1]
      BY DEF IInv, SubscriptionsInv
    <3>2. p[1] # c
      BY <2>2 DEF IInv, TypeOK
    <3>3. fd # f
      BY <1>1, <3>1, <3>2
    <3> QED
      BY <1>1, <1>2, <3>1, <3>3
  <2> QED
    BY <1>2, <2>1, <2>3, <2>4 DEF IInv, SubscriptionsInv, AtRest
<1>8. NotifierInv'
  BY DEF IInv, NotifierInv, RemoveConnection, NoTask
<1> QED
  BY <1>3, <1>4, <1>5, <1>6, <1>7, <1>8 DEF IInv

(* A block starts a round over the pools. *)
LEMMA WaitForBlockStep ==
  ASSUME IInv, WaitForBlock
  PROVE  IInv'
<1>1. TypeOK'
  BY DEF IInv, TypeOK, WaitForBlock
<1>2. SocketsInv'
  BY DEF IInv, SocketsInv, WaitForBlock
<1>3. HandlersInv'
  BY DEF IInv, HandlersInv, WaitForBlock
<1>4. ReaderInv'
  BY DEF IInv, ReaderInv, WaitForBlock, AtRest, Adding, Clearing
<1>5. SubscriptionsInv'
  BY DEF IInv, SubscriptionsInv, WaitForBlock, Unfinished, Wants, AtRest, Adding, Clearing
<1>6. NotifierInv'
  BY DEF IInv, NotifierInv, WaitForBlock
<1> QED
  BY <1>1, <1>2, <1>3, <1>4, <1>5, <1>6 DEF IInv

(* The descriptors to write to are the pool's subscribers. *)
LEMMA NotifyPoolStep ==
  ASSUME IInv, NotifyPool
  PROVE  IInv'
<1>1. TypeOK'
  BY DEF IInv, TypeOK, NotifyPool
<1>2. SocketsInv'
  BY DEF IInv, SocketsInv, NotifyPool
<1>3. HandlersInv'
  BY DEF IInv, HandlersInv, NotifyPool
<1>4. ReaderInv'
  BY DEF IInv, ReaderInv, NotifyPool, AtRest, Adding, Clearing
<1>5. SubscriptionsInv'
  BY DEF IInv, SubscriptionsInv, NotifyPool, Unfinished, Wants, AtRest, Adding, Clearing
<1>6. NotifierInv'
  BY DEF IInv, NotifierInv, NotifyPool
<1> QED
  BY <1>1, <1>2, <1>3, <1>4, <1>5, <1>6 DEF IInv

(* Writing only takes descriptors off the list. *)
LEMMA WriteToStep ==
  ASSUME IInv, NEW w \in Fds, WriteTo(w)
  PROVE  IInv'
<1>1. TypeOK'
  <2>1. /\ npc' \in {"write", "pools", "lock"} /\ pool' \in Assets /\ fdsLeft' \subseteq Fds
        /\ npc' = "write" <=> fdsLeft' # {}
    BY AnyIn DEF IInv, TypeOK, WriteTo, WriteEnds
  <2> QED
    BY <2>1 DEF IInv, TypeOK, WriteTo
<1>2. SocketsInv'
  BY DEF IInv, SocketsInv, WriteTo, WriteEnds
<1>3. HandlersInv'
  BY DEF IInv, HandlersInv, WriteTo, WriteEnds
<1>4. ReaderInv'
  BY DEF IInv, ReaderInv, WriteTo, WriteEnds, AtRest, Adding, Clearing
<1>5. SubscriptionsInv'
  BY DEF IInv, SubscriptionsInv, WriteTo, WriteEnds, Unfinished, Wants, AtRest, Adding,
         Clearing
<1>6. NotifierInv'
  BY DEF IInv, NotifierInv, WriteTo, WriteEnds
<1> QED
  BY <1>1, <1>2, <1>3, <1>4, <1>5, <1>6 DEF IInv

(* Only the process ends. *)
LEMMA ConcurrentMapAccessStep ==
  ASSUME IInv, ConcurrentMapAccess
  PROVE  IInv'
<1>1. TypeOK'
  BY DEF IInv, TypeOK, ConcurrentMapAccess
<1>2. SocketsInv'
  BY DEF IInv, SocketsInv, ConcurrentMapAccess
<1>3. HandlersInv'
  BY DEF IInv, HandlersInv, ConcurrentMapAccess
<1>4. ReaderInv'
  BY DEF IInv, ReaderInv, ConcurrentMapAccess, AtRest, Adding, Clearing
<1>5. SubscriptionsInv'
  BY DEF IInv, SubscriptionsInv, ConcurrentMapAccess, Unfinished, Wants, AtRest, Adding,
         Clearing
<1>6. NotifierInv'
  BY DEF IInv, NotifierInv, ConcurrentMapAccess
<1> QED
  BY <1>1, <1>2, <1>3, <1>4, <1>5, <1>6 DEF IInv

(* Only the notifier ends. *)
LEMMA JoinReaderStep ==
  ASSUME IInv, JoinReader
  PROVE  IInv'
<1>1. TypeOK'
  BY DEF IInv, TypeOK, JoinReader
<1>2. SocketsInv'
  BY DEF IInv, SocketsInv, JoinReader
<1>3. HandlersInv'
  BY DEF IInv, HandlersInv, JoinReader
<1>4. ReaderInv'
  BY DEF IInv, ReaderInv, JoinReader, AtRest, Adding, Clearing
<1>5. SubscriptionsInv'
  BY DEF IInv, SubscriptionsInv, JoinReader, Unfinished, Wants, AtRest, Adding, Clearing
<1>6. NotifierInv'
  BY DEF IInv, NotifierInv, JoinReader
<1> QED
  BY <1>1, <1>2, <1>3, <1>4, <1>5, <1>6 DEF IInv

(* Only the context is cancelled. *)
LEMMA CancelStep ==
  ASSUME IInv, Cancel
  PROVE  IInv'
<1>1. TypeOK'
  BY DEF IInv, TypeOK, Cancel
<1>2. SocketsInv'
  BY DEF IInv, SocketsInv, Cancel
<1>3. HandlersInv'
  BY DEF IInv, HandlersInv, Cancel
<1>4. ReaderInv'
  BY DEF IInv, ReaderInv, Cancel, AtRest, Adding, Clearing
<1>5. SubscriptionsInv'
  BY DEF IInv, SubscriptionsInv, Cancel, Unfinished, Wants, AtRest, Adding, Clearing
<1>6. NotifierInv'
  BY DEF IInv, NotifierInv, Cancel
<1> QED
  BY <1>1, <1>2, <1>3, <1>4, <1>5, <1>6 DEF IInv

-----------------------------------------------------------------------------
(* Nothing is connected, nobody has asked for anything. *)
LEMMA InitIInv == Init => IInv
<1> SUFFICES ASSUME Init PROVE IInv
  OBVIOUS
<1>1. TypeOK
  <2>1. task \in Tasks
    BY AnyIn DEF Init, Tasks, NoTask
  <2>2. inbox \in [Conns -> Complete \cup {Nothing, Part}]
    BY DEF Init
  <2>3. hfd \in [Handlers -> Fds] /\ pool \in Assets
    BY AnyIn DEF Init
  <2>4. socket \in [Fds -> 0..MaxConns] /\ connections \in [Fds -> 0..MaxConns]
        /\ opened \in 0..MaxConns
    BY DEF Init
  <2>5. {cancelled, crashed} \subseteq BOOLEAN /\ wanted \subseteq Conns \X Assets
    BY DEF Init
  <2>6. assetFDs \in [Assets -> SUBSET Fds] /\ hpc \in [Handlers -> {"idle", "add", "store"}]
    BY DEF Init
  <2> QED
    BY <2>1, <2>2, <2>3, <2>4, <2>5, <2>6 DEF Init, TypeOK
<1>2. SocketsInv /\ HandlersInv /\ ReaderInv /\ NotifierInv
  BY DEF Init, SocketsInv, HandlersInv, ReaderInv, NotifierInv, AtRest, Adding, Clearing
<1>3. SubscriptionsInv
  BY DEF Init, SubscriptionsInv, Unfinished, Wants, AtRest
<1> QED
  BY <1>1, <1>2, <1>3 DEF IInv

(* A step in which nothing changes keeps the invariant. *)
LEMMA StutterStep ==
  ASSUME IInv, UNCHANGED vars
  PROVE  IInv'
<1>1. TypeOK'
  BY DEF vars, IInv, TypeOK, Tasks
<1>2. SocketsInv' /\ HandlersInv' /\ ReaderInv' /\ NotifierInv'
  BY DEF vars, IInv, SocketsInv, HandlersInv, ReaderInv, NotifierInv, AtRest, Adding, Clearing
<1>3. SubscriptionsInv'
  BY DEF vars, IInv, SubscriptionsInv, Unfinished, Wants, AtRest
<1> QED
  BY <1>1, <1>2, <1>3 DEF IInv

(* Every step of the three parties keeps the invariant. *)
LEMMA StepIInv == IInv /\ [Next]_vars => IInv'
<1> SUFFICES ASSUME IInv, [Next]_vars PROVE IInv'
  OBVIOUS
<1>1. ASSUME NEW c \in Conns, Send(c) PROVE IInv'
  BY <1>1, SendStep
<1>2. ASSUME NEW h \in Handlers, HandlerStep(h) PROVE IInv'
  BY <1>2, WsHandlerStep, EpollAddStep, AddConnectionStep DEF HandlerStep
<1>3. CASE ReaderStep
  BY <1>3, WaitOnReceiveStep, ReaderStopsStep, NextConnectionStep, ReadClientDataStep,
     LookUpPoolStep, StoreSubscriptionStep, ClearConnEntirelyStep, UnsubscribeFromPoolsStep,
     DeleteSubscriptionStep, EpollDelStep, RemoveConnectionStep
     DEF ReaderStep
<1>4. CASE NotifierStep
  BY <1>4, WaitForBlockStep, NotifyPoolStep, WriteToStep, JoinReaderStep DEF NotifierStep
<1>5. CASE ConcurrentMapAccess
  BY <1>5, ConcurrentMapAccessStep
<1>6. CASE Cancel
  BY <1>6, CancelStep
<1>7. CASE UNCHANGED vars
  BY <1>7, StutterStep
<1> QED
  BY <1>1, <1>2, <1>3, <1>4, <1>5, <1>6, <1>7 DEF Next

(* The parts of the invariant hold in every state of every behaviour. *)
THEOREM Invariance == Spec => []IInv
<1> QED
  BY InitIInv, StepIInv, PTL DEF Spec

(* Every variable keeps its type; the notifier writes only while it has     *)
(* somebody to write to.                                                    *)
THEOREM TypeCorrect == Spec => []TypeOK
BY Invariance, PTL DEF IInv

-----------------------------------------------------------------------------
(* While write holds its read lock nobody is added or removed, so whoever   *)
(* it writes to is a subscriber, but for the client whose subscriptions     *)
(* the reader is taking away: connections[fd], read without the lock, is    *)
(* the connection that asked.                                               *)
THEOREM OnlySubscribersAreWrittenTo == Spec => []WritesToSubscriber
<1>1. IInv => WritesToSubscriber
  <2> SUFFICES ASSUME IInv, npc = "write", NEW fd \in fdsLeft
               PROVE  /\ connections[fd] # 0 /\ connections[fd] = socket[fd]
                      /\ \/ <<connections[fd], pool>> \in wanted
                         \/ task.fd = fd /\ rpc \in {"clear", "unsubscribe", "delete"}
    BY DEF WritesToSubscriber
  <2>1. fd \in Fds /\ pool \in Assets /\ fd \in assetFDs[pool]
    BY DEF IInv, TypeOK, NotifierInv
  <2>2. Wants(fd, pool) \/ (fd = task.fd /\ pool \in Unfinished)
    BY <2>1 DEF IInv, SubscriptionsInv
  <2>3. ASSUME fd = task.fd, pool \in Unfinished
        PROVE  /\ connections[fd] # 0
               /\ Wants(fd, pool) \/ rpc \in {"clear", "unsubscribe", "delete"}
    <3>1. rpc \notin AtRest
      BY <2>3 DEF Unfinished, AtRest
    <3>2. connections[fd] # 0
      BY <2>3, <3>1 DEF IInv, ReaderInv
    <3>3. rpc \in Adding \/ rpc \in {"clear", "unsubscribe", "delete"}
      BY <2>3 DEF Unfinished, Adding
    <3> QED
      BY <2>3, <3>2, <3>3 DEF IInv, SubscriptionsInv
  <2>4. connections[fd] # 0 => connections[fd] = socket[fd]
    BY <2>1 DEF IInv, SocketsInv
  <2> QED
    BY <2>2, <2>3, <2>4 DEF Wants
<1> QED
  BY <1>1, Invariance, PTL

(* With no instruction in hand every pool's subscribers are exactly the     *)
(* connected clients that asked for it.                                     *)
THEOREM SubscriptionsAlwaysMatch == Spec => []SubscriptionsMatch
<1>1. IInv => SubscriptionsMatch
  <2> SUFFICES ASSUME IInv, rpc \in AtRest, NEW a \in Assets
               PROVE  assetFDs[a] = {fd \in OpenConnections : <<connections[fd], a>> \in wanted}
    BY DEF SubscriptionsMatch, AtRest
  <2>1. Unfinished = {}
    BY DEF Unfinished, AtRest
  <2>2. \A fd \in Fds : fd \in assetFDs[a] <=> Wants(fd, a)
    BY <2>1 DEF IInv, SubscriptionsInv
  <2>3. assetFDs[a] \subseteq Fds
    BY DEF IInv, TypeOK
  <2> QED
    BY <2>2, <2>3 DEF Wants, OpenConnections
<1> QED
  BY <1>1, Invariance, PTL

(* A connection that is open is in epoll and in the map, a handler is still *)
(* adding it, or the reader is removing it.                                 *)
THEOREM OpenConnectionsAreKept == Spec => []NoConnectionLost
<1>1. IInv => NoConnectionLost
  <2> SUFFICES ASSUME IInv, NEW fd \in Fds, socket[fd] # 0
               PROVE  \/ fd \in epoll /\ connections[fd] = socket[fd]
                      \/ \E h \in Handlers : hpc[h] # "idle" /\ hfd[h] = fd
                      \/ rpc = "remove" /\ task.fd = fd /\ task.conn = socket[fd]
    BY DEF NoConnectionLost
  <2>1. connections[fd] # 0 \/ \E h \in Handlers : hpc[h] # "idle" /\ hfd[h] = fd
    BY DEF IInv, SocketsInv
  <2>2. ASSUME connections[fd] # 0
        PROVE  /\ connections[fd] = socket[fd]
               /\ fd \in epoll \/ (rpc = "remove" /\ task.fd = fd)
    BY <2>2 DEF IInv, SocketsInv
  <2>3. rpc = "remove" => task.conn = connections[task.fd]
    BY DEF IInv, ReaderInv, AtRest
  <2> QED
    BY <2>1, <2>2, <2>3
<1> QED
  BY <1>1, Invariance, PTL
=============================================================================
