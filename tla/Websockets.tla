------------------------------ MODULE Websockets ------------------------------
(***************************************************************************)
(* The price subscriptions (internal/websockets): which connection gets the *)
(* prices of which pool.                                                    *)
(*   handlers  WsHandler, one goroutine per request: upgrade the connection *)
(*             and add it to epoll and to the connection map;               *)
(*   reader    readMessagesWaiting: carries out the clients' instructions   *)
(*             and is the only one to remove connections;                   *)
(*   notifier  serve and write: after a block, writes to the subscribers of *)
(*             each pool.                                                   *)
(* assetMutex is a sync.RWMutex: it is not reentrant, and once a Lock waits *)
(* no new RLock gets through.  A file descriptor is used again after Close. *)
(* A step between two locks is atomic; the loops' bodies are not.           *)
(*                                                                         *)
(* Neither reading nor writing has a deadline: a goroutine that waits for a *)
(* client is one whose next step is not promised (see FairSpec).            *)
(*                                                                         *)
(* At this commit WsHandler has no route and timeseries.Latest no pools     *)
(* (LatestPools = {}): what subscribers get is latent in the program as it  *)
(* is shipped, and is what its tests call.                                  *)
(***************************************************************************)
EXTENDS Naturals, FiniteSets

CONSTANTS
  Assets,     \* names of pools
  LatestPools,  \* the pools of timeseries.Latest
  Requests,   \* the sets of pools a client names in an instruction
  Fds,        \* file descriptors
  Handlers,   \* requests being handled at the same time
  ConnLimit,
  MaxConns    \* connections made in a behaviour

ASSUME WebsocketsAssumption ==
  /\ Fds # {} /\ Assets # {} /\ LatestPools \subseteq Assets
  /\ Requests \subseteq (SUBSET Assets) \ {{}}
  /\ ConnLimit \in Nat \ {0} /\ MaxConns \in Nat
  /\ IsFiniteSet(Fds) /\ IsFiniteSet(Handlers) /\ IsFiniteSet(Assets)

Conns == 1..MaxConns

(* What a client sends; "closed" is its end of the connection.  A message    *)
(* that cannot be parsed is refused as one that names an unknown pool is.   *)
Instructions == [message : {"Connect", "Disconnect"}, assets : Requests]
Signal(m) == [message |-> m, assets |-> {}]
Nothing == Signal("none")
Part == Signal("part")
Closed == Signal("closed")
Complete == Instructions \cup {Closed}

VARIABLES
  opened,       \* connections made so far; their numbers are their identities
  socket,       \* operating system: the connection open on a descriptor, or 0
  epoll,        \* descriptors registered for reading
  inbox,        \* what the client of a connection has sent
  connections,  \* connectionManager: descriptor -> connection, or 0
  pools,        \* the keys of assetFDs ...
  assetFDs,     \* ... and the descriptors subscribed to them
  hpc, hfd,     \* handlers
  rpc, ready, task,   \* reader: the events and the instruction it works on
  npc, poolsLeft, pool, fdsLeft,  \* notifier
  cancelled, crashed,
  wanted        \* subscriptions asked for in the instructions read so far

AnyFd == CHOOSE fd \in Fds : TRUE
AnyAsset == CHOOSE a \in Assets : TRUE
NoTask == [fd |-> AnyFd, conn |-> 0, todo |-> {}, asset |-> AnyAsset, found |-> FALSE,
           clearing |-> FALSE]

clientVars == <<opened, inbox>>
mapVars == <<connections, pools, assetFDs>>
handlerVars == <<hpc, hfd>>
readerVars == <<rpc, ready, task, wanted>>
notifierVars == <<npc, poolsLeft, pool, fdsLeft>>
stopVars == <<cancelled, crashed>>
vars == <<clientVars, socket, epoll, mapVars, handlerVars, readerVars, notifierVars, stopVars>>

(* write keeps its read lock for the whole of its loop. *)
NotifierReads == npc \in {"write", "lock"}
ReaderWaitsForLock == rpc \in {"store", "delete"}
NotifierWaitsForLock == npc = "lock"
CanLock == ~crashed /\ ~NotifierReads

-----------------------------------------------------------------------------
(* A client sends something, in one or in two pieces, or closes. *)
Send(c) ==
  /\ \E fd \in Fds : socket[fd] = c
  /\ \/ inbox[c] = Nothing /\ \E m \in Complete \cup {Part} : inbox' = [inbox EXCEPT ![c] = m]
     \/ inbox[c] = Part /\ \E m \in Complete : inbox' = [inbox EXCEPT ![c] = m]
  /\ ~crashed
  /\ UNCHANGED <<opened, socket, epoll, mapVars, handlerVars, readerVars, notifierVars, stopVars>>

-----------------------------------------------------------------------------
OpenConnections == {fd \in Fds : connections[fd] # 0}

RoomLeft == Cardinality(OpenConnections) < ConnLimit

(* WsHandler: the limit is checked, then the connection is upgraded.  A     *)
(* connection that is refused or not upgraded leaves nothing behind.        *)
WsHandler(h) ==
  /\ ~crashed /\ ~cancelled /\ hpc[h] = "idle" /\ RoomLeft /\ opened < MaxConns
  /\ \E fd \in Fds :
       /\ socket[fd] = 0
       /\ socket' = [socket EXCEPT ![fd] = opened + 1]
       /\ hfd' = [hfd EXCEPT ![h] = fd]
  /\ opened' = opened + 1
  /\ hpc' = [hpc EXCEPT ![h] = "add"]
  /\ UNCHANGED <<inbox, epoll, mapVars, readerVars, notifierVars, stopVars>>

(* connectionManager.Add: epoll first; if that fails the handler closes. *)
EpollAdd(h) ==
  /\ ~crashed /\ hpc[h] = "add"
  /\ \/ /\ epoll' = epoll \cup {hfd[h]} /\ hpc' = [hpc EXCEPT ![h] = "store"]
        /\ UNCHANGED socket
     \/ /\ socket' = [socket EXCEPT ![hfd[h]] = 0] /\ hpc' = [hpc EXCEPT ![h] = "idle"]
        /\ UNCHANGED epoll
  /\ UNCHANGED <<clientVars, mapVars, hfd, readerVars, notifierVars, stopVars>>

(* ... then, under connMutex, the map. *)
AddConnection(h) ==
  /\ ~crashed /\ hpc[h] = "store"
  /\ connections' = [connections EXCEPT ![hfd[h]] = socket[hfd[h]]]
  /\ hpc' = [hpc EXCEPT ![h] = "idle"] /\ hfd' = [hfd EXCEPT ![h] = AnyFd]
  /\ UNCHANGED <<clientVars, socket, epoll, pools, assetFDs, readerVars, notifierVars,
                 stopVars>>

-----------------------------------------------------------------------------
(* WaitOnReceive: epoll is level-triggered, a descriptor that is not in the *)
(* map yet is passed over and reported again.                               *)
WaitOnReceive ==
  /\ ~crashed /\ rpc = "top" /\ ~cancelled
  /\ ready' = {[fd |-> fd, conn |-> connections[fd]] :
                 fd \in {f \in epoll \cap OpenConnections : inbox[socket[f]] # Nothing}}
  /\ rpc' = IF ready' = {} THEN "top" ELSE "each"
  /\ UNCHANGED <<clientVars, socket, epoll, mapVars, handlerVars, task, wanted, notifierVars,
                 stopVars>>

(* Mutant: the context is only looked at by the notifier. *)
NeverEnds == FALSE

ReaderEnds == cancelled

(* The context is cancelled, or epoll fails: nobody reads any more. *)
ReaderStops ==
  /\ ~crashed /\ rpc = "top"
  /\ ReaderEnds \/ ~cancelled
  /\ rpc' = "done"
  /\ UNCHANGED <<clientVars, socket, epoll, mapVars, handlerVars, ready, task, wanted,
                 notifierVars, stopVars>>

NextConnection ==
  /\ ~crashed /\ rpc = "each"
  /\ \/ ready = {} /\ rpc' = "top" /\ UNCHANGED <<ready, task>>
     \/ \E r \in ready :
          ready' = ready \ {r} /\ rpc' = "read"
            /\ task' = [NoTask EXCEPT !.fd = r.fd, !.conn = r.conn]
  /\ UNCHANGED <<clientVars, socket, epoll, mapVars, handlerVars, wanted, notifierVars,
                 stopVars>>

(* PoolExists, of every pool the client names. *)
Accepted(m) == m \in Instructions /\ m.assets \subseteq LatestPools

(* ReadClientData waits for a whole message.  A closed connection and a     *)
(* refused message lead to clearConnEntirely.                               *)
ReadClientData ==
  /\ ~crashed /\ rpc = "read"
  /\ inbox[task.conn] \in Complete
  /\ LET c == task.conn
         m == inbox[c]
     IN /\ inbox' = IF m = Closed THEN inbox ELSE [inbox EXCEPT ![c] = Nothing]
        /\ \/ /\ Accepted(m)
              /\ task' = [task EXCEPT !.todo = m.assets]
              /\ \/ /\ m.message = "Connect" /\ rpc' = "subscribe"
                    /\ wanted' = wanted \cup ({c} \X m.assets)
                 \/ /\ m.message = "Disconnect" /\ rpc' = "unsubscribe"
                    /\ wanted' = wanted \ ({c} \X m.assets)
           \/ /\ ~Accepted(m)
              /\ rpc' = "clear"
              /\ wanted' = wanted \ ({c} \X Assets)
              /\ UNCHANGED task
  /\ UNCHANGED <<opened, socket, epoll, mapVars, handlerVars, ready, notifierVars, stopVars>>

ReaderRLock == ~crashed /\ ~NotifierWaitsForLock
OnlyReaderMoves ==
  UNCHANGED <<clientVars, socket, epoll, connections, handlerVars, ready, wanted, notifierVars,
              stopVars>>

(* subscribeToPools: the pool is looked up under a read lock ... *)
LookUpPool ==
  /\ ReaderRLock /\ rpc = "subscribe"
  /\ \/ task.todo = {} /\ rpc' = "each" /\ task' = NoTask
     \/ \E a \in task.todo :
          /\ task' = [task EXCEPT !.todo = @ \ {a}, !.asset = a, !.found = a \in pools]
          /\ rpc' = IF task.fd \in assetFDs[a] THEN "subscribe" ELSE "store"
  /\ OnlyReaderMoves /\ UNCHANGED <<pools, assetFDs>>

(* Mutant: the pool's map is always a new one. *)
NewPool == {task.fd}

SubscribedPool == IF task.found THEN assetFDs[task.asset] \cup {task.fd} ELSE {task.fd}

(* ... and a new map, or a new entry, is stored under a write lock. *)
StoreSubscription ==
  /\ CanLock /\ rpc = "store"
  /\ pools' = pools \cup {task.asset}
  /\ assetFDs' = [assetFDs EXCEPT ![task.asset] = SubscribedPool]
  /\ rpc' = "subscribe"
  /\ OnlyReaderMoves /\ UNCHANGED task

(* Mutant: only the connection is removed. *)
NoPools == {}

PoolsToClear == pools

(* clearConnEntirely: unsubscribe from all pools, then disconnect. *)
ClearConnEntirely ==
  /\ ReaderRLock /\ rpc = "clear"
  /\ task' = [task EXCEPT !.todo = PoolsToClear, !.clearing = TRUE] /\ rpc' = "unsubscribe"
  /\ OnlyReaderMoves /\ UNCHANGED <<pools, assetFDs>>

UnsubscribeFromPools ==
  /\ ReaderRLock /\ rpc = "unsubscribe"
  /\ \/ task.todo = {} /\ task.clearing /\ rpc' = "disconnect" /\ UNCHANGED task
     \/ task.todo = {} /\ ~task.clearing /\ rpc' = "each" /\ task' = NoTask
     \/ \E a \in task.todo :
          /\ task' = [task EXCEPT !.todo = @ \ {a}, !.asset = a]
          /\ rpc' = IF task.fd \in assetFDs[a] THEN "delete" ELSE "unsubscribe"
  /\ OnlyReaderMoves /\ UNCHANGED <<pools, assetFDs>>

DeleteSubscription ==
  /\ CanLock /\ rpc = "delete"
  /\ assetFDs' = [assetFDs EXCEPT ![task.asset] = @ \ {task.fd}]
  /\ rpc' = "unsubscribe"
  /\ OnlyReaderMoves /\ UNCHANGED <<pools, task>>

(* messageAndDisconnect: the client has taken the message, or it could not    *)
(* be sent; then connectionManager.Remove: out of epoll ...                 *)
EpollDel ==
  /\ ~crashed /\ rpc = "disconnect"
  /\ epoll' = epoll \ {task.fd} /\ rpc' = "remove"
  /\ UNCHANGED <<clientVars, socket, mapVars, handlerVars, ready, task, wanted, notifierVars,
                 stopVars>>

(* Mutant: closed before it is taken out of the map. *)
CloseThenRemove ==
  /\ ~crashed /\ rpc = "remove"
  /\ \/ /\ socket[task.fd] = task.conn
        /\ socket' = [socket EXCEPT ![task.fd] = 0]
        /\ UNCHANGED <<connections, rpc, task>>
     \/ /\ socket[task.fd] # task.conn
        /\ connections' = [connections EXCEPT ![task.fd] = 0]
        /\ rpc' = "each" /\ task' = NoTask
        /\ UNCHANGED socket
  /\ UNCHANGED <<clientVars, epoll, pools, assetFDs, handlerVars, ready, wanted, notifierVars,
                 stopVars>>

(* ... and, under connMutex, out of the map before it is closed. *)
RemoveConnection ==
  /\ ~crashed /\ rpc = "remove"
  /\ connections' = [connections EXCEPT ![task.fd] = 0]
  /\ socket' = [socket EXCEPT ![task.fd] = 0]
  /\ inbox' = [inbox EXCEPT ![task.conn] = Nothing]
  /\ rpc' = "each" /\ task' = NoTask
  /\ UNCHANGED <<opened, epoll, pools, assetFDs, handlerVars, ready, wanted, notifierVars,
                 stopVars>>

-----------------------------------------------------------------------------
(* waitForBlock: there are pings, or the context is cancelled and serve     *)
(* waits for the reader.                                                    *)
WaitForBlock ==
  /\ ~crashed /\ npc = "wait"
  /\ \/ ~cancelled /\ npc' = "pools" /\ poolsLeft' = LatestPools
     \/ cancelled /\ npc' = "join" /\ UNCHANGED poolsLeft
  /\ UNCHANGED <<clientVars, socket, epoll, mapVars, handlerVars, readerVars, pool, fdsLeft,
                 stopVars>>

(* notifyClients: the next pool; write takes the read lock. *)
NotifyPool ==
  /\ ~crashed /\ ~ReaderWaitsForLock /\ npc = "pools"
  /\ \/ poolsLeft = {} /\ npc' = "wait" /\ UNCHANGED <<poolsLeft, pool, fdsLeft>>
     \/ \E p \in {q \in poolsLeft : assetFDs[q] = {}} :
          poolsLeft' = poolsLeft \ {p} /\ UNCHANGED <<npc, pool, fdsLeft>>
     \/ \E p \in {q \in poolsLeft : assetFDs[q] # {}} :
          poolsLeft' = poolsLeft \ {p} /\ pool' = p /\ fdsLeft' = assetFDs[p] /\ npc' = "write"
  /\ UNCHANGED <<clientVars, socket, epoll, mapVars, handlerVars, readerVars, stopVars>>

(* A client has taken what is written to it, which it need never do.  A      *)
(* write to a client that has closed may fail: on Copy the rest of the      *)
(* pool's subscribers is left out, and on Flush the goroutine asks for the  *)
(* write lock while it holds the read lock.  No step leaves "lock": the     *)
(* attempts are never counted, and the disconnection after three of them is *)
(* never reached.                                                           *)
(* Mutant: the pool is left with subscribers in hand. *)
WriteStops(next) == fdsLeft' = fdsLeft /\ pool' = AnyAsset /\ npc' = next

WriteEnds(next) == fdsLeft' = {} /\ pool' = AnyAsset /\ npc' = next

WriteTo(fd) ==
  /\ ~crashed /\ npc = "write" /\ fd \in fdsLeft
  /\ \/ fdsLeft # {fd} /\ fdsLeft' = fdsLeft \ {fd} /\ UNCHANGED <<npc, pool>>
     \/ fdsLeft = {fd} /\ WriteEnds("pools")
     \/ inbox[connections[fd]] = Closed /\ (WriteEnds("pools") \/ WriteEnds("lock"))
  /\ UNCHANGED <<clientVars, socket, epoll, mapVars, handlerVars, readerVars, poolsLeft,
                 stopVars>>

(* Two reads of the connection map are made without its mutex: the one of   *)
(* write and the one before Remove.  While another goroutine stores or      *)
(* deletes an entry the runtime may end the process.                        *)
MapBeingWritten(reader) == (\E h \in Handlers : hpc[h] = "store") \/ (~reader /\ rpc = "remove")

ConcurrentMapAccess ==
  /\ ~crashed
  /\ \/ npc = "write" /\ MapBeingWritten(FALSE)
     \/ rpc = "disconnect" /\ MapBeingWritten(TRUE)
  /\ crashed' = TRUE
  /\ UNCHANGED <<clientVars, socket, epoll, mapVars, handlerVars, readerVars, notifierVars,
                 cancelled>>

JoinReader ==
  /\ ~crashed /\ npc = "join" /\ rpc = "done"
  /\ npc' = "done"
  /\ UNCHANGED <<clientVars, socket, epoll, mapVars, handlerVars, readerVars, poolsLeft,
                 pool, fdsLeft, stopVars>>

Cancel ==
  /\ ~cancelled /\ ~crashed
  /\ cancelled' = TRUE
  /\ UNCHANGED <<clientVars, socket, epoll, mapVars, handlerVars, readerVars, notifierVars,
                 crashed>>

-----------------------------------------------------------------------------
Init ==
  /\ opened = 0 /\ inbox = [c \in Conns |-> Nothing]
  /\ socket = [fd \in Fds |-> 0] /\ epoll = {}
  /\ connections = [fd \in Fds |-> 0]
  /\ pools = {} /\ assetFDs = [a \in Assets |-> {}]
  /\ hpc = [h \in Handlers |-> "idle"]
  /\ hfd = [h \in Handlers |-> AnyFd]
  /\ rpc = "top" /\ ready = {} /\ task = NoTask /\ wanted = {}
  /\ npc = "wait" /\ poolsLeft = {} /\ fdsLeft = {}
  /\ pool = AnyAsset
  /\ cancelled = FALSE /\ crashed = FALSE

HandlerStep(h) == WsHandler(h) \/ EpollAdd(h) \/ AddConnection(h)
ReaderStep ==
  WaitOnReceive \/ ReaderStops \/ NextConnection \/ ReadClientData \/ LookUpPool
    \/ StoreSubscription \/ ClearConnEntirely \/ UnsubscribeFromPools \/ DeleteSubscription
    \/ EpollDel \/ RemoveConnection
NotifierStep ==
  WaitForBlock \/ NotifyPool \/ (\E fd \in Fds : WriteTo(fd)) \/ JoinReader

Next ==
  \/ \E c \in Conns : Send(c)
  \/ \E h \in Handlers : HandlerStep(h)
  \/ ReaderStep \/ NotifierStep \/ ConcurrentMapAccess \/ Cancel

Spec == Init /\ [][Next]_vars

(* The client keeps its connection, and may or may not read from it. *)
MayNotRead(c) == inbox[c] # Closed

NotifierAtClient == npc = "write" /\ \E fd \in fdsLeft : MayNotRead(connections[fd])
ReaderAtClient == rpc = "disconnect" /\ MayNotRead(task.conn)

(* The goroutines run; nothing is assumed of the clients, not even that they *)
(* read.                                                                    *)
FairSpec ==
  /\ Spec
  /\ \A h \in Handlers : WF_vars(EpollAdd(h) \/ AddConnection(h))
  /\ WF_vars(~ReaderAtClient /\ ReaderStep)
  /\ WF_vars(~NotifierAtClient /\ NotifierStep)

-----------------------------------------------------------------------------
Tasks == [fd : Fds, conn : 0..MaxConns, todo : SUBSET Assets, asset : Assets,
          found : BOOLEAN, clearing : BOOLEAN]

TypeOK ==
  /\ opened \in 0..MaxConns /\ inbox \in [Conns -> Complete \cup {Nothing, Part}]
  /\ socket \in [Fds -> 0..MaxConns] /\ epoll \subseteq Fds
  /\ connections \in [Fds -> 0..MaxConns]
  /\ pools \subseteq Assets /\ assetFDs \in [Assets -> SUBSET Fds]
  /\ hpc \in [Handlers -> {"idle", "add", "store"}] /\ hfd \in [Handlers -> Fds]
  /\ rpc \in {"top", "each", "read", "subscribe", "store", "clear", "unsubscribe", "delete",
              "disconnect", "remove", "done"}
  /\ ready \subseteq [fd : Fds, conn : Conns]
  /\ task \in Tasks
  /\ npc \in {"wait", "pools", "write", "lock", "join", "done"}
  /\ poolsLeft \subseteq Assets /\ pool \in Assets /\ fdsLeft \subseteq Fds
  /\ npc = "write" <=> fdsLeft # {}
  /\ {cancelled, crashed} \subseteq BOOLEAN /\ wanted \subseteq Conns \X Assets

(* Whoever is written to is there and has asked for this pool, though the    *)
(* connection map is read without its lock and descriptors are used again:   *)
(* at most it is the client that is being unsubscribed at this moment.       *)
WritesToSubscriber ==
  npc = "write" =>
    \A fd \in fdsLeft :
      /\ connections[fd] # 0 /\ connections[fd] = socket[fd]
      /\ \/ <<connections[fd], pool>> \in wanted
         \/ task.fd = fd /\ rpc \in {"clear", "unsubscribe", "delete"}

(* Between two instructions the subscriptions are what the clients that are  *)
(* still connected have asked for, none lost between two locks and none left *)
(* of a connection that is gone.                                             *)
SubscriptionsMatch ==
  rpc \in {"top", "each", "done"} =>
    \A a \in Assets :
      assetFDs[a] = {fd \in OpenConnections : <<connections[fd], a>> \in wanted}

(* An open connection is in epoll and in the map, so that what it sends is   *)
(* read, unless a handler still adds it or the reader is removing it: a      *)
(* descriptor that is used again is not taken out by mistake.                *)
NoConnectionLost ==
  \A fd \in Fds : socket[fd] # 0 =>
    \/ fd \in epoll /\ connections[fd] = socket[fd]
    \/ \E h \in Handlers : hpc[h] # "idle" /\ hfd[h] = fd
    \/ rpc = "remove" /\ task.fd = fd /\ task.conn = socket[fd]

(* The message whose rest never comes. *)
WaitsForMessage == rpc = "read" /\ inbox[task.conn] = Part

(* A goroutine waits for a client, or the notifier for itself. *)
Blocked == WaitsForMessage \/ ReaderAtClient \/ NotifierAtClient \/ npc = "lock"

(* "Websockets can be stopped by canceling the context" (websockets.go:40):  *)
(* after a cancellation both goroutines end, but for these: a client keeps   *)
(* one of them waiting for ever, the notifier waits for a lock it holds     *)
(* itself, or the runtime has ended the process.                            *)
StopsUnlessBlocked == cancelled ~> (npc = "done" \/ crashed \/ []Blocked)
=============================================================================
