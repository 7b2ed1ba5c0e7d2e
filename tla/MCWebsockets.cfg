SPECIFICATION FairSpec
CONSTANTS
  Assets = {a, b, x}
  LatestPools = {a, b}
  Requests = {{a, b}, {x}}
  Fds = {f1, f2}
  Handlers = {h1}
  ConnLimit = 2
  MaxConns = 2
INVARIANTS
  TypeOK
  WritesToSubscriber
  SubscriptionsMatch
  NoConnectionLost
PROPERTIES
  StopsUnlessBlocked
\* Clients stop connecting, a goroutine may wait for itself, the process may end.
CHECK_DEADLOCK FALSE
