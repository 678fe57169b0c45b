CONSTANTS
  Clients = {c1}
  Deliveries = {d1}
  Functions = {f1, f2}
  Called = f1
  Other = f2
  Topics = {t1, t2}
  Messages = {m1}
  Words <- MCWords
  Tokens <- MCTokens
  ClientRequests <- MCClientRequests
  Subscribers = {f1}
  MaxDeploys = 2
  MixedTraffic = FALSE
  None = None
SPECIFICATION FairSpec
CHECK_DEADLOCK FALSE
INVARIANTS TypeOK ExchangesIntact AckedIsHandled
PROPERTY MessagesGetThrough
