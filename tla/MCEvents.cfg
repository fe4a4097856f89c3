\* Two events, two clients, and a restart of the server.
SPECIFICATION FairSpec
CONSTANTS
  NumTopics = 2
  Publishers = {p1}
  Clients = {c1, c2}
  MaxStarts = 2
  MaxEvents = 2
  None = None
INVARIANTS
  WsTypeOK
  SubscribedWhileServing
  ConnectedIsRegistered
PROPERTIES
  ImplementsChannel
  NobodyIsSkipped
  SendingEnds
  StopEndsServer
\* The events and the starts are bounded.
CHECK_DEADLOCK FALSE
