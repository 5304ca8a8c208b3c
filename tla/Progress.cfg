SPECIFICATION ProgressSpec
CONSTANTS
  Devices = {a, b}
  Conns = {k1, k2, k3}
  None = None
  MaxDevices = 1
  MaxBreaks = 1
  Keys = {"k1", "k2"}
  Clients = {"r1", "r2"}
  Calls = {"l1"}
  NoClient = NoClient
  Damaged = Damaged
  MaxChanges = 1
  Arrivals = {"c1", "c2"}
  Ids = {"i1", "i2"}
  Wants <- Clientele
  NoOffer = NoOffer
INVARIANT TypesOK
INVARIANT GroupIsLive
INVARIANT OnlineIsReachable
INVARIANT RelayFollowsPairing
INVARIANT NothingUnasked
PROPERTY MembershipSettles
PROPERTY StoppedClientsEnd
PROPERTY BestRouteWins
PROPERTY PresenceSettles
PROPERTY HandlersEnd
PROPERTY LimitsHold
CHECK_DEADLOCK FALSE
