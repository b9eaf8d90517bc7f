SPECIFICATION Spec
CONSTANTS
  p1 = p1
  p2 = p2
  Peers <- MCPeers
  MaxPeers = 2
  INITIAL_SEARCH_DELAY = 5
  MAX_TIME_BETWEEN_PEER_SEARCHES = 8
  MaxConnections = 2
  MaxMessages = 2
  MaxNotices = 1
INVARIANTS
  PeersNoted
  
PROPERTIES
  SearchGoesOn
