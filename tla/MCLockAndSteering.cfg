SPECIFICATION SideBySide
CONSTANTS
  a1 = a1  a2 = a2  b1 = b1  n1 = n1
  AgentA = AgentA
  AgentB = AgentB
  NoOwner = NoOwner
  Calls <- MCCalls
  OwnerOf <- MCOwnerOf
  Adjustments = {a1, a2}
  Peers = {p1, p2}
  WithImages = {a1, a2}
  MaxTurnImages = 1
  PerBoundary = 2
  MaxCalls = 2
  MaxTurns = 3
  MaxCrashes = 1
  Mixes = {{a1, a2, p1}, {a1, p1, p2}}
INVARIANTS NoDeafAttempt ConversationKeepsUp
PROPERTIES WaitingIsServed ImplementsExclusion
  ProtocolClosed DeliversInOrder PeerMessageIsDelivered
CHECK_DEADLOCK FALSE
