CONSTANTS
  r1 = r1
  r2 = r2
  s1 = s1
  s2 = s2
  Requests = {r1, r2}
  Sockets = {s1}
  Ttl = 2
  Window = 2
  MaxAttempts = 2
  MaxSessions = 2
  MaxTokens = 3
  MaxTime = 4
  MaxRestarts = 1
  None = None
SPECIFICATION FairSpec
INVARIANT SessionInv
INVARIANT AttemptsBounded
PROPERTY EndedStaysEnded
PROPERTY SocketsEnd
