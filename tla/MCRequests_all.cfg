CONSTANTS
  h1 = h1
  h2 = h2
  c1 = c1
  a1 = a1
  Handlers = {h1, h2}
  Clients = {c1}
  Addresses = {a1}
  RateKeys = {c1}
  Limit = 1
  Window = 2
  RefreshTTL = 2
  AccessTTL = 2
  MaxLogins = 2
  MaxTokens = 3
  Sources = {"s1"}
  Flags = {"saved"}
  CacheTTL = 1
  Letters = {"d1"}
  MaxReplays = 2
  Articles = {"x1", "x2"}
  ApiKeys = {"k1"}
  MaxCalls = 1
SYMMETRY HandlerSymmetry
SPECIFICATION RequestsSpec
INVARIANT RequestsTypeOK
INVARIANT OneTokenPerSession
INVARIANT LogoutEndsSession
INVARIANT BurstBound
INVARIANT StaleIsPending
INVARIANT ReplaysAreWritten
INVARIANT NothingComesBack
INVARIANT RefusalsEnd
