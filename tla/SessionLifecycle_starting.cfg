\* A session that ends while the next one starts.
SPECIFICATION Spec
CONSTANTS
  Sessions = {s1, s2}
  NoSession = NoSession
PROPERTY StartKeepsService
CHECK_DEADLOCK FALSE
