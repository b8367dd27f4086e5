SPECIFICATION Spec
CONSTANTS
  MaxAttempts = 1
  MaxChanges = 0
  MaxFaults = 1
INVARIANT OidcOutageNotPaged
