CONSTANTS
  Keys = {path, secret}
  Resource = path
  Credential = secret
SPECIFICATION StartupSpec
INVARIANTS Precedence SecretsFetched ServesEquipped ServesAuthenticated
CHECK_DEADLOCK FALSE
