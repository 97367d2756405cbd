SPECIFICATION CryptoSpec
CONSTANTS
  None = None
  pay = pay
  noJson = noJson
  canonical = canonical
  wrapped = wrapped
  Keys = {1, 2}
  Plaintexts = {pay, noJson}
  Sessions = {1, 2}
  Spellings = {canonical, wrapped}
  Canonical = canonical
  Size <- MCSize
  Parsed <- MCParsed
  RSA_ENCRYPTED_KEY_BYTES = 2
  GCM_IV_BYTES = 1
  GCM_TAG_BYTES = 2
  MaxDamage = 2
INVARIANTS
  WholePackageOpens
  OnlyWholePackagesOpen
CHECK_DEADLOCK FALSE
