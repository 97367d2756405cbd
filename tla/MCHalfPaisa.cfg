SPECIFICATION SettlementSpec
CONSTANTS
  None = None
  Hashes = {h1, h2, h3}
  SeedBalance <- MCSeedBalance
  Instructions <- MCHalfPaisa
INVARIANTS
  MoneyIsConserved
