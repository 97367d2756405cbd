SPECIFICATION SettlementSpec
CONSTANTS
  None = None
  Hashes = {h1, h2, h3}
  SeedBalance <- MCSeedBalance
  Instructions <- MCInstructions
INVARIANTS
  SettlementTypeOK
  SettlementInv
  LedgerIndexed
  NoOverdraft
  LedgerExplainsBalances
  ThrowsForAReason
  MoneyIsConserved
PROPERTIES
  ImplementsLedger
