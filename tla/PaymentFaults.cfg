SPECIFICATION ServingSpec
CONSTANTS
  Banks <- MCBanks
  Accounts <- MCAccounts
  BankOf <- MCBankOf
  Customers <- MCCustomers
  InitialBalance <- MCBalance
  Payments <- OnePayment
  Sender <- OneSender
  Recipient <- OneRecipient
  Amount <- OneAmount
  MaxRetries = 2
  MaxAcquireAttempts = 2
  MaxBankCrashes = 2
  MaxBankRestarts = 2
  MaxTimeouts = 1
  MaxDrops = 1
  MaxExpiries = 0
  MaxGatewayDeaths = 1
  MaxGatewayRestarts = 1
CHECK_DEADLOCK FALSE
INVARIANTS TypeOK LockHeldByOneTransfer CommitFindsLock NoOrphanedLock StatusMatchesMoney BalanceIsBooked
PROPERTIES RefinesLedger
