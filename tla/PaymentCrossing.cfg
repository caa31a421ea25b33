SPECIFICATION FairServingSpec
CONSTANTS
  Banks <- MCBanks
  Accounts <- MCAccounts
  BankOf <- MCBankOf
  Customers <- MCCustomers
  InitialBalance <- MCBalance
  Payments <- TwoPayments
  Sender <- CrossSender
  Recipient <- CrossRecipient
  Amount <- CrossAmount
  MaxRetries = 1
  MaxAcquireAttempts = 2
  MaxBankCrashes = 0
  MaxBankRestarts = 0
  MaxTimeouts = 0
  MaxDrops = 0
  MaxExpiries = 0
  MaxGatewayDeaths = 0
  MaxGatewayRestarts = 0
CHECK_DEADLOCK FALSE
PROPERTIES LocksReleased ClientAnswered
