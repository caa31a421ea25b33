SPECIFICATION FairServingSession
CONSTANTS
  Banks <- MCBanks
  Accounts <- MCCustomers
  BankOf <- MCBankOf
  Customers <- MCCustomers
  InitialBalance <- MCBalance
  Payments <- OnePayment
  Sender <- OneSender
  Recipient <- OneRecipient
  Amount <- OneAmount
  MaxRetries = 2
  MaxAcquireAttempts = 2
  MaxBankCrashes = 0
  MaxBankRestarts = 0
  MaxTimeouts = 0
  MaxDrops = 0
  MaxExpiries = 1
  MaxGatewayDeaths = 0
  MaxGatewayRestarts = 0
  Enquiries <- OneEnquiry
  MaxOffline = 1
  MaxLoginAttempts = 1
CHECK_DEADLOCK FALSE
INVARIANTS SessionTypeOK ShownAfterPaid
PROPERTIES EnteredIsAnswered SuccessMeansPaid
