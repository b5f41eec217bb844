SPECIFICATION LedgerSpec
CONSTANTS
  counter = counter
  workroom = workroom
  Requests = {counter, workroom}
  MaxMoney = 2
SYMMETRY Alike
INVARIANTS
  NoMoneyUnledgered
  
