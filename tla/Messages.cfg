SPECIFICATION FairSpec
CONSTANTS
  request = request
  cron1 = cron1
  cron2 = cron2
  clerk1 = clerk1
  clerk2 = clerk2
  null = null
  Request = request
  Crons = {cron1, cron2}
  Clickers = {clerk1, clerk2}
  MaxAttempts = 3
  RetryAfter <- TwoWaits
  Lease = 5
  StaleAfter = 10
  MaxSend = 4
  MaxRetries = 2
  Never = null
INVARIANTS
  OneTryAtATime
PROPERTIES
  DeliversAsPromised
  EventuallyAnswered
