SPECIFICATION PartsSpec
CONSTANTS
  p1 = p1  p2 = p2  h1 = h1  h2 = h2
  Hashes = {h1, h2}
  Users = {p1, p2}
  Maker <- MCMaker
  Tokens = {"STX", "USDA"}
  NoSwap = NoSwap
  MaxAmount = 2
  MaxClock = 0
  Players = {p1, p2}
  Prices = {0, 1, 2}
  MaxLobbies = 2
  Purse = 3
  MaxPaid = 2
  MaxChannels = 2
  MaxRetry = 1
  MaxCrash = 1
  Timely = TRUE
  MaxFail = 1
  MaxBlocks = 3
  MaxLost = 1
  MaxRestart = 1
INVARIANTS PartsTypeOK Solvent EntriesPaidFor SecondChannelOnlyByRace ExpiredPaidOnlyAtStart
INVARIANTS StartFailsOnlyByRace ClaimedInTimePaid OursComesBack EveryHeightOnce ConfirmationSeen
PROPERTIES PaysOutEntries KeepsHashLock
CHECK_DEADLOCK FALSE
