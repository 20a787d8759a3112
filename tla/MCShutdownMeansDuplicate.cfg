CONSTANTS
  NumEntries = 4
  RandomReset = 2
  VPN2s <- OnePage
  PageData <- Pages
  IndexValues <- Indexes
  WiredValues <- WiredSettings
  NoEntry = NoEntry
SPECIFICATION TLBSpec
INVARIANTS ShutdownMeansDuplicate
