SPECIFICATION CP0Spec
CONSTANTS
  NumEntries = 4
  RandomReset = 2
  VPN2s <- OnePage
  PageData <- Pages
  IndexValues <- Indexes
  WiredValues <- WiredSettings
  NoEntry = NoEntry
  EntryLos <- MCEntryLos
  AddressSpace = 16
  Instructions <- SystemInstructions
  SlotInstructions <- SystemSlots
  BootAddresses <- MCReset
  WrittenStatus <- MCStatus
  WrittenAddresses <- MCAddresses
  DeviceInterrupts = TRUE
  Vector = 12
  ResetEPC = 15
INVARIANTS
  TLBTypeOK TableIndexed DuplicatesNoticed RefillJustified ProbeMissSound
  OnlyWideIndexLeavesTable MappedUntilReplaced
  EntryLoReadBack
PROPERTIES WiredKept HandlerKeepsEPC
