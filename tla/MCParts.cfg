SPECIFICATION PartsSpec
CONSTANTS
  ram = ram
  regs = regs
  rom = rom
  wide = wide
  Streams <- MCStreams
  Base <- MCBase
  Size <- MCSize
  Writable <- MCWritable
  Requests <- MCRequests
  HashOf <- MCHashOf
  CACHE_MAX = 1
  AddressSpace = 24
  Instructions <- FlowInstructions
  SlotInstructions <- MCNopSlot
  BootAddresses <- MCBoot
  WrittenStatus <- NoStatus
  WrittenAddresses <- NoAddress
  DeviceInterrupts = FALSE
  Vector = 12
  ResetEPC = 23
  RegionSize = 4
  Regions = {0, 1, 2, 3}
  Segments = {0, 2}
  Handlers = {"rdram", "rdramFB"}
  BaseMap <- MCBaseMap
  Rdram = "rdram"
  RdramFB = "rdramFB"
  NULL = "null"
  Checked = "checked"
  MaxBreakpoints = 2
  Breakpoints <- MCBreakpoints
  InfosCount = 2
  Spans <- MCSpans
  engine = engine
  ui = ui
  finalizer = finalizer
  Clients = {engine, ui, finalizer}
  Scripts <- MCScripts
  Failures = {"gfx", "audio"}
  Builds = {"reread", "hoisted"}
INVARIANTS
  CodeResolves CacheBounded InterpretedIsFlat DivergenceExplained
  TypeOK PendingBranch
  WatchedRegionsChecked HandlersKept
  RunOwnsCore ReportedTruth LastCommandHolds
CONSTRAINT MCApart
PROPERTIES ImplementsFlow StopEndsRun
