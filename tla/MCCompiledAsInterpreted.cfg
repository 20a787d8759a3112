SPECIFICATION StreamSpec
CONSTANTS
  ram = ram
  regs = regs
  rom = rom
  wide = wide
  Streams <- MCStreams
  Base <- MCBase
  Size <- MCSize
  Writable <- MCWritable
  Requests <- MCRequests
  HashOf <- MCHashOf
  CACHE_MAX = 1
INVARIANT CompiledAsInterpreted
