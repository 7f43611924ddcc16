SPECIFICATION MCSpec
CONSTANTS
  NULL = NULL
  HEAP_SIZE = 320
  WORD = 8
  HEADER = 24
  MANAGER = 16
  MIN_BLOCK_SIZE = 124
  SizeMod = 384
  Requests = {0, 20, 104, 375}
  Packages <- MCPackages
  Builds = {"list", "buddy", "either"}
  BUFFER_SIZE = 2
  KERNEL = 8
  uCodeModuleAddress = 112
  uDataModuleAddress = 128
  PageSize = 8
  MEMORY = 152
  TOP = 2
  BLOCK_SIZE = 2
  INFO = 5
  MaxArgs = 4
  MaxCreated = 3
  PoolRequests = {0, 2, 3, 7, 9}
INVARIANTS HeapWellFormed StartsInPlace PoolIsTiled StatusIsExact ProcessesGiveBack
PROPERTY MallocKeepsPromise
