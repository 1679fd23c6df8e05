SPECIFICATION BootSpec
CONSTANTS
  PAGE = 3
  MaxFile = 6
  MaxBss = 6
  Junk = Junk
  RamSizes = {19, 31}
  Firmware = {0, 7}
  IoApic = 20
  MMIO_END = 22
  HUGE = 4
  ConfFiles <- MCConfFiles
  Listings <- MCListings
  MAX_APPS = 2
  MAX_REGIONS = 8
  STACK_MAX_PAGES = 4
  KSTACK_DEF_PAGE = 3
  USER_HEAP_PAGE = 3
INVARIANT ImageLoaded
INVARIANT RangesUnmappable
INVARIANT OneUnreturned
INVARIANT UsableUnused
INVARIANT NothingLost
INVARIANT WindowCovers
INVARIANT StackReady
