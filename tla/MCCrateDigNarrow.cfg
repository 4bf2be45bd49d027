SPECIFICATION FairSpec
CONSTANTS
  r1 = r1
  r2 = r2
  r3 = r3
  r4 = r4
  wide = wide
  narrow = narrow
  nothing = nothing
  NoPool = NoPool
  Releases <- AllReleases
  Filters <- AllFilters
  NoFilter = wide
  Pages <- Catalogue
  MaxPool = 4
  MaxCount = 2
  MaxPageFetches = 2
  MaxTries = 3
  LookupsPerItem = 2
  MAX_EXCLUDE_IDS = 2
  Asked <- Counts
  MaxSearches = 3
PROPERTIES
  SearchEnds
