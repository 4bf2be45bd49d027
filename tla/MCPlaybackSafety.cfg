SPECIFICATION FairSpec
CONSTANTS
  a = a
  b = b
  c = c
  NoUrl = NoUrl
  Torn = Torn
  NoPipe = NoPipe
  Unknown = Unknown
  Providers <- Names
  MaxResults = 2
  Urls <- Tracks
  ProviderOf <- Sites
  ResultLists <- SomeLists
  SetProviders <- SomeProviders
  MaxCmds = 4
INVARIANTS
  TypeOK
  MediaIsOfTrack
  PrefetchIsKeyed
  FlagsCountThreads
  StoppedIsQuiet
  DownloadIsOneTrack
  OffsetIsOfTrack
PROPERTIES
  AgreedSettles
  ImplementsPlayer
