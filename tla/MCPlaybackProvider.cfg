SPECIFICATION FairSpec
CONSTANTS
  a = a
  b = b
  c = c
  NoUrl = NoUrl
  Torn = Torn
  NoPipe = NoPipe
  Unknown = Unknown
  Providers <- Names
  MaxResults = 2
  Urls <- CloudTracks
  ProviderOf <- AllSoundcloud
  ResultLists <- CloudLists
  SetProviders <- NoProviders
  MaxCmds = 2
PROPERTIES
  LoadingSettles
