SPECIFICATION FairSpec
CONSTANTS
  h1 = h1
  h2 = h2
  h3 = h3
  l1 = l1
  l2 = l2
  hot = hot
  pop = pop
  pl = pl
  local = local
  None = None
  Tracks = {h1, h2, h3, l1, l2}
  Keywords = {hot, pop}
  Hot = hot
  Playlists = {pl}
  Local = local
  Catalog <- MCCatalog
  PageSize = 2
  Extensible = {0, 2}
INVARIANTS
  PublishedUnlessFailed
PROPERTIES
  AnnouncedIsRequested
  NextIsSuccessor
  EndGoesOn
