SPECIFICATION FairSpec
CONSTANTS
  listing = listing
  page = page
  Keys = {listing, page}
  Listings = {listing}
  Handlers = {h1, h2}
  Lifetime <- MCLifetime
  MaxVersion = 1
  MaxFaults = 2
  None = None
INVARIANT TypeOK
PROPERTIES
  CacheSpec
  CatchesUp
