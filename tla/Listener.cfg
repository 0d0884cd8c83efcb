\* Rotations and renewals at every moment of two concurrent requests or of two
\* concurrent handshakes.  An interval of 3 units, of which one takes at most 1.
SPECIFICATION FairSpec
CONSTANTS
  ReloadInterval = 3
  MaxDelay = 1
  Requests = {"prometheus", "other"}
  Scraper = "prometheus"
  MaxRotations = 2
  Handshakes = {"h1", "h2"}
  First = "h1"
  MaxRenewals = 2
  Configurations = {{"basic"}, {"tls"}}
INVARIANTS
  TypeOK
  OneReloadAtATime
  ReloadOnlyForMismatch
  StampTellsPair
PROPERTIES
  PasswordNeverOlder
  ScraperReturns
  StampCatchesUp
