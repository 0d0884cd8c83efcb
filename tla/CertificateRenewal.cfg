\* One handshake at a time, and one renewal.
SPECIFICATION FairCertSpec
CONSTANTS
  ReloadInterval = 3
  MaxDelay = 1
  Handshakes = {"h"}
  First = "h"
  MaxRenewals = 1
PROPERTY RenewalIsServed
