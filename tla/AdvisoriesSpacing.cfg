CONSTANTS
  Request = {p1, p2}
  Advisory = {1}
  CVE = {c1}
  Validity = 0
  MaxClock = 2
  MaxUpdates = 1
SPECIFICATION CacheSpec
INVARIANT UpdatesAreSpaced
