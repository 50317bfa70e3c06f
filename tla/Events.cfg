SPECIFICATION MCSpec
CONSTANTS
  orgA = orgA
  orgB = orgB
  Orgs <- MCOrgs
  AuthDatas <- MCAuthDatas
  Events <- MCEvents
  FqdnOnlyCategories = {3}
  IgnoredIPs = {3}
  MaxIP = 4
  Contents <- MCContents
  Requests <- MCRequests
  DayStep = 2
  MinReserve = 1
INVARIANTS
  PassesAreSound
  AccessAgrees
  ResultsAreRight
