CONSTANTS
  Handlers = {h1, h2}
  Orgs = {"o1", "o2"}
  Logins = {"u1", "u2"}
  Fields = {"name", "times"}
  Values = {0, 1}
  Registrations = {"reg1", "reg2"}
  Updates = {"upd1", "upd2"}
  Ticketed = {"upd1"}
  Wanted <- MCWanted
  FirstOrgs = {"o1"}
  FirstUsers <- MCFirstUsers
  Request = {p1, p2}
  Advisory = {1, 2, 3}
  c1 = c1
  CVE <- OneCVE
  Validity = 0
  MaxClock = 2
  MaxUpdates = 4
  u1 = u1
  u2 = u2
  User = {u1, u2}
  Window = 1
  Drift = 1
  Margin = 4
  MaxAge <- MCMaxAge
  Turbulence = 4
  MaxTokens = 3
  Instant = {0, 4, 8}
  TimeStep = {1, 4, 8}
  MaxActs = 1
SPECIFICATION MCSpec
SYMMETRY Symmetry
CHECK_DEADLOCK FALSE
INVARIANTS
  ConstraintIsNotNeeded
  MailsAndTicketsAreTrue
  CachedIsTrue
  CodesAreUsedOnce
  EarlierAreVoid
PROPERTIES
  ImplementsRegister
  UpdateTakesEffect
