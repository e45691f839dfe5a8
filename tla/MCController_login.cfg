SPECIFICATION FairSpec
CONSTANTS
  None = None
  alice = alice
  bob = bob
  carol = carol
  Browsers = {b1}
  People <- MCPeople
  Names <- MCNames
  Account <- MCAccount
  Claims <- MCClaims
  Barred = {"c|arol"}
  KeyHolders = {bob}
  Life = 2
  TokenLife = 1
  MaxTime = 3
  MaxBoots = 2
  Given <- MCGiven
ACTION_CONSTRAINT Narrow
INVARIANTS
  TypeOK
  ServedByRecentLogin
  RedirectsLead
PROPERTIES
  LoginLasts
  LoginGetsIn
CHECK_DEADLOCK FALSE
