\* Two calls over two accounts: one flight shared, two flights one after the
\* other with either call asleep in between, or a flight of each account;
\* one restart at any point.
CONSTANTS
  Accounts = {a1, a2}
  Calls = {r1, r2}
  MaxRestarts = 1
  None = None
SPECIFICATION Spec
\* Every call may have been made, every account revoked: nothing is left to do.
CHECK_DEADLOCK FALSE
INVARIANTS
  OneFlightPerAccount
  ActiveWithOwnTokens
  RefreshNeverRegresses
  RefreshableAgain
PROPERTIES
  CallsReturn
