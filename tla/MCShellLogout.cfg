SPECIFICATION SessionSpec
CONSTANTS
  UserNames = {"ana"}
  Passwords = {"p", "q"}
  MaxUsers = 3
  MaxShells = 3
  MaxBoots = 1
INVARIANT LogoutReturns
CHECK_DEADLOCK FALSE
