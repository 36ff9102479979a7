CONSTANTS
  u1 = u1
  u2 = u2
  None = None
  Caller = {u1, u2}
  Lifetimes = {3, 6}
  Timeout = 1
  SafetyMargin = 2
  MaxTime = 8
  s1 = s1
  s2 = s2
  a = a
  b = b
  NoUser = NoUser
  Nothing = Nothing
  Sender = {s1, s2}
  UsersOf <- MCUsersOf
  Window = 1
  TopChains = 10
  LastSecond = 2
  MaxEvents = 4
SPECIFICATION ServicesSpec
CHECK_DEADLOCK FALSE
INVARIANTS
  NoDuplicateRequest
