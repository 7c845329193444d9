SPECIFICATION AccessSpec
CONSTANTS
  None = None
  u1 = u1
  u2 = u2
  f1 = f1
  f2 = f2
  Users = {u1, u2}
  Owners = {u1}
  Latecomers = {u2}
  HomeOf <- Home
  Folders = {f1, f2}
  MaxQuota = 1
  MaxRequests = 2
  MaxMishaps = 1
  MaxWaiting = 1
  Accounts = {a1, a2}
  Sessions = {s1, s2}
  Names = {n1, n2}
  Clients = {c1, c2}
  Nobody = Nobody
  MaxPasswords = 4
  MaxOrders = 6
  MaxFailures = 1
INVARIANTS SharesAreRight 
PROPERTIES FoldersAreKept AdministratorsDecide LoginsAreSound
CHECK_DEADLOCK FALSE
