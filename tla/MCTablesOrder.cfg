CONSTANTS
  Focus = {"order"}
  p = p
  q = q
  v1 = v1
  v2 = v2
  v3 = v3
  o1 = o1
  o2 = o2
  h1 = h1
  h2 = h2
  x = x
  y = y
  m1 = m1
  m2 = m2
  pa = pa
  pb = pb
  pc = pc
  pd = pd
  r1 = r1
  Versions = {v1, v2, v3}
  Unprefixed = {v3}
  Keeps = {0, 1, 2}
  NoVersion = NoVersion
  MaxUpdates = 4
  Loggers = {p, q}
  RotateFiles = 2
  RotateLines = 1
  MaxDay = 2
  MaxLines = 4
  NoFile = NoFile
  Users = {p, q}
  Latest = 4
  Directories <- MCDirectories
  Alter = {3}
  Altered <- MCAltered
  TokenColumn = 3
  AutoCommit = {2, 4}
  MaxStarts = 5
  MaxMishaps = 3
  Nobody = Nobody
  Objects = {o1, o2}
  Kind <- MCKind
  MaxNow = 3
  Clients = {r1}
  Hosts = {h1, h2}
  Things = {x, y}
  Table <- MCTable
  MaxIds = 2
  Unset = Unset
  Creators = {r1}
  Machines = {m1, m2}
  Paths = {pa}
  PathLists <- MCPathLists
  Services <- MCServices
  OnDisk <- MCOnDisk
  Absent = Absent
  MaxStacks = 2
  Units <- MCServices
  Types = {NoRow, "depends_on", "shared_network"}
  NoRow = NoRow
SPECIFICATION TablesSpec
INVARIANT StartsDependenciesFirst
CHECK_DEADLOCK FALSE
