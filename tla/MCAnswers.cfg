SPECIFICATION AnswersSpec
CONSTANTS
  h1 = h1
  h2 = h2
  s1 = s1
  s2 = s2
  s3 = s3
  Machines = {h1, h2, s1, s2, s3}
  Ends = {h1, h2}
  Fabrics <- MCFabrics
  NoMachine = NoMachine
  InitialTTL = 4
  h = h
  r1 = r1
  r2 = r2
  r3 = r3
  s = s
  ah = ah
  a1 = a1
  a2 = a2
  as = as
  g = g
  Devices = {h, r1, r2, r3, s}
  Addresses = {ah, a1, a2, as, g}
  NoDevice = NoDevice
  NoAddress = NoAddress
  Networks <- MCNetworks
  Settings <- MCSettings
  ga = ga
  gb = gb
  d0 = d0
  d1 = d1
  n0 = n0
  Graphs = {ga, gb}
  Gadgets = {d0, d1}
  Notes = {n0}
  FirstDocs <- MCFirst
  Blank = Blank
  MaxCalls = 2
  MaxEdits = 2
  MaxFailures = 1
  b1 = b1
  b2 = b2
  c1 = c1
  c2 = c2
  Boxes = {b1, b2}
  Consoles = {c1, c2}
  BoxOf <- MCBoxOf
  Off = Off
  MaxLogs = 2
  MaxHistory = 1
  MaxCommands = 2
  Scenes = {"flood", "path", "screen", "terminals"}
INVARIANTS PlainPingIsConnectivity SameVlanIsJoined PathIsLinked NoneMeansNone PathIsShortest WallsHold TranslatedArrives ScreenAgrees HistoryKept
PROPERTIES FloodsEnd
CHECK_DEADLOCK FALSE
