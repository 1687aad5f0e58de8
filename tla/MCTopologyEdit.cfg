SPECIFICATION ScenesSpec
CONSTANTS
  pc = pc
  hub = hub
  a = a
  b = b
  e0 = e0
  e1 = e1
  l1 = l1
  l2 = l2
  Requests = {r1, r2}
  Devices = {a, b}
  Kinds = {pc, hub}
  Terminals = {pc}
  Ports = {e0, e1}
  Ethernet0 = e0
  Defaults <- MCDefaults
  Connectable <- MCConnectable
  LinkIds = {l1, l2}
  SentDevices <- MCSentDevices
  SentLinks <- MCSentLinks
  SentDocs <- MCSentDocs
  NoDevice = NoDevice
  NoDoc = NoDoc
  Idle = Idle
  Scenes = {"requests", "manager", "watchers", "build"}
  Watchers = {w1, w2}
  MaxChanges = 5
  MaxPlaces = 2
  Cancelled = cancelled
  R1 = R1
  R2 = R2
  H1 = H1
  H2 = H2
  S1 = S1
  RouterNodes = {R1, R2}
  HostNodes = {H1, H2}
  OtherNodes = {S1}
  NodePorts <- MCNodePorts
  DrawnLinks <- MCDrawnLinks
  MaxDrawn = 3
  FirstSubnet = 2
  LastOctet = 5
SYMMETRY Permuted
INVARIANTS
  LinksAnchored
  PortsExclusive
  TopologiesSound
