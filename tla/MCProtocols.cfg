SPECIFICATION ProtocolsSpec
CONSTANTS
  Scenes = {"stp", "ospf", "bgp", "icmp", "router", "dhcp", "nat", "arp", "tcp", "server", "dns", "vxlan",
            "limits", "notes", "rebuilds", "records", "events", "frr"}
  StpIfs = {"i1", "i2"}
  IfCosts = {1, 3}
  Bridges = {1, 2, 3}
  Me = 3
  RootCosts = {0, 2}
  MaxMovers = 2
  MaxBpdus = 3
  Routers = {1, 2, 3}
  MaxReadds = 1
  Nbrs = {n1, n2}
  Announced = {x1}
  MaxAdds = 4
  MaxRoutes = 2
  Callers = {c1, c2}
  PingCount = 2
  MaxEchoes = 4
  Clients = {c1, c2}
  Settings = {"s1"}
  Entries = {e1, e2}
  Features = {"ospf", "snmp", "syslog", "ssh", "radius", "netflow", "bgp", "ntp", "vxlan",
              "bfd", "pbr", "gre", "qos", "dot1x", "stp", "vrrp", "ipsec", "mlag",
              "routes", "lldp", "vrf", "table", "acl"}
  MaxGens = 2
  MaxCalls = 3
  OctetBits = 2
  Hosts = {0, 6}
  Metrics = {1, 2}
  MaxRules = 2
  Macs = {m1, m2}
  TopAddress = 3
  Ranges <- TwoRanges
  MaxRequests = 3
  FirstPort = 5
  LastPort = 6
  MaxPort = 8
  Senders = {c1, c2}
  Ips = {i1, i2}
  Nodes = {h1, h2}
  PortBase = 1
  PortSpan = 3
  Remotes = {"r1", "r2"}
  FtpClients = {f1, f2, f3}
  MaxFtp = 2
  Names = {"w", "x"}
  Veps = {v1, v2}
  n1 = n1
  n2 = n2
  as100 = as100
  as65000 = as65000
  Clock = 2
  ClientAddrs = {1, 2}
  Limit = 2
  Window = 1
  SweepEvery = 3
  Threads = {p1, p2}
  Depths = {1, 2, 3}
  Span = 1
  MaxRebuilds = 3
  MaxRecords = 2
  MaxAdded = 4
  QueueSize = 2
  MaxKept = 3
  MaxEvents = 4
  Viewers = {v1, v2}
  Frrs = {r1, r2}
  OspfLines = {o1}
  AnAs = as65000
  BgpRequests <- SomeRequests
  Within <- PartOf
  MaxApplies = 2
  MaxFaults = 1
INVARIANTS
  TimersSound
  RoutersSound
  WatchSound
  BackendSound
  TablesSound
PROPERTIES
  TimersSettle
