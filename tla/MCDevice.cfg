SPECIFICATION DeviceSpec
CONSTANTS
  Scenes = {"aggregation", "aaa", "gre", "relay", "ipv6", "vrrp", "igp", "bgp", "evpn", "security", "vlans", "tree", "quality", "host", "acl", "services"}
  MaxLag = 4
  MaxAaa = 5
  MaxVrrp = 3
  MaxIgp = 4
  MaxSecurity = 11
  MaxStp = 4
  MaxAcl = 5
  MaxSvc = 2
  Ports = {1, 2, 3}
  Trunks = {1, 2}
  Rank <- RankOf
  Priorities = {1, 32768}
  PortPriority = 32768
  LinkNumbers = {1, 2}
  MaxMembers = 2
  Nobody = nobody
  Users = {u1, u2}
  Schemes = {s1, s2}
  Domains = {d1, d2}
  NoScheme = none
  Unset = unset
  L3Ports = {e1}
  Tunnels = {tun}
  TunnelIPs = {ip1, ip2}
  Servers = {srv1, srv2, srv3}
  MaxRelayServerIPs = 2
  Pids = {1}
  Prefixes = {px}
  NextHops = {nh1, nh2}
  Subnets = {net1, net2}
  Vrids = {1}
  VrrpPriorities = {1, 100, 254}
  Reductions = {10, 255}
  Unconfigured = unconfigured
  RtPids = {1}
  Areas = {0, 1}
  Levels = {level1, level2}
  DefaultLevel = level2
  Protocols = {direct}
  ASes = {1, 2}
  Peers = {peer1}
  Instances = {i1}
  BDs = {10, 20}
  Targets = {rt1}
  Gateways = {gw}
  Policies <- PolicyNodes
  Clauses = {clause}
  Filtered = {"ospf", "isis", "bgp"}
  Absent = absent
  SwPorts = {1, 2, 3}
  Order <- OrderOf
  Macs = {m1, m2}
  MaxMacs = {1, 2}
  Vlans = {1, 2}
  DefaultVlan = 1
  NoVlan = novlan
  Msts = {1}
  StpPriorities = {0, 4096, 32768}
  StpCosts = {20000, 100000}
  QDevices = {A, B}
  QPorts = {p}
  Wires <- OneWire
  Qualities = {"delay"}
  Values = {1}
  NoSetting = nosetting
  HostIPs = {h1, h2}
  Resolvers = {dns1}
  Routers = {gw1}
  Masks = {16, 24, 30}
  PlainMasks = {16, 24}
  UsualMask = 24
  Generated = generated
  Nil = nil
  AclNames = {2000, 2001}
  AddressBits = 3
  SrcAddresses = {1, anyaddress}
  NoAddress = anyaddress
  Wildcards = {1, 2}
  NoWildcard = nowildcard
  RuleIds = {5}
  MaxRules = 2
  Pools = {1}
  Closed = closed
  SvcPorts = {eth1}
  SvcServers = {host1}
  PoolNames = {pool1}
  Groups = {1}
  Vnis = {100}
  GapNumbers = {gap1}
  NoService = noservice
INVARIANTS
  TrunksCoherent
  AaaReferencesResolve
  InterfacesCoherent
  RoutingCoherent
  SwitchCoherent
  QualityAgrees
  ServicesCoherent
