---------------------------- MODULE ProtocolTables ----------------------------
(***************************************************************************)
(* The protocol simulators that keep tables (internal/protocol): leases,   *)
(* translations, ARP entries, connections, servers, records, tunnels.      *)
(* Each has a lock, which a handler holds from its first line to its last  *)
(* unless it is in steps here.                                             *)
(***************************************************************************)
EXTENDS Integers, FiniteSets, FiniteSetsExt

CONSTANTS
  Macs,                    \* DHCP clients
  TopAddress, Ranges,      \* addresses are 0..TopAddress, their 32 bits; pools' first and last
  MaxRequests,             \* bound on requests counted
  FirstPort, LastPort,     \* of the PAT rule
  MaxPort,                 \* bound on how far translations that overlap push CurrentPort
  Senders,                 \* goroutines that translate, and that telnet
  Ips, Nodes,              \* ARP: addresses, and the hosts that answer for them
  PortBase, PortSpan,      \* 1024 and 64511
  Remotes,                 \* where a telnet goes
  FtpClients, MaxFtp,      \* FTP clients and the limit of a server
  Names,                   \* DNS names
  Veps                     \* VTEP addresses

ASSUME TablesAssumption ==
  /\ TopAddress \in Nat /\ Ranges \subseteq {r \in (0..TopAddress) \X (0..TopAddress) : r[1] <= r[2]}
  /\ {FirstPort, LastPort, MaxPort, PortBase, MaxRequests, MaxFtp} \subseteq Nat /\ FirstPort <= LastPort
  /\ PortSpan \in Nat \ {0} /\ "none" \notin Macs /\ "idle" \notin Remotes

VARIABLES
  pool,      \* DHCP: the pool, or NoPool; offered counts the leases it has made
  dhcpOn, requests, acks, nacks, renewals,
  natPort,   \* CurrentPort of the PAT rule
  xlate,     \* sender -> where its translation is, what it has loaded, whether another overlapped
  given,     \* the port it was given
  static, dynamic, arpAsked,   \* ARP: tables, and requests that were learned from and not answered
  conns, dialing, listening, closedSome, refused,  \* TCP
  udpServer, udpStats,         \* UDP: packets received, -1 without a server
  ftp, attached, ftpAgain,     \* FTP: the server, its clients, and whether it was started over them
  http,                        \* HTTP: requests and responses of the server, or NoHttp
  records, queries, answers, errors, \* DNS
  vtep, tunnels, vtepMoved, vsis     \* VXLAN

dhcpVars == <<pool, dhcpOn, requests, acks, nacks, renewals>>
natVars  == <<natPort, xlate, given>>
arpVars  == <<static, dynamic, arpAsked>>
tcpVars  == <<conns, dialing, listening, closedSome, refused>>
netVars  == <<udpServer, udpStats, ftp, attached, ftpAgain, http>>
dnsVars == <<records, queries, answers, errors>>
vxlanVars == <<vtep, tunnels, vtepMoved, vsis>>
tableVars == <<dhcpVars, natVars, arpVars, tcpVars, netVars, dnsVars, vxlanVars>>

NoPool  == [range |-> <<0, 0>>, excluded |-> {}, lease |-> <<>>, there |-> FALSE, offered |-> 0]
Free    == [mac |-> "none", active |-> FALSE]
NoMac   == "none"
NoArp   == [mac |-> NoMac, iface |-> FALSE, fresh |-> FALSE]
Idle    == [pc |-> "idle", port |-> 0, raced |-> FALSE]
NoFtp   == [there |-> FALSE, count |-> 0]
NoHttp  == [there |-> FALSE, requests |-> 0, responses |-> 0]
NoVtep  == "none"

TablesInit ==
  /\ pool = NoPool /\ dhcpOn = FALSE
  /\ requests = 0 /\ acks = 0 /\ nacks = 0 /\ renewals = 0
  /\ natPort = FirstPort /\ xlate = [s \in Senders |-> Idle] /\ given = [s \in Senders |-> FirstPort]
  /\ static = [i \in Ips |-> NoMac] /\ dynamic = [i \in Ips |-> NoArp] /\ arpAsked = {}
  /\ conns = {} /\ dialing = [s \in Senders |-> Idle] /\ listening = {} /\ closedSome = FALSE /\ refused = FALSE
  /\ udpServer = -1 /\ udpStats = -1
  /\ ftp = NoFtp /\ attached = {} /\ ftpAgain = FALSE /\ http = NoHttp
  /\ records = {} /\ queries = 0 /\ answers = 0 /\ errors = 0
  /\ vtep = NoVtep /\ tunnels = {} /\ vtepMoved = FALSE /\ vsis = {}

-----------------------------------------------------------------------------
(* DHCP.                                                                   *)

Addresses == 0..TopAddress
Counts    == <<requests, acks, nacks, renewals>>

\* AddPool replaces a pool of that name, and its leases are gone.
AddPool(r) ==
  /\ pool' = [range |-> r, excluded |-> {}, lease |-> [a \in Addresses |-> Free], there |-> TRUE, offered |-> 0]
  /\ UNCHANGED <<dhcpOn, Counts>>

RemovePool == pool.there /\ pool' = NoPool /\ UNCHANGED <<dhcpOn, Counts>>

\* ExcludeIP does not take back a lease.
ExcludeIP(a) == pool.there /\ pool' = [pool EXCEPT !.excluded = @ \cup {a}] /\ UNCHANGED <<dhcpOn, Counts>>

SwitchDhcp == dhcpOn' = ~ dhcpOn /\ UNCHANGED <<pool, Counts>>

ActiveOf(m) == {a \in Addresses : pool.lease[a] = [mac |-> m, active |-> TRUE]}


\* An address that was ever assigned stays in the map.  The loop counts in 32 bits: from the
\* end of a pool at the last address it goes on with 0.
FreeAddresses ==
  {a \in Addresses : /\ pool.lease[a] = Free /\ a \notin pool.excluded
                     /\ (a >= pool.range[1] /\ a <= pool.range[2]) \/ pool.range[2] = TopAddress}
FirstFree == \* the first one the loop comes to
  LET up == {a \in FreeAddresses : a >= pool.range[1]}
  IN IF up # {} THEN Min(up) ELSE Min(FreeAddresses)

\* AssignIP.  In a pool up to the last address the loop has no end, but it finds an address
\* before 2^32 leases are taken; such a pool is not asked here when nothing is left.
AssignIP(m) ==
  /\ dhcpOn /\ pool.there /\ requests < MaxRequests
  /\ requests' = requests + 1
  /\ \/ ActiveOf(m) # {} /\ acks' = acks + 1 /\ UNCHANGED <<pool, nacks>>
     \/ /\ ActiveOf(m) = {} /\ FreeAddresses # {}
        /\ pool' = [pool EXCEPT !.lease[FirstFree] = [mac |-> m, active |-> TRUE], !.offered = @ + 1]
        /\ acks' = acks + 1 /\ UNCHANGED nacks
     \/ /\ ActiveOf(m) = {} /\ FreeAddresses = {} /\ pool.range[2] # TopAddress
        /\ nacks' = nacks + 1 /\ UNCHANGED <<pool, acks>>
  /\ UNCHANGED <<dhcpOn, renewals>>

ReleaseIP(a) ==
  /\ pool.there /\ pool.lease[a] # Free
  /\ pool' = [pool EXCEPT !.lease[a].active = FALSE]
  /\ UNCHANGED <<dhcpOn, Counts>>

\* RenewLease acknowledges without a request.
RenewLease(m) ==
  /\ pool.there /\ ActiveOf(m) # {} /\ renewals < MaxRequests
  /\ acks' = acks + 1 /\ renewals' = renewals + 1
  /\ UNCHANGED <<pool, dhcpOn, requests, nacks>>

DhcpSim ==
  /\ \/ RemovePool \/ SwitchDhcp
     \/ \E r \in Ranges : AddPool(r)
     \/ \E a \in Addresses : ExcludeIP(a) \/ ReleaseIP(a)
     \/ \E m \in Macs : AssignIP(m) \/ RenewLease(m)
  /\ UNCHANGED <<natVars, arpVars, tcpVars, netVars, dnsVars, vxlanVars>>

-----------------------------------------------------------------------------
(* Port translation: ApplyNAT holds the lock for reading only, so that     *)
(* translations overlap.                                                   *)

Moves(s, pc, p) == xlate' = [xlate EXCEPT ![s] = [@ EXCEPT !.pc = pc, !.port = p]]

\* The port is read; then CurrentPort++ reads and writes, and the comparison and the
\* assignment of the first port read and write again.
TakePort(s) ==
  LET others == {q \in Senders : xlate[q].pc # "idle"}
  IN /\ xlate[s].pc = "idle"
     /\ given' = [given EXCEPT ![s] = natPort]
     /\ xlate' = [q \in Senders |->
          IF q = s THEN [pc |-> "load", port |-> 0, raced |-> others # {}]
          ELSE IF q \in others THEN [xlate[q] EXCEPT !.raced = TRUE] ELSE xlate[q]]
     /\ UNCHANGED natPort

\* Two translations can push the port up without end: each loads what the other has stored
\* before it is compared.
LoadPort(s)  == xlate[s].pc = "load" /\ natPort < MaxPort /\ Moves(s, "store", natPort) /\ UNCHANGED <<natPort, given>>
StorePort(s) ==
  /\ xlate[s].pc = "store"
  /\ natPort' = xlate[s].port + 1
  /\ Moves(s, "compare", 0) /\ UNCHANGED given

\* Mutant: the last port is compared as if it were not one of the rule's.
ComparePortOff(s) ==
  /\ xlate[s].pc = "compare"
  /\ Moves(s, IF natPort > LastPort + 1 THEN "reset" ELSE "idle", 0)
  /\ UNCHANGED <<natPort, given>>

ComparePort(s) ==
  /\ xlate[s].pc = "compare"
  /\ Moves(s, IF natPort > LastPort THEN "reset" ELSE "idle", 0)
  /\ UNCHANGED <<natPort, given>>

ResetPort(s) == xlate[s].pc = "reset" /\ natPort' = FirstPort /\ Moves(s, "idle", 0) /\ UNCHANGED given

NatSim ==
  /\ \E s \in Senders : TakePort(s) \/ LoadPort(s) \/ StorePort(s) \/ ComparePort(s) \/ ResetPort(s)
  /\ UNCHANGED <<dhcpVars, arpVars, tcpVars, netVars, dnsVars, vxlanVars>>

-----------------------------------------------------------------------------
(* ARP.                                                                    *)

Learned(m, iface) == [mac |-> m, iface |-> iface, fresh |-> TRUE]

AddStaticARP(i, m) ==
  static' = [static EXCEPT ![i] = m] /\ dynamic' = [dynamic EXCEPT ![i] = NoArp] /\ UNCHANGED arpAsked
\* AddDynamicARP, ReceiveARPResponse
AddDynamicARP(i, m) ==
  /\ static[i] = NoMac
  /\ dynamic' = [dynamic EXCEPT ![i] = Learned(m, TRUE)]
  /\ UNCHANGED <<static, arpAsked>>
DeleteARP(i) ==
  static' = [static EXCEPT ![i] = NoMac] /\ dynamic' = [dynamic EXCEPT ![i] = NoArp] /\ UNCHANGED arpAsked
ClearDynamicARP == dynamic' = [i \in Ips |-> NoArp] /\ UNCHANGED <<static, arpAsked>>
Expire(i) == dynamic[i].fresh /\ dynamic' = [dynamic EXCEPT ![i].fresh = FALSE] /\ UNCHANGED <<static, arpAsked>>

\* HandlePacket learns the sender, over a static entry too and without an interface, and
\* answers for the target in another critical section.
LearnSender(i, m, target) ==
  /\ dynamic' = [dynamic EXCEPT ![i] = Learned(m, FALSE)]
  /\ arpAsked' = arpAsked \cup {target}
  /\ UNCHANGED static
AnswerArp(i) == i \in arpAsked /\ arpAsked' = arpAsked \ {i} /\ UNCHANGED <<static, dynamic>>

\* ResolveMAC, which deletes what has expired.
Resolved(i) ==
  IF static[i] # NoMac THEN static[i] ELSE IF dynamic[i].fresh THEN dynamic[i].mac ELSE NoMac
ResolveMAC(i) ==
  /\ dynamic' = IF static[i] = NoMac /\ ~ dynamic[i].fresh THEN [dynamic EXCEPT ![i] = NoArp] ELSE dynamic
  /\ UNCHANGED <<static, arpAsked>>

\* GetARPTable: how many lines an address has
LinesOf(i) == (IF static[i] # NoMac THEN 1 ELSE 0) + (IF dynamic[i].fresh THEN 1 ELSE 0)

ArpSim ==
  /\ \/ ClearDynamicARP
     \/ \E i \in Ips : DeleteARP(i) \/ Expire(i) \/ AnswerArp(i) \/ ResolveMAC(i)
     \/ \E i \in Ips, m \in Nodes : AddStaticARP(i, m) \/ AddDynamicARP(i, m) \/ (\E t \in Ips : LearnSender(i, m, t))
  /\ UNCHANGED <<dhcpVars, natVars, tcpVars, netVars, dnsVars, vxlanVars>>

-----------------------------------------------------------------------------
(* TCP: Telnet counts the connections, chooses its port by their number    *)
(* and connects, each under the lock and none of them together.            *)

AddListener(r)    == listening' = listening \cup {r} /\ UNCHANGED <<conns, dialing, closedSome, refused>>
RemoveListener(r) == listening' = listening \ {r} /\ UNCHANGED <<conns, dialing, closedSome, refused>>

ChoosePort(s, r) ==
  LET others == {q \in Senders : dialing[q].pc # "idle"}
  IN /\ dialing[s].pc = "idle" /\ r \in listening
     /\ dialing' = [q \in Senders |->
          IF q = s THEN [pc |-> r, port |-> PortBase + (Cardinality(conns) % PortSpan), raced |-> others # {}]
          ELSE IF q \in others THEN [dialing[q] EXCEPT !.raced = TRUE] ELSE dialing[q]]
     /\ UNCHANGED <<conns, listening, closedSome, refused>>

\* Connect refuses a connection that is there.  Ghost refused: though no connection was ever
\* closed, no other telnet came between, and ports are left.
DialPort(s) ==
  LET conn == <<dialing[s].port, dialing[s].pc>>
  IN /\ dialing[s].pc # "idle"
     /\ conns' = conns \cup {conn}
     /\ refused' = (refused \/ (conn \in conns /\ ~ closedSome /\ ~ dialing[s].raced /\ Cardinality(conns) < PortSpan))
     /\ dialing' = [dialing EXCEPT ![s] = Idle]
     /\ UNCHANGED <<listening, closedSome>>

Disconnect(c) ==
  /\ c \in conns
  /\ conns' = conns \ {c} /\ closedSome' = TRUE
  /\ UNCHANGED <<dialing, listening, refused>>

TcpSim ==
  /\ \/ \E r \in Remotes : AddListener(r) \/ RemoveListener(r) \/ (\E s \in Senders : ChoosePort(s, r))
     \/ \E s \in Senders : DialPort(s)
     \/ \E c \in conns : Disconnect(c)
  /\ UNCHANGED <<dhcpVars, natVars, arpVars, netVars, dnsVars, vxlanVars>>

-----------------------------------------------------------------------------
(* UDP, FTP and HTTP servers, one port each.                               *)

\* AddServer keeps a server that is there, and the port's statistics for ever.
AddServer ==
  /\ udpServer' = IF udpServer = -1 THEN 0 ELSE udpServer
  /\ udpStats' = IF udpStats = -1 THEN 0 ELSE udpStats
  /\ UNCHANGED <<ftp, attached, ftpAgain, http>>
RemoveServer == udpServer' = -1 /\ UNCHANGED <<udpStats, ftp, attached, ftpAgain, http>>
ReceivePacket ==
  /\ udpStats < MaxRequests
  /\ udpServer' = IF udpServer = -1 THEN -1 ELSE udpServer + 1
  /\ udpStats' = IF udpStats = -1 THEN -1 ELSE udpStats + 1
  /\ UNCHANGED <<ftp, attached, ftpAgain, http>>

\* StartServer over one that is there: the clients it has are not counted any more.
StartFtp ==
  /\ ftp' = [there |-> TRUE, count |-> 0]
  /\ ftpAgain' = (attached # {})
  /\ UNCHANGED <<udpServer, udpStats, attached, http>>
StopFtp == ftp' = NoFtp /\ UNCHANGED <<udpServer, udpStats, attached, ftpAgain, http>>
\* Connect
Attach(c) ==
  /\ c \notin attached /\ ftp.there /\ ftp.count < MaxFtp
  /\ ftp' = [ftp EXCEPT !.count = @ + 1] /\ attached' = attached \cup {c}
  /\ UNCHANGED <<udpServer, udpStats, ftpAgain, http>>
\* Disconnect, which does not know who
Detach(c) ==
  /\ c \in attached
  /\ attached' = attached \ {c}
  /\ ftp' = IF ftp.there /\ ftp.count > 0 THEN [ftp EXCEPT !.count = @ - 1] ELSE ftp
  /\ ftpAgain' = (ftpAgain /\ attached' # {})
  /\ UNCHANGED <<udpServer, udpStats, http>>

StartHttp == http' = [NoHttp EXCEPT !.there = TRUE] /\ UNCHANGED <<udpServer, udpStats, ftp, attached, ftpAgain>>
StopHttp  == http' = NoHttp /\ UNCHANGED <<udpServer, udpStats, ftp, attached, ftpAgain>>
HandleRequest ==
  /\ http.requests < MaxRequests
  /\ http' = IF http.there THEN [http EXCEPT !.requests = @ + 1, !.responses = @ + 1] ELSE http
  /\ UNCHANGED <<udpServer, udpStats, ftp, attached, ftpAgain>>

ServerSim ==
  /\ \/ AddServer \/ RemoveServer \/ ReceivePacket \/ StartFtp \/ StopFtp \/ StartHttp \/ StopHttp \/ HandleRequest
     \/ \E c \in FtpClients : Attach(c) \/ Detach(c)
  /\ UNCHANGED <<dhcpVars, natVars, arpVars, tcpVars, dnsVars, vxlanVars>>

-----------------------------------------------------------------------------
(* DNS and VXLAN.  A record is a name and what it says: an address, or     *)
(* another name.                                                           *)

AddRecord(n, v) ==
  records' = records \cup {<<n, v>>} /\ UNCHANGED <<queries, answers, errors>>
RemoveRecord(n, v) ==
  records' = records \ {<<n, v>>} /\ UNCHANGED <<queries, answers, errors>>
\* RemoveZone, of the one that has them all
RemoveZone == records' = {} /\ UNCHANGED <<queries, answers, errors>>

HasAddress(n) == <<n, "address">> \in records
\* Query follows one alias, resolveCNAME no further.
Answered(n) == HasAddress(n) \/ \E m \in Names : <<n, m>> \in records /\ HasAddress(m)
Query(n) ==
  /\ queries < MaxRequests
  /\ queries' = queries + 1
  /\ answers' = answers + 1
  /\ errors' = IF Answered(n) THEN errors ELSE errors + 1
  /\ UNCHANGED records

\* SetVTEPIP leaves the tunnels with the address they have.  Ghost vtepMoved: it had some.
SetVTEPIP(v) ==
  /\ vtep' = v
  /\ vtepMoved' = (vtepMoved \/ (tunnels # {} /\ v # vtep))
  /\ UNCHANGED <<tunnels, vsis>>
CreateTunnel(r) ==
  /\ vtep # NoVtep
  /\ tunnels' = {t \in tunnels : t[2] # r} \cup {<<vtep, r>>}
  /\ UNCHANGED <<vtep, vtepMoved, vsis>>
\* A VSI, and the interfaces bound to it
CreateVSI == "vsi" \notin vsis /\ vsis' = vsis \cup {"vsi"} /\ UNCHANGED <<vtep, tunnels, vtepMoved>>
BindInterface ==
  /\ "vsi" \in vsis /\ vsis' = vsis \cup {"port"}
  /\ UNCHANGED <<vtep, tunnels, vtepMoved>>

DnsSim ==
  /\ RemoveZone \/ \E n \in Names : Query(n) \/ (\E v \in Names \cup {"address"} : AddRecord(n, v) \/ RemoveRecord(n, v))
  /\ UNCHANGED <<dhcpVars, natVars, arpVars, tcpVars, netVars, vxlanVars>>
VxlanSim ==
  /\ CreateVSI \/ BindInterface \/ \E v \in Veps : SetVTEPIP(v) \/ CreateTunnel(v)
  /\ UNCHANGED <<dhcpVars, natVars, arpVars, tcpVars, netVars, dnsVars>>

\* The simulators share nothing.
TablesSpec == TablesInit /\ [][DhcpSim \/ NatSim \/ ArpSim \/ TcpSim \/ ServerSim \/ DnsSim \/ VxlanSim]_tableVars

-----------------------------------------------------------------------------
(* Properties.                                                             *)

TablesTypeOK ==
  /\ pool.range \in Ranges \cup {<<0, 0>>} /\ pool.excluded \subseteq Addresses
  /\ pool.there => pool.lease \in [Addresses -> [mac : Macs \cup {NoMac}, active : BOOLEAN]]
  /\ \A s \in Senders : xlate[s].pc \in {"idle", "load", "store", "compare", "reset"}
  /\ static \in [Ips -> Nodes \cup {NoMac}]
  /\ \A c \in conns : c[1] \in PortBase..(PortBase + PortSpan - 1) /\ c[2] \in Remotes
  /\ {udpServer, udpStats} \subseteq -1..MaxRequests
  /\ {http.requests, http.responses, queries, errors} \subseteq 0..MaxRequests

\* A host has one active lease, of the range unless the pool ends at the last address there
\* is; what was acknowledged and refused was requested or renewed; and every lease made is
\* still there: an address that was released is not assigned again until the pool is replaced.
LeasesSound ==
  /\ pool.there =>
       \A a, b \in Addresses :
         /\ pool.lease[a] # Free => (a >= pool.range[1] /\ a <= pool.range[2]) \/ pool.range[2] = TopAddress
         /\ a # b /\ pool.lease[a].active /\ pool.lease[b].active => pool.lease[a].mac # pool.lease[b].mac
  /\ pool.there => pool.offered = Cardinality({a \in Addresses : pool.lease[a] # Free})
  /\ acks + nacks = requests + renewals

\* The port that is next is one of the rule's whenever no translation is under way, and
\* beyond them only while one is about to set it back; a translation that meets no other
\* is given one of them.
PortsSound ==
  /\ natPort > LastPort => \E s \in Senders : xlate[s].pc \in {"compare", "reset"}
  /\ \A s \in Senders : ~ xlate[s].raced => given[s] \in FirstPort..LastPort

\* An address is listed twice only if a packet was learned over its static entry, which
\* still answers for it; nothing that has expired does.
ArpSound ==
  \A i \in Ips : /\ LinesOf(i) = 2 => ~ dynamic[i].iface
                 /\ static[i] # NoMac => Resolved(i) = static[i]
                 /\ dynamic[i] # NoArp /\ ~ dynamic[i].fresh => Resolved(i) # dynamic[i].mac \/ Resolved(i) = static[i]

\* A server's counters never exceed those of its port; an FTP server is within its limit,
\* and counts its clients unless it was started over them; DNS answers what it is asked.
ServersSound ==
  /\ udpServer <= udpStats
  /\ ftp.count <= MaxFtp /\ ftp.count <= Cardinality(attached)
  /\ http.requests = http.responses
  /\ answers = queries /\ errors <= queries

\* Tunnels start at the VTEP's address unless it was given another one later.
TunnelsSound ==
  /\ ~ vtepMoved => \A t \in tunnels : t[1] = vtep
  /\ "port" \in vsis => "vsi" \in vsis

TablesSound == TablesTypeOK /\ LeasesSound /\ PortsSound /\ ArpSound /\ ServersSound /\ TunnelsSound /\ ~ refused
=============================================================================
