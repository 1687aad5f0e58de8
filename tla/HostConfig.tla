------------------------------ MODULE HostConfig ------------------------------
(***************************************************************************)
(* The addresses of a terminal (PC, client): internal/cli/parser.go and    *)
(* host.go with internal/api/cli_handlers.go and ipconfig_handlers.go.     *)
(* They are kept four times: in fields of the session, in two keys of its  *)
(* configuration, in the configuration of the document, and at the port    *)
(* Ethernet0 of the document, which is what the engine uses.  Each command *)
(* ends by writing the session into the document; a session is rebuilt     *)
(* from the document.  An address is stored with a prefix length, and      *)
(* there are masks whose length is taken for another.                      *)
(***************************************************************************)
EXTENDS FiniteSets, Naturals

CONSTANTS
  HostIPs, Resolvers, Routers,  \* addresses, of the host, of its DNS server and of its gateway
  Masks,
  PlainMasks,   \* the masks whose length subnetToPrefix knows: /8, /16, /24, /32
  UsualMask,    \* /24
  Generated,    \* the address that is shown for a host without one
  Nil           \* not set

NilOr(S)   == S \cup {Nil}
Endpoint     == [ip : NilOr(HostIPs), mask : NilOr(Masks), gateway : NilOr(Routers), dns : NilOr(Resolvers)]
Bare         == [ip |-> Nil, mask |-> Nil, gateway |-> Nil, dns |-> Nil]
Addresses    == {Nil} \cup (HostIPs \X Masks)
HostKeys     == [ip : Addresses, dns : NilOr(Resolvers)]
HostDocs     == [ip : Addresses, dns : NilOr(Resolvers), gateway : NilOr(Routers)]
NoHostKeys   == [ip |-> Nil, dns |-> Nil]

ASSUME MasksAssumption ==
  /\ UsualMask \in PlainMasks /\ PlainMasks \subseteq Masks
  /\ Nil \notin HostIPs \cup Resolvers \cup Routers \cup Masks \cup {Generated}
  /\ Nil \notin HostIPs \X Masks /\ Nil \notin HostDocs

VARIABLES
  host,      \* the fields of the session: HostIP, HostSubnet, DefaultGateway, HostDNS
  hostKeys,  \* the keys of the session for the address and the DNS server of Ethernet0
  inCache,   \* whether the device has a session
  hostDoc,   \* the configuration in the document; Nil before the first command
  port,      \* Ethernet0 of the document
  lagging    \* history: the port may differ from the session

hostVars == <<host, hostKeys, inCache, hostDoc, port, lagging>>

HostInit ==
  /\ host = Bare /\ hostKeys = NoHostKeys /\ inCache = FALSE
  /\ hostDoc = Nil
  /\ port \in {Bare} \cup {[Bare EXCEPT !.ip = ip, !.mask = UsualMask] : ip \in HostIPs}
  /\ lagging = FALSE

\* subnetToPrefix and, on the way back, prefixToSubnet.
Stored(mask) == IF mask \in PlainMasks THEN mask ELSE UsualMask

Preferred(new, old) == IF new # Nil THEN new ELSE old

\* Mutant of Serialized: a key that is there already is kept.
SerializedOnce(h, k) ==
  [ip      |-> Preferred(k.ip, IF h.ip # Nil THEN <<h.ip, Stored(h.mask)>> ELSE Nil),
   dns     |-> Preferred(h.dns, k.dns),
   gateway |-> h.gateway]

\* SerializeToDeviceConfigData: the fields that are set go over the keys.
Serialized(h, k) ==
  [ip      |-> IF h.ip # Nil THEN <<h.ip, Stored(h.mask)>> ELSE k.ip,
   dns     |-> Preferred(h.dns, k.dns),
   gateway |-> h.gateway]

\* LoadFromDeviceConfigData.
HostOf(doc) ==
  IF doc = Nil THEN Bare
  ELSE [ip      |-> IF doc.ip # Nil THEN doc.ip[1] ELSE Nil,
        mask    |-> IF doc.ip # Nil THEN doc.ip[2] ELSE Nil,
        gateway |-> doc.gateway,
        dns     |-> doc.dns]

\* buildCLIState: without an address, that of the port.
Built ==
  LET h == HostOf(hostDoc)
  IN IF h.ip = Nil /\ port.ip # Nil THEN [h EXCEPT !.ip = port.ip, !.mask = Preferred(port.mask, @)] ELSE h

\* updateDeviceInterfaces: what is not set stays as it is.
Ported(h) == [f \in DOMAIN h |-> Preferred(h[f], port[f])]

\* getHostInterfaces.
Shown(h, k) ==
  IF h.ip # Nil THEN <<h.ip, Preferred(h.mask, UsualMask)>>
  ELSE IF k.ip # Nil THEN k.ip ELSE <<Generated, UsualMask>>

-----------------------------------------------------------------------------
(* A command leaves h in the fields and k in the keys.                     *)

Command(h, k) ==
  /\ inCache
  /\ host' = h /\ hostKeys' = k
  /\ hostDoc' = Serialized(h, k)
  /\ port' = Ported(h)
  /\ lagging' = IF h.ip = Nil THEN lagging \/ k.ip # Nil ELSE h.mask = Nil
  /\ UNCHANGED inCache

SetFields(h) == Command(h, hostKeys)

\* ip address in the user view, ipconfig /set, netsh ... static, the ip-config request.
SetAddress(ip, mask) == SetFields([host EXCEPT !.ip = ip, !.mask = mask])

\* ipconfig /ip, and the others without a mask.
SetIPOnly(ip) == SetFields([host EXCEPT !.ip = ip])

\* ipconfig /release and /renew, netsh ... dhcp, the ip-config request without an address.
Release == SetFields([host EXCEPT !.ip = Nil, !.mask = Nil])

\* ip gateway, or the gateway of the commands that have one; it is never cleared.
SetGateway(gw) == SetFields([host EXCEPT !.gateway = gw])

SetDns(dns) == SetFields([host EXCEPT !.dns = dns])
ClearDns    == SetFields([host EXCEPT !.dns = Nil])

\* ip addr add, and ip address in the view of the interface, which leave the fields alone.
AddAddress(ip, mask) == Command(host, [hostKeys EXCEPT !.ip = <<ip, mask>>])

\* ip addr del, undo ip address.
DeleteAddress == Command(host, [hostKeys EXCEPT !.ip = Nil])

AnyOther == Command(host, hostKeys)

\* getOrInitCLIState, for a command or a display.
OpenHost ==
  /\ ~inCache /\ inCache' = TRUE
  /\ host' = Built
  /\ hostKeys' = IF hostDoc = Nil THEN NoHostKeys ELSE [ip |-> hostDoc.ip, dns |-> hostDoc.dns]
  /\ UNCHANGED <<hostDoc, port, lagging>>

\* A restart, or an update of the device; the request may give the port other addresses.
CloseHost ==
  /\ inCache /\ inCache' = FALSE
  /\ host' = Bare /\ hostKeys' = NoHostKeys
  /\ UNCHANGED <<hostDoc, port, lagging>>

EditPort(ip, mask) ==
  /\ inCache' = FALSE /\ host' = Bare /\ hostKeys' = NoHostKeys
  /\ port' = [port EXCEPT !.ip = ip, !.mask = mask]
  /\ lagging' = (lagging \/ (hostDoc # Nil /\ hostDoc.ip # Nil))
  /\ UNCHANGED hostDoc

HostNext ==
  \/ \E ip \in HostIPs : SetIPOnly(ip) \/ \E mask \in Masks : SetAddress(ip, mask) \/ AddAddress(ip, mask) \/ EditPort(ip, mask)
  \/ Release \/ DeleteAddress \/ ClearDns \/ AnyOther
  \/ \E gw \in Routers : SetGateway(gw)
  \/ \E dns \in Resolvers : SetDns(dns)
  \/ OpenHost \/ CloseHost

HostSpec == HostInit /\ [][HostNext]_hostVars

-----------------------------------------------------------------------------
(* Properties.                                                             *)

HostTypeOK ==
  /\ host \in Endpoint /\ port \in Endpoint /\ inCache \in BOOLEAN /\ lagging \in BOOLEAN
  /\ hostKeys \in HostKeys /\ hostDoc \in NilOr(HostDocs)

\* The address that a host with one shows is the one it shows after a restart, unless the
\* mask is one that a prefix length loses; so are its gateway and its DNS server.
AddressSurvives ==
  inCache /\ host.ip # Nil =>
    /\ Shown(Built, NoHostKeys)[1] = Shown(host, hostKeys)[1]
    /\ Shown(Built, NoHostKeys)[2] \in {Shown(host, hostKeys)[2], Stored(host.mask)}
    /\ Built.gateway = host.gateway
    /\ host.dns # Nil => Built.dns = host.dns

\* The engine uses the address that the host shows, unless the port was edited under an
\* address of the document, the key of a released host has come to be its address, or an
\* address was given without a mask.
EngineHasAddress ==
  inCache /\ host.ip # Nil /\ ~lagging =>
    port.ip = host.ip /\ Stored(port.mask) = Stored(host.mask)

HostCoherent == HostTypeOK /\ AddressSurvives /\ EngineHasAddress
=============================================================================
