----------------------------- MODULE DeviceServices -----------------------------
(***************************************************************************)
(* The services of a device and the views they are configured in:          *)
(* internal/cli/parser.go and gap_cmd.go.  Most settings are fields of the *)
(* session and are gone when it is built again; some are keys of the       *)
(* configuration, and a few are both.  quit goes up one view; save asks a  *)
(* question, and until it is answered no command is obeyed.                *)
(* The addresses and the filters of a device are modules of their own.     *)
(***************************************************************************)
EXTENDS HostConfig, AclConfig

CONSTANTS
  SvcPorts, SvcServers, PoolNames, Groups, Vnis,
  GapNumbers,
  NoService  \* not set

VARIABLES
  view,     \* CurrentView
  sub,      \* CurrentSub
  asked,    \* PendingSave
  startup,  \* SavedConfig
  svc,      \* fields of the session
  svcKeys,  \* keys of the configuration
  cameFrom, \* history: the view from which the view was entered
  wasAsked, \* history: what was configured when save asked
  wasOn     \* history: the features that were enabled since the session was built

svcVars == <<view, sub, asked, startup, svc, svcKeys, cameFrom, wasAsked, wasOn>>

Gated     == {"bfd", "qos", "dot1x"}                            \* enable before any entry
Exporters == {"netflow", "radius", "snmp", "syslog", "ntp"}     \* have a server
Apps      == {"http", "https", "dns", "ftp", "smtp"}            \* executeServerService
GapKinds  == {"channel", "policy"}
Opt(S)    == S \cup {NoService}

Defaults ==
  [entries |-> [f \in Gated |-> {}], on |-> {}, server |-> [e \in Exporters |-> NoService],
   lldp |-> [p \in SvcPorts |-> NoService], ssh |-> {"ssh"}, login |-> "password", inbound |-> "all",
   domain |-> 0, groups |-> {}, group |-> NoService, pools |-> [n \in {} |-> {}],
   vni |-> NoService, evpn |-> FALSE, vsis |-> {}, routed |-> 0]

\* The keys: values of single ones, the servers enabled, interfaces, far VTEPs and the gap's.
NoSvcKeys ==
  [apps |-> {}, preset |-> NoService, instance |-> FALSE, gateway |-> FALSE, vteps |-> {}, ppp |-> {}, rip |-> FALSE,
   defined |-> {}, open |-> {}]

\* LoadFromDeviceConfigData: of the fields only those of VXLAN are in the keys.
FromKeys(k) ==
  IF k.preset = NoService THEN Defaults
  ELSE [Defaults EXCEPT !.on = {"vxlan"}, !.vni = k.preset]

SvcInit ==
  /\ view = "user" /\ sub = NoService /\ cameFrom = "user"
  /\ asked = FALSE /\ startup = NoService /\ wasAsked = NoSvcKeys
  /\ svcKeys \in {NoSvcKeys} \cup {[NoSvcKeys EXCEPT !.preset = v] : v \in Vnis}
  /\ svc = FromKeys(svcKeys)
  /\ wasOn = {}

-----------------------------------------------------------------------------
(* Views.                                                                  *)

Nested == [channel |-> "gap", policy |-> "gap"]

\* Mutant of Up: every view but these is left for the system view.
UpToSystem(v) == IF v \in {"user", "system"} THEN "user" ELSE "system"

\* quit: the views inside another are listed; system is the way out of the others.
Up(v) ==
  CASE v \in DOMAIN Nested -> Nested[v]
    [] v \in {"user", "system"} -> IF v = "system" THEN "user" ELSE "system"
    [] OTHER -> "system"

\* Mutant of Obeyed: commands are obeyed while the question is open.
ObeyedAlways == TRUE

\* Only the answer to save is taken while it is expected.
Obeyed == ~asked

GoesFrom(from, to, name) ==
  /\ Obeyed /\ view = from
  /\ view' = to /\ sub' = name /\ cameFrom' = from

KeepView == UNCHANGED <<view, sub, cameFrom>>
KeepSave == UNCHANGED <<asked, startup, wasAsked>>

GoToSystem ==
  /\ Obeyed /\ view' = "system" /\ cameFrom' = "user"
  /\ UNCHANGED <<sub, svc, svcKeys, wasOn>> /\ KeepSave

\* A user view is left for the system view: the last branch of the chain is for every
\* view that is not named.
GoUp ==
  /\ Obeyed /\ view' = Up(view) /\ sub' = NoService
  /\ cameFrom' = IF view' = "gap" THEN "system" ELSE "user"
  /\ UNCHANGED <<svc, svcKeys, wasOn>> /\ KeepSave

GoToUser ==
  /\ Obeyed /\ view' = "user" /\ sub' = NoService /\ cameFrom' = "user"
  /\ UNCHANGED <<svc, svcKeys, wasOn>> /\ KeepSave

\* user-interface vty <first> <last>; interface <name>.
EnterVty  == GoesFrom("system", "vty", NoService) /\ UNCHANGED <<svc, svcKeys, wasOn>> /\ KeepSave
EnterPortView == (\E p \in SvcPorts : GoesFrom("system", "interface", p)) /\ UNCHANGED <<svc, svcKeys, wasOn>> /\ KeepSave
EnterGap  == GoesFrom("system", "gap", NoService) /\ UNCHANGED <<svc, svcKeys, wasOn>> /\ KeepSave

\* channel <n>, policy <n>
EnterGapItem(kind, n) == GoesFrom("gap", kind, n) /\ UNCHANGED <<svc, svcKeys, wasOn>> /\ KeepSave

\* m-lag domain <id>
EnterMlag(id) ==
  /\ GoesFrom("system", "mlag", NoService) /\ svc' = [svc EXCEPT !.domain = id]
  /\ UNCHANGED <<svcKeys, wasOn>> /\ KeepSave

\* dhcp pool <name>
EnterPool(name) ==
  /\ GoesFrom("system", "pool", name)
  /\ svc' = [svc EXCEPT !.pools = [n \in DOMAIN @ \cup {name} |-> IF n \in DOMAIN @ THEN @[n] ELSE {}]]
  /\ UNCHANGED <<svcKeys, wasOn>> /\ KeepSave

-----------------------------------------------------------------------------
(* Settings of the session.                                                *)

SetIn(v, s) == Obeyed /\ view = v /\ svc' = s /\ UNCHANGED <<svcKeys, wasOn>> /\ KeepView /\ KeepSave
Set(s)      == SetIn("system", s)

Switchable == Gated \cup {"netflow", "lldp", "dhcp"}

\* <feature> enable, <feature> disable, undo dhcp; disabling keeps the entries.
EnableFeature(f) ==
  /\ Obeyed /\ view = "system"
  /\ svc' = [svc EXCEPT !.on = @ \cup {f}] /\ wasOn' = wasOn \cup {f}
  /\ UNCHANGED svcKeys /\ KeepView /\ KeepSave

DisableFeature(f) == Set([svc EXCEPT !.on = @ \ {f}])

\* A BFD session, a QoS classifier, behaviour or policy, a port of 802.1X.
AddEntryTo(f, e) == f \in svc.on /\ Set([svc EXCEPT !.entries[f] = @ \cup {e}])

\* netflow, radius, snmp, syslog, ntp with a server: enabled as well.
SetServer(e, s) == Set([svc EXCEPT !.on = @ \cup {e}, !.server[e] = s])

LldpOnPort(p, on) == Set([svc EXCEPT !.lldp[p] = on])

\* ssh disable, which nothing undoes, stelnet server enable, rsa local-key-pair create.
SshDisable   == Set([svc EXCEPT !.ssh = @ \ {"ssh"}])
SshFeature(f) == f \in {"stelnet", "rsa"} /\ Set([svc EXCEPT !.ssh = @ \cup {f}])

SetLogin(mode)   == mode \in {"aaa", "password", "none"} /\ SetIn("vty", [svc EXCEPT !.login = mode])
SetInbound(what) == what \in {"ssh", "telnet", "all"} /\ SetIn("vty", [svc EXCEPT !.inbound = what])

\* dfs-group <id> alone selects the group; with a setting it creates it and selects nothing.
DfsGroup(g)        == Set([svc EXCEPT !.groups = @ \cup {g}, !.group = g])
DfsGroupSetting(g) == Set([svc EXCEPT !.groups = @ \cup {g}])

\* gateway-list, dns-list, excluded-ip-address. network and lease test the argument
\* before the one they mean: the network becomes the word, a lease is never set.
PoolSetting(what) ==
  /\ what \in {"gateway", "dns", "excluded", "network"} /\ sub \in DOMAIN svc.pools
  /\ SetIn("pool", [svc EXCEPT !.pools[sub] = @ \cup {what}])

\* vxlan and vni, of which no key is written.
SetVni(v) == Set([svc EXCEPT !.on = @ \cup {"vxlan"}, !.vni = v])
AddVsi(v) == Set([svc EXCEPT !.vsis = @ \cup {v}])

\* policy-based-route appends a rule; the sequence is counted.
AddPbr == svc.routed < 1 /\ Set([svc EXCEPT !.routed = @ + 1])

-----------------------------------------------------------------------------
(* Settings in keys.                                                       *)

KeyIn(v, k) == Obeyed /\ view = v /\ svcKeys' = k /\ UNCHANGED <<svc, wasOn>> /\ KeepView /\ KeepSave

ServerService(a) == KeyIn("system", [svcKeys EXCEPT !.apps = @ \cup {a}])
StartRip         == KeyIn("system", [svcKeys EXCEPT !.rip = TRUE])
DistributedGateway == KeyIn("system", [svcKeys EXCEPT !.gateway = TRUE])
RemoteVtep(s)    == KeyIn("system", [svcKeys EXCEPT !.vteps = @ \cup {s}])
Ppp              == KeyIn("interface", [svcKeys EXCEPT !.ppp = @ \cup {sub}])

\* evpn-instance, a field and a key; the field is not loaded.
SetEvpnInstance ==
  /\ Obeyed /\ view = "system"
  /\ svc' = [svc EXCEPT !.evpn = TRUE] /\ svcKeys' = [svcKeys EXCEPT !.instance = TRUE]
  /\ UNCHANGED wasOn /\ KeepView /\ KeepSave

\* mapping in a channel, permit in a policy.
DefineGap(kind) == KeyIn(kind, [svcKeys EXCEPT !.defined = @ \cup {<<kind, sub>>}])

\* enable and disable. The command is found in any case, but only enable in small letters enables.
ToggleGap(kind, small) ==
  KeyIn(kind, [svcKeys EXCEPT !.open = IF small THEN @ \cup {<<kind, sub>>} ELSE @ \ {<<kind, sub>>}])

-----------------------------------------------------------------------------
(* The saved configuration, and restarts.                                  *)

AskToSave ==
  /\ Obeyed /\ asked' = TRUE /\ wasAsked' = svcKeys
  /\ UNCHANGED <<startup, svc, svcKeys, wasOn>> /\ KeepView

\* doSave
Yes ==
  /\ asked /\ asked' = FALSE /\ startup' = svcKeys /\ wasAsked' = NoSvcKeys
  /\ UNCHANGED <<svc, svcKeys, wasOn>> /\ KeepView

No ==
  /\ asked /\ asked' = FALSE /\ wasAsked' = NoSvcKeys
  /\ UNCHANGED <<startup, svc, svcKeys, wasOn>> /\ KeepView

\* reset saved-configuration
ResetSaved ==
  /\ Obeyed /\ startup' = NoService
  /\ UNCHANGED <<asked, wasAsked, svc, svcKeys, wasOn>> /\ KeepView

\* The session is dropped and built again: the question is forgotten with the view.
SvcRebuild ==
  /\ view' = "user" /\ sub' = NoService /\ cameFrom' = "user"
  /\ asked' = FALSE /\ wasAsked' = NoSvcKeys
  /\ svc' = FromKeys(svcKeys) /\ wasOn' = {}
  /\ UNCHANGED <<startup, svcKeys>>

ViewsNext ==
  \/ GoToSystem \/ GoUp \/ GoToUser \/ EnterVty \/ EnterPortView \/ EnterGap \/ EnterMlag(1)
  \/ \E n \in PoolNames : EnterPool(n)
  \/ \E kind \in GapKinds : DefineGap(kind) \/ (\E n \in GapNumbers : EnterGapItem(kind, n))
                            \/ (\E small \in BOOLEAN : ToggleGap(kind, small))
  \/ AskToSave \/ Yes \/ No \/ ResetSaved \/ SvcRebuild

SettingsNext ==
  \/ \E f \in Switchable : EnableFeature(f) \/ DisableFeature(f)
  \/ \E f \in Gated, p \in SvcPorts : AddEntryTo(f, p)
  \/ \E e \in Exporters, s \in SvcServers : SetServer(e, s)
  \/ \E p \in SvcPorts, on \in BOOLEAN : LldpOnPort(p, on)
  \/ SshDisable \/ (\E f \in {"stelnet", "rsa"} : SshFeature(f))
  \/ \E mode \in {"aaa", "password", "none"} : SetLogin(mode)
  \/ \E what \in {"ssh", "telnet", "all"} : SetInbound(what)
  \/ \E g \in Groups : DfsGroup(g) \/ DfsGroupSetting(g)
  \/ \E what \in {"gateway", "dns", "excluded", "network"} : PoolSetting(what)
  \/ \E v \in Vnis : SetVni(v) \/ AddVsi(v)
  \/ AddPbr \/ StartRip \/ DistributedGateway \/ Ppp \/ SetEvpnInstance
  \/ \E a \in Apps : ServerService(a)
  \/ \E s \in SvcServers : RemoteVtep(s)

SvcSpec == SvcInit /\ [][ViewsNext \/ SettingsNext]_svcVars

ServicesSpec == HostSpec /\ AclSpec /\ SvcSpec

-----------------------------------------------------------------------------
(* Properties.                                                             *)

SvcTypeOK ==
  /\ view \in {"user", "system", "vty", "interface", "mlag", "pool", "gap", "channel", "policy"}
  /\ sub \in SvcPorts \cup PoolNames \cup GapNumbers \cup {NoService}
  /\ asked \in BOOLEAN
  /\ svc.on \subseteq Gated \cup Exporters \cup {"lldp", "dhcp", "vxlan"}

\* What is written to the saved configuration is what was there when the question was asked.
SavesWhatWasAsked == asked => svcKeys = wasAsked

\* quit goes to the view from which the view was entered: the comment at
\* internal/cli/parser.go:346 has it that nested views must not fall out to the system view.
QuitReturns == view # "user" => Up(view) = cameFrom

\* A view of an item is of one that is there.
ViewHasItem ==
  /\ view = "pool" => sub \in DOMAIN svc.pools
  /\ view \in GapKinds => sub \in GapNumbers
  /\ view = "interface" => sub \in SvcPorts

\* Entries belong to features that have been enabled in this session.
EntriesWereEnabled == \A f \in Gated : svc.entries[f] # {} => f \in wasOn

\* The selected group of M-LAG exists, and an EVPN instance in use is also a key.
SelectedExist == (svc.group # NoService => svc.group \in svc.groups) /\ (svc.evpn => svcKeys.instance)

ServicesSound ==
  SavesWhatWasAsked /\ QuitReturns /\ ViewHasItem /\ EntriesWereEnabled /\ SelectedExist

\* The addresses, filters and services of a device.
ServicesCoherent == SvcTypeOK /\ HostCoherent /\ AclCoherent /\ ServicesSound
=============================================================================
