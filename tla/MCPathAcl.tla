------------------------------ MODULE MCPathAcl ------------------------------
(* PathAcl with two hosts, two routers that filter and one that does not.   *)
EXTENDS PathAcl, TLC

CONSTANTS h, r1, r2, r3, s, ah, a1, a2, as, g

Pairs      == {S \in SUBSET Devices : Cardinality(S) = 2}
MCNetworks == SUBSET Pairs

Rule(permit, from, to) == [permit |-> permit, from |-> from, to |-> to]

\* No binding, an ACL without rules, one that refuses the host, one that lets only
\* packets to the server through, and two that are bound together.
Bindings ==
  { {}, {<<>>},
    {<<Rule(FALSE, {ah}, Addresses), Rule(TRUE, Addresses, Addresses)>>},
    {<<Rule(TRUE, Addresses, {as})>>, <<Rule(TRUE, {a1, ah}, Addresses)>>} }

NoNat == [on |-> FALSE, servers |-> <<>>, outbounds |-> <<>>]

Outbound(acl, group, pool) == [acl |-> acl, group |-> group, pool |-> pool]

\* No translation; the server behind the public address, and a group without a pool, which
\* leaves the source alone; or two servers and the hosts' addresses translated on their way out.
Nats ==
  { NoNat,
    [on |-> TRUE, servers |-> <<[global |-> g, inside |-> as]>>,
     outbounds |-> <<Outbound(<<>>, TRUE, NoAddress), Outbound(<<>>, FALSE, NoAddress)>>],
    [on |-> TRUE, servers |-> <<[global |-> g, inside |-> as], [global |-> g, inside |-> ah]>>,
     outbounds |-> <<Outbound(<<Rule(FALSE, {as}, Addresses), Rule(TRUE, {ah, as}, Addresses)>>, FALSE, NoAddress),
                     Outbound(<<>>, TRUE, a2)>>] }

Setting(addr, filters, nats, routes, cached) ==
  [addr |-> addr, terminal |-> {h, s}, filters |-> filters, nat |-> nats, routes |-> routes, cached |-> cached]

Filters(in1, in2, out2) ==
  [d \in Devices |-> CASE d = r1 -> [in |-> in1, out |-> {}]
                       [] d = r2 -> [in |-> in2, out |-> out2]
                       [] OTHER  -> [in |-> {}, out |-> {}]]

NatsOf(n1, n2) == [d \in Devices |-> CASE d = r1 -> n1 [] d = r2 -> n2 [] OTHER -> NoNat]

Routes == [d \in Devices |-> IF d # r1 THEN <<>>
                             ELSE <<[to |-> {as, g}, len |-> 16, via |-> NoAddress], [to |-> {as}, len |-> 24, via |-> a1]>>]

OneEach == (h :> {ah} @@ r1 :> {a1} @@ r2 :> {a2} @@ r3 :> {} @@ s :> {as})

\* r1 has an address of the host as well, and r2 none.
Doubled == (h :> {ah} @@ r1 :> {a1, ah} @@ r2 :> {} @@ r3 :> {} @@ s :> {as})

Quiet == Setting(OneEach, Filters({}, {}, {}), NatsOf(NoNat, NoNat), Routes, Devices)

MCSettings ==
  {Quiet}
  \cup {Setting(OneEach, Filters(b1, b2, {}), NatsOf(NoNat, NoNat), Routes, c)
          : b1, b2 \in Bindings, c \in {Devices, Devices \ {r1}}}
  \cup {Setting(OneEach, Filters(b1, {}, b2), NatsOf(n1, NoNat), Routes, Devices)
          : b1 \in Bindings, b2 \in Bindings, n1 \in Nats \ {NoNat}}
  \cup {Setting(Doubled, Filters(b, {}, b), NatsOf(n1, n2), [d \in Devices |-> <<>>], Devices)
          : b \in Bindings, n1, n2 \in Nats}

\* The networks the filters and translations are tried in: a line in two orders, a
\* diamond, a ring with a tail, all links, and a server that is not connected.
Shapes ==
  { {{h, r1}, {r1, r2}, {r2, s}}, {{h, r2}, {r2, r1}, {r1, s}}, {{h, r1}, {h, r2}, {r1, s}, {r2, s}},
    {{h, r1}, {r1, r2}, {h, r2}, {r2, s}}, {p \in Pairs : r3 \notin p}, {{h, r1}, {r1, r2}} }

PathInit == /\ set \in Settings
            /\ links \in IF set = Quiet THEN Networks ELSE Shapes
            /\ src \in IF set = Quiet THEN {h} ELSE Devices \ {r3}
            /\ AclInit
=============================================================================
