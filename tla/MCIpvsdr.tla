------------------------------ MODULE MCIpvsdr -------------------------------
(* Instances of Ipvsdr for TLC: two nodes with two interfaces each, the     *)
(* first one with an IPv6 address on one node only.                         *)
EXTENDS Ipvsdr, TLC

Addr(ip) == [ip |-> ip, global |-> TRUE, host |-> FALSE]
Lo == [name |-> 9, skip |-> TRUE, addrs |-> {[ip |-> 1, global |-> FALSE, host |-> FALSE]}]

MCIfaces ==
    (1 :> {Lo, [name |-> 1, skip |-> FALSE, addrs |-> {Addr(11), Addr(111)}],
               [name |-> 2, skip |-> FALSE, addrs |-> {Addr(21)}]}) @@
    (2 :> {Lo, [name |-> 1, skip |-> FALSE, addrs |-> {Addr(10), Addr(12)}],
               [name |-> 2, skip |-> FALSE, addrs |-> {Addr(22)}]})
MCNodeIP == 1 :> 11 @@ 2 :> 12

\* The annotation is on the first node only.
MCLabels == 1 :> (7 :> 21) @@ 2 :> <<>>

Active == [bind |-> Nil, vips |-> <<5, 105>>, passive |-> FALSE, slaves |-> <<>>]
Slave(key, iface, vip) ==
    [bind |-> [iface |-> iface, key |-> key], vips |-> <<vip>>, passive |-> TRUE]

\* By name of the interface, with two slaves: on the node's own interface and where
\* the annotation says.
Bound ==
    [bind |-> [iface |-> 2, key |-> 0], vips |-> <<5>>, passive |-> TRUE,
     slaves |-> <<[Slave(0, 1, 6) EXCEPT !.passive = FALSE], Slave(0, 1, 7), Slave(7, 0, 8)>>]

Full == [on |-> TRUE, nodes |-> {1, 2}, ipvs |-> Active, http |-> 0]

\* A node leaves and the HTTP port changes, the provider is bound to an interface,
\* or to an address only one node has, with three VIPs.
MCSpecs == {Full, [Full EXCEPT !.nodes = {1}, !.http = 81], [Full EXCEPT !.ipvs = Bound],
            [Full EXCEPT !.ipvs.vips = <<5, 105, 6>>, !.ipvs.bind = [iface |-> 0, key |-> 7]]}

ASSUME VIPsAssumption == VIPsApart
=============================================================================
