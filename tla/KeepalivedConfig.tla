--------------------------- MODULE KeepalivedConfig ---------------------------
(***************************************************************************)
(* Which network of a node the ipvsdr provider registers and uses, and the *)
(* VRRP instances and virtual servers of the node's keepalived: the pure   *)
(* part of providers/ipvsdr.                                               *)
(*                                                                         *)
(* Names of nodes and interfaces and addresses are numbers, whose order    *)
(* stands for the order of the strings; 0 is the empty string. Addresses   *)
(* from FirstV6 on are IPv6.                                               *)
(***************************************************************************)
EXTENDS Integers, Sequences, FiniteSets, FiniteSetsExt, Functions

CONSTANTS Nodes,     \* the nodes that run a provider
          Ifaces,    \* the interfaces of each node
          NodeIP,    \* the address of each node's Kubernetes object
          Labels,    \* the addresses in its labels and annotations
          FirstV6,
          Nil        \* nil

\* An address of an interface: whether it is global unicast, and a host address,
\* with all bits of its mask set.
Address == [ip : Nat \ {0}, global : BOOLEAN, host : BOOLEAN]

\* skip: a loopback or a point-to-point interface.
Iface == [name : Nat \ {0}, skip : BOOLEAN, addrs : SUBSET Address]

ASSUME NetworkAssumption ==
    /\ Nodes \subseteq Nat \ {0}
    /\ IsFiniteSet(Nodes)
    /\ DOMAIN Ifaces = Nodes
    /\ \A n \in Nodes : /\ \A i \in Ifaces[n] : i \in Iface
                        /\ \A i, j \in Ifaces[n] : i.name = j.name => i = j
    /\ NodeIP \in [Nodes -> Nat]
    /\ DOMAIN Labels = Nodes
    /\ FirstV6 \in Nat

-----------------------------------------------------------------------------
(* The network of a node                                                    *)

getIPVersion(ip) == IF ip < FirstV6 THEN 4 ELSE 6

\* KeepalivedBind: iface and key are 0 when they are not given. A provider
\* without a bind has Nil. passive: its HA mode is ActivePassive.
Bind == [iface : Nat, key : Nat]
Keepalived == [bind : Bind \cup {Nil}, vips : Seq(Nat), passive : BOOLEAN]
Ipvs == [bind : Bind \cup {Nil}, vips : Seq(Nat), passive : BOOLEAN, slaves : Seq(Keepalived)]

getAllBinds(ipvs) == {kl.bind : kl \in {ipvs} \cup Range(ipvs.slaves)} \ {Nil}

\* What selects the interfaces of node n. The key of a bind goes before its iface.
getNodeNetSelector(n, binds) ==
    [k8sNodeIP |-> NodeIP[n],
     ifaces |-> {b.iface : b \in {b \in binds : b.key = 0}},
     ips |-> [k \in {b.key : b \in binds} \cap DOMAIN Labels[n] |-> Labels[n][k]]]

\* Mutant: host addresses, such as the VIPs keepalived adds, are not left out.
UsableHosts(i) == {a.ip : a \in {a \in i.addrs : a.global}}

Usable(i) == {a.ip : a \in {a \in i.addrs : a.global /\ ~a.host}}

selectIface(nns, i) ==
    \/ i.name \in nns.ifaces
    \/ nns.k8sNodeIP \in Usable(i)
    \/ Usable(i) \cap Range(nns.ips) # {}

\* The selected ones of the interfaces present on the node. An interface whose
\* addresses cannot be read is left out by the code; here they always can.
getCurrentNodeIfaceIPs(nns, present) ==
    {[name |-> i.name, ips |-> Usable(i)] : i \in {i \in present : ~i.skip /\ selectIface(nns, i)}}

\* The interface a provider uses on a node, and the address it prefers there, from
\* what the node has registered: a set with one element, or none.
getNodeNetwork(nns, nets, bind) ==
    LET preferred == IF bind = Nil THEN nns.k8sNodeIP
                     ELSE IF bind.key \in DOMAIN nns.ips THEN nns.ips[bind.key] ELSE 0
        byName == bind # Nil /\ bind.iface # 0
        found == {i \in nets : IF byName THEN i.name = bind.iface ELSE preferred \in i.ips}
    IN {[name |-> i.name, ips |-> i.ips,
         preferredIP |-> IF preferred \in i.ips THEN preferred ELSE 0] :
            i \in {i \in found : \A j \in found : i.name <= j.name}}

\* The preferred address, or the first of the version; 0 when there is none.
getIP(net, version) ==
    LET ips == {ip \in net.ips : getIPVersion(ip) = version} IN
    IF net.preferredIP \in ips THEN net.preferredIP
    ELSE IF ips = {} THEN 0 ELSE Min(ips)

\* The registered nodes with their network.
getIPs(nodes, status, ipvs, bind) ==
    UNION {{<<n, net>> : net \in getNodeNetwork(getNodeNetSelector(n, getAllBinds(ipvs)),
                                                status[n], bind)} :
              n \in {n \in nodes : status[n] # Nil}}

\* The network of node n among them: one, or none.
MyIface(n, nets) == {p[2] : p \in {p \in nets : p[1] = n}}

-----------------------------------------------------------------------------
(* keepalived.conf                                                          *)

\* VRRP priorities start at 100 and grow with the position among the sorted names.
getNodePriority(n, nodes) == 100 + 60 * Cardinality({m \in nodes : m < n})

\* Where the list of VIPs is not empty: empty ones are skipped.
getVIPs(kl) == {k \in DOMAIN kl.vips : kl.vips[k] # 0}

\* The last one of the positions before k: one, or none.
Previous(k, positions) ==
    {j \in positions : j < k /\ \A i \in positions : i < k => i <= j}

\* The VIPs that get an instance: those that differ in their version from the one
\* before.
Chosen(kl) ==
    {kl.vips[k] : k \in {k \in getVIPs(kl) : \A j \in Previous(k, getVIPs(kl)) :
                                getIPVersion(kl.vips[k]) # getIPVersion(kl.vips[j])}}

\* The VRRP instances of node n for provider kl: none when its interface is not
\* found, or has no address of a VIP's version. An instance is named after its
\* interface and its IP version.
Instances(n, nodes, nets, kl, vrid) ==
    {i \in {[name |-> <<my.name, getIPVersion(vip)>>,
             state |-> IF kl.passive /\ n = Max(nodes) THEN "MASTER" ELSE "BACKUP",
             vrid |-> vrid,
             priority |-> getNodePriority(n, nodes),
             myIP |-> getIP(my, getIPVersion(vip)),
             allIPs |-> {getIP(p[2], getIPVersion(vip)) : p \in nets} \ {0},
             vip |-> vip] : my \in MyIface(n, nets), vip \in Chosen(kl)} :
        i.myIP # 0}

\* The virtual servers of a provider whose nodes are all active.
Servers(instances, kl) ==
    IF kl.passive THEN {} ELSE {[vip |-> i.vip, realServer |-> i.allIPs] : i \in instances}

\* The slaves that are taken: the passive ones.
Slaves(ipvs) == {k \in DOMAIN ipvs.slaves : ipvs.slaves[k].passive}

\* Mutant: the slaves share the router id of the first provider.
SlaveVridShared(ipvs, k) == 110

\* Each slave that is taken gets a router id of its own.
SlaveVrid(ipvs, k) == 110 + Cardinality({j \in Slaves(ipvs) : j <= k})

\* The instances of node n for the provider itself and for its k-th slave.
MainInstances(n, nodes, status, ipvs) ==
    Instances(n, nodes, getIPs(nodes, status, ipvs, ipvs.bind), ipvs, 110)
SlaveInstances(n, nodes, status, ipvs, k) ==
    Instances(n, nodes, getIPs(nodes, status, ipvs, ipvs.slaves[k].bind), ipvs.slaves[k],
              SlaveVrid(ipvs, k))

\* The configuration of node n, whose interface for ipvs is known.
getKeepalivedConfig(n, nodes, status, ipvs, httpPort) ==
    LET main == MainInstances(n, nodes, status, ipvs) IN
    [instances |-> main \cup UNION {SlaveInstances(n, nodes, status, ipvs, k) :
                                        k \in Slaves(ipvs)},
     servers |-> Servers(main, ipvs), http |-> httpPort]

\* The addresses a keepalived with configuration conf may add to interface i: VIPs,
\* as host addresses.
WithVIPs(i, conf) ==
    [i EXCEPT !.addrs = @ \cup {[ip |-> v.vip, global |-> TRUE, host |-> TRUE] :
                                v \in {v \in conf.instances : v.name[1] = i.name}}]
=============================================================================
