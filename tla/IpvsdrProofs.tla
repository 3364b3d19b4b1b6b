---------------------------- MODULE IpvsdrProofs ------------------------------
(* Theorems about Ipvsdr, for any finite number of nodes, whatever their       *)
(* interfaces are, any specifications and any number of changes and failures.  *)
EXTENDS Ipvsdr, FiniteSetTheorems, WellFoundedInduction, TLAPS

-----------------------------------------------------------------------------
(* The data is well typed                                                   *)

\* A set of addresses has a first one.
LEMMA MinProperties ==
    ASSUME NEW S \in SUBSET Nat, S # {}
    PROVE  Min(S) \in S /\ \A y \in S : Min(S) <= y
  <1>1. PICK x \in S : \A y \in S : ~(<<y, x>> \in {ss \in Nat \X Nat : ss[1] < ss[2]})
    BY NatLessThanWellFounded, WFMin, Zenon DEF OpToRel
  <1>2. \A y \in S : y < x => <<y, x>> \in {ss \in Nat \X Nat : ss[1] < ss[2]}
    OBVIOUS
  <1>3. \A y \in S : ~(y < x)
    BY <1>1, <1>2
  <1>4. x \in S /\ \A y \in S : x <= y
    BY <1>3
  <1> QED
    BY <1>4, Zenon DEF Min

LEMMA SpecFields ==
    ASSUME NEW s \in Specs
    PROVE  /\ s.nodes \subseteq Nodes /\ IsFiniteSet(s.nodes)
           /\ s.http \in Nat
           /\ s.ipvs \in Ipvs
           /\ s.ipvs.vips \in Seq(Nat) /\ s.ipvs.slaves \in Seq(Keepalived)
  <1>1. s \in [on : BOOLEAN, nodes : SUBSET Nodes, ipvs : Ipvs, http : Nat]
    BY SpecsAssumption
  <1>2. s.nodes \subseteq Nodes /\ s.ipvs \in Ipvs /\ s.http \in Nat
    BY <1>1
  <1> QED
    BY <1>2, FS_Subset, NetworkAssumption DEF Ipvs

\* A network a provider has chosen on a node.
PreferredNet == [name : Nat, ips : SUBSET Nat, preferredIP : Nat]

LEMMA NetworkType ==
    ASSUME NEW nns, NEW nets \in Network, NEW bind
    PROVE  getNodeNetwork(nns, nets, bind) \subseteq PreferredNet
  <1> SUFFICES ASSUME NEW x \in getNodeNetwork(nns, nets, bind) PROVE x \in PreferredNet
    OBVIOUS
  <1>1. PICK i \in nets : \E p : /\ p \in i.ips \/ p = 0
                                /\ x = [name |-> i.name, ips |-> i.ips, preferredIP |-> p]
    BY DEF getNodeNetwork
  <1>2. PICK p : /\ p \in i.ips \/ p = 0
                 /\ x = [name |-> i.name, ips |-> i.ips, preferredIP |-> p]
    BY <1>1
  <1>3. i.name \in Nat /\ i.ips \in SUBSET Nat
    BY DEF Network
  <1> QED
    BY <1>2, <1>3 DEF PreferredNet

LEMMA NetsType ==
    ASSUME NEW nodes \in SUBSET Nodes, NEW status \in [Nodes -> Network \cup {Nil}],
           NEW ipvs, NEW bind
    PROVE  getIPs(nodes, status, ipvs, bind) \subseteq nodes \X PreferredNet
  <1> SUFFICES ASSUME NEW x \in getIPs(nodes, status, ipvs, bind) PROVE x \in nodes \X PreferredNet
    OBVIOUS
  <1>1. PICK n \in nodes : /\ status[n] # Nil
                           /\ \E net \in getNodeNetwork(
                                           getNodeNetSelector(n, getAllBinds(ipvs)),
                                           status[n], bind) : x = <<n, net>>
    BY DEF getIPs
  <1>2. status[n] \in Network
    BY <1>1
  <1>3. \A net \in getNodeNetwork(getNodeNetSelector(n, getAllBinds(ipvs)), status[n], bind) :
            net \in PreferredNet
    BY <1>2, NetworkType
  <1> QED
    BY <1>1, <1>3

LEMMA GetIPType ==
    ASSUME NEW net \in PreferredNet, NEW version
    PROVE  getIP(net, version) \in Nat
  <1> DEFINE ips == {ip \in net.ips : getIPVersion(ip) = version}
  <1>1. ips \in SUBSET Nat /\ net.preferredIP \in Nat
    BY DEF PreferredNet
  <1>2. ips # {} => Min(ips) \in Nat
    BY <1>1, MinProperties
  <1> QED
    BY <1>1, <1>2 DEF getIP

LEMMA MyIfaceType ==
    ASSUME NEW n, NEW nodes, NEW nets \in SUBSET (nodes \X PreferredNet), NEW my \in MyIface(n, nets)
    PROVE  my \in PreferredNet /\ <<n, my>> \in nets
  BY DEF MyIface

LEMMA ChosenVIPs ==
    ASSUME NEW kl, kl.vips \in Seq(Nat)
    PROVE  /\ Chosen(kl) \subseteq Range(kl.vips) \ {0}
           /\ Range(kl.vips) \subseteq Nat
  BY DEF Chosen, getVIPs, Range

LEMMA PriorityType ==
    ASSUME NEW nodes \in SUBSET Nodes, NEW n
    PROVE  getNodePriority(n, nodes) \in Nat
  <1>1. IsFiniteSet({m \in nodes : m < n})
    BY FS_Subset, NetworkAssumption
  <1>2. Cardinality({m \in nodes : m < n}) \in Nat
    BY <1>1, FS_CardinalityType
  <1> QED
    BY <1>2 DEF getNodePriority

LEMMA InstancesType ==
    ASSUME NEW n, NEW nodes \in SUBSET Nodes, NEW nets \in SUBSET (nodes \X PreferredNet), NEW kl,
           kl.vips \in Seq(Nat), NEW vrid \in Nat
    PROVE  Instances(n, nodes, nets, kl, vrid) \subseteq Instance
  <1> SUFFICES ASSUME NEW x \in Instances(n, nodes, nets, kl, vrid) PROVE x \in Instance
    OBVIOUS
  <1>1. PICK my \in MyIface(n, nets), vip \in Chosen(kl) :
            x = [name |-> <<my.name, getIPVersion(vip)>>,
                 state |-> IF kl.passive /\ n = Max(nodes) THEN "MASTER" ELSE "BACKUP",
                 vrid |-> vrid,
                 priority |-> getNodePriority(n, nodes),
                 myIP |-> getIP(my, getIPVersion(vip)),
                 allIPs |-> {getIP(p[2], getIPVersion(vip)) : p \in nets} \ {0},
                 vip |-> vip]
    BY DEF Instances
  <1>2. my \in PreferredNet
    BY MyIfaceType
  <1>3. <<my.name, getIPVersion(vip)>> \in Nat \X {4, 6}
    BY <1>2 DEF PreferredNet, getIPVersion
  <1>4. vip \in Nat
    BY ChosenVIPs
  <1>5. getNodePriority(n, nodes) \in Nat
    BY PriorityType
  <1>6. getIP(my, getIPVersion(vip)) \in Nat
    BY <1>2, GetIPType
  <1>7. {getIP(p[2], getIPVersion(vip)) : p \in nets} \ {0} \subseteq Nat
    BY GetIPType
  <1> QED
    BY <1>1, <1>3, <1>4, <1>5, <1>6, <1>7 DEF Instance

LEMMA SlaveVridType ==
    ASSUME NEW ipvs \in Ipvs, NEW k
    PROVE  /\ IsFiniteSet(Slaves(ipvs))
           /\ SlaveVrid(ipvs, k) \in Nat
           /\ k \in Slaves(ipvs) => ipvs.slaves[k] \in Keepalived /\ SlaveVrid(ipvs, k) > 110
  <1>1. ipvs.slaves \in Seq(Keepalived)
    BY DEF Ipvs
  <1>2. IsFiniteSet(1..Len(ipvs.slaves))
    BY <1>1, FS_Interval
  <1>3. Slaves(ipvs) \subseteq 1..Len(ipvs.slaves)
    BY <1>1 DEF Slaves
  <1>4. IsFiniteSet(Slaves(ipvs))
    BY <1>2, <1>3, FS_Subset
  <1>5. IsFiniteSet({j \in Slaves(ipvs) : j <= k})
    BY <1>4, FS_Subset
  <1>6. Cardinality({j \in Slaves(ipvs) : j <= k}) \in Nat
    BY <1>5, FS_CardinalityType
  <1>7. ASSUME k \in Slaves(ipvs)
        PROVE  ipvs.slaves[k] \in Keepalived /\ SlaveVrid(ipvs, k) > 110
    <2>1. k \in {j \in Slaves(ipvs) : j <= k}
      BY <1>3, <1>7
    <2>2. Cardinality({j \in Slaves(ipvs) : j <= k}) # 0
      BY <1>5, <2>1, FS_EmptySet
    <2> QED
      BY <1>1, <1>3, <1>6, <1>7, <2>2 DEF SlaveVrid
  <1> QED
    BY <1>4, <1>6, <1>7 DEF SlaveVrid

LEMMA HTTPType ==
    ASSUME NEW o \in Object
    PROVE  GetHTTPPort(o) \in Nat
  <1>1. o.spec.http \in Nat
    BY SpecFields DEF Object
  <1>2. 80 \in Nat
    OBVIOUS
  <1> QED
    BY <1>1, <1>2 DEF GetHTTPPort

LEMMA KeepalivedType ==
    ASSUME NEW n, NEW o \in Object
    PROVE  KeepalivedOf(n, o) \in KeepalivedConf
  <1> DEFINE s == o.spec
             main == MainInstances(n, s.nodes, o.status, s.ipvs)
             slave(k) == SlaveInstances(n, s.nodes, o.status, s.ipvs, k)
  <1>1. s \in Specs /\ o.status \in [Nodes -> Network \cup {Nil}]
    BY DEF Object
  <1>2. /\ s.nodes \in SUBSET Nodes /\ s.ipvs \in Ipvs /\ s.ipvs.vips \in Seq(Nat)
    BY <1>1, SpecFields
  <1>3. main \subseteq Instance
    <2>1. getIPs(s.nodes, o.status, s.ipvs, s.ipvs.bind) \in SUBSET (s.nodes \X PreferredNet)
      BY <1>1, <1>2, NetsType
    <2> QED
      BY <1>2, <2>1, InstancesType DEF MainInstances
  <1>4. ASSUME NEW k \in Slaves(s.ipvs) PROVE slave(k) \subseteq Instance
    <2>1. getIPs(s.nodes, o.status, s.ipvs, s.ipvs.slaves[k].bind) \in SUBSET (s.nodes \X PreferredNet)
      BY <1>1, <1>2, NetsType
    <2>2. s.ipvs.slaves[k].vips \in Seq(Nat) /\ SlaveVrid(s.ipvs, k) \in Nat
      BY <1>2, SlaveVridType DEF Keepalived
    <2> QED
      BY <1>2, <2>1, <2>2, InstancesType DEF SlaveInstances
  <1>5. Servers(main, s.ipvs) \subseteq [vip : Nat, realServer : SUBSET Nat]
    BY <1>3 DEF Servers, Instance
  <1>6. GetHTTPPort(o) \in Nat
    BY HTTPType
  <1>7. KeepalivedOf(n, o) = [instances |-> main \cup UNION {slave(k) : k \in Slaves(s.ipvs)},
                              servers |-> Servers(main, s.ipvs), http |-> GetHTTPPort(o)]
    BY DEF KeepalivedOf, getKeepalivedConfig
  <1>8. main \cup UNION {slave(k) : k \in Slaves(s.ipvs)} \subseteq Instance
    BY <1>3, <1>4
  <1> QED
    BY <1>5, <1>6, <1>7, <1>8 DEF KeepalivedConf

LEMMA IptablesType ==
    ASSUME NEW n, NEW o \in Object, NEW p \in Ports
    PROVE  IptablesOf(n, o, p) \subseteq IptablesConf
  <1> DEFINE s == o.spec
             nets == getIPs(s.nodes, o.status, s.ipvs, s.ipvs.bind)
  <1>1. s \in Specs /\ o.status \in [Nodes -> Network \cup {Nil}]
    BY DEF Object
  <1>2. /\ s.nodes \in SUBSET Nodes /\ s.ipvs \in Ipvs /\ s.ipvs.vips \in Seq(Nat)
    BY <1>1, SpecFields
  <1>3. nets \in SUBSET (s.nodes \X PreferredNet)
    BY <1>1, <1>2, NetsType
  <1>4. {s.ipvs.vips[k] : k \in getVIPs(s.ipvs)} \subseteq Nat
    BY <1>2 DEF getVIPs
  <1>5. {<<q[1], q[2].name>> : q \in nets} \subseteq Nodes \X Nat
    BY <1>2, <1>3 DEF PreferredNet
  <1>6. ASSUME NEW my \in MyIface(n, nets) PROVE my.name \in Nat
    <2>1. my \in PreferredNet
      BY <1>3, MyIfaceType
    <2> QED
      BY <2>1 DEF PreferredNet
  <1> QED
    BY <1>4, <1>5, <1>6 DEF IptablesOf, IptablesConf

\* The network a node registers for object o. The VIPs its keepalived may have
\* added are host addresses, and change nothing.
Mine(n, o) == getCurrentNodeIfaceIPs(getNodeNetSelector(n, getAllBinds(o.spec.ipvs)), Ifaces[n])

LEMMA WithVIPsUsable ==
    ASSUME NEW i \in Iface, NEW conf
    PROVE  /\ Usable(WithVIPs(i, conf)) = Usable(i)
           /\ WithVIPs(i, conf).name = i.name
           /\ WithVIPs(i, conf).skip = i.skip
  <1> DEFINE added == {[ip |-> v.vip, global |-> TRUE, host |-> TRUE] :
                         v \in {v \in conf.instances : v.name[1] = i.name}}
  <1>1. /\ WithVIPs(i, conf).addrs = i.addrs \cup added
        /\ WithVIPs(i, conf).name = i.name
        /\ WithVIPs(i, conf).skip = i.skip
    BY DEF WithVIPs, Iface
  <1>2. \A a \in added : a.host = TRUE
    OBVIOUS
  <1>3. {a \in i.addrs \cup added : a.global /\ ~a.host} = {a \in i.addrs : a.global /\ ~a.host}
    BY <1>2
  <1> QED
    BY <1>1, <1>3 DEF Usable

LEMMA NetworkUnique ==
    ASSUME NEW n \in Nodes, NEW o
    PROVE  /\ CurrentNetworks(n, o) = {Mine(n, o)}
           /\ Mine(n, o) \in Network
  <1> DEFINE nns == getNodeNetSelector(n, getAllBinds(o.spec.ipvs))
  <1>1. \A i \in Ifaces[n] : i \in Iface
    BY NetworkAssumption
  <1>2. \A i \in Ifaces[n] : i.name \in Nat \ {0} /\ Usable(i) \subseteq Nat
    BY <1>1 DEF Iface, Usable, Address
  <1>3. Mine(n, o) \in Network
    BY <1>2 DEF Mine, getCurrentNodeIfaceIPs, Network
  <1>4. ASSUME NEW conf
        PROVE  getCurrentNodeIfaceIPs(nns, {WithVIPs(i, conf) : i \in Ifaces[n]}) = Mine(n, o)
    <2> DEFINE w(i) == WithVIPs(i, conf)
    <2>1. \A i \in Ifaces[n] : /\ Usable(w(i)) = Usable(i)
                               /\ w(i).name = i.name /\ w(i).skip = i.skip
      BY <1>1, WithVIPsUsable
    <2>2. \A i \in Ifaces[n] : selectIface(nns, w(i)) <=> selectIface(nns, i)
      BY <2>1 DEF selectIface
    <2> DEFINE net(i) == [name |-> i.name, ips |-> Usable(i)]
               taken(i) == ~i.skip /\ selectIface(nns, i)
    <2>3. \A i \in Ifaces[n] : net(w(i)) = net(i) /\ (taken(w(i)) <=> taken(i))
      BY <2>1, <2>2
    <2> HIDE DEF w, net, taken
    <2>4. {net(j) : j \in {j \in {w(i) : i \in Ifaces[n]} : taken(j)}}
            = {net(i) : i \in {i \in Ifaces[n] : taken(i)}}
      BY <2>3
    <2> QED
      BY <2>4 DEF Mine, getCurrentNodeIfaceIPs, w, net, taken
  <1>5. getCurrentNodeIfaceIPs(nns, Ifaces[n]) = Mine(n, o)
    BY DEF Mine
  <1>6. CurrentNetworks(n, o) = {Mine(n, o)}
    BY <1>4, <1>5, Zenon DEF CurrentNetworks
  <1> QED
    BY <1>3, <1>6

-----------------------------------------------------------------------------
(* Type correctness                                                         *)

\* A running OnUpdate has an object and its ports.
Working == \A n \in Nodes : pc[n] # "idle" => obj[n] \in Object /\ ports[n] \in Ports

TypeInv == TypeOK /\ Working

LEMMA AssignType ==
    ASSUME NEW o, NEW rv, NEW status \in [Nodes -> Network \cup {Nil}]
    PROVE  /\ o \in Object => Assign(o, rv, status) \in Object
           /\ o \in Object \cup {Nil} => Assign(o, rv, status) \in Object \cup {Nil}
           /\ Assign(Nil, rv, status) = Nil
           /\ o \in Object => /\ Assign(o, rv, status).rv = o.rv
                              /\ Assign(o, rv, status).spec = o.spec
                              /\ Assign(o, rv, status).status
                                   = IF o.rv = rv THEN status ELSE o.status
  <1>1. Assign(Nil, rv, status) = Nil
    BY DEF Assign
  <1>2. ASSUME o \in Object
        PROVE  /\ Assign(o, rv, status) \in Object
               /\ Assign(o, rv, status).rv = o.rv
               /\ Assign(o, rv, status).spec = o.spec
               /\ Assign(o, rv, status).status = IF o.rv = rv THEN status ELSE o.status
    <2>1. o # Nil
      BY <1>2, NilAssumption
    <2>2. CASE o.rv = rv
      BY <1>2, <2>1, <2>2 DEF Assign, Object
    <2>3. CASE o.rv # rv
      BY <1>2, <2>3 DEF Assign
    <2> QED
      BY <2>2, <2>3
  <1> QED
    BY <1>1, <1>2

LEMMA RegisteredType ==
    ASSUME NEW n, NEW o \in Object, NEW my \in Network
    PROVE  Registered(n, o, my) \in [Nodes -> Network \cup {Nil}]
  BY DEF Registered, Object

LEMMA ReturnType ==
    ASSUME TypeInv, NEW n \in Nodes, NEW ok \in BOOLEAN, Return(n, ok)
    PROVE  /\ pending' \in [Nodes -> BOOLEAN]
           /\ retries' \in [Nodes -> 0..MaxRetries]
           /\ dropped' \in [Nodes -> BOOLEAN]
           /\ pc' \in [Nodes -> {"idle", "register", "update", "iptables", "keepalived"}]
           /\ obj' \in [Nodes -> Object \cup {Nil}]
           /\ lbChange' \in [Nodes -> BOOLEAN]
           /\ ports' \in [Nodes -> Ports \cup {Nil}]
           /\ Working'
  <1> DEFINE retry == ~ok /\ retries[n] < MaxRetries
  <1>1. /\ pc' = [pc EXCEPT ![n] = "idle"]
        /\ obj' = [obj EXCEPT ![n] = Nil]
        /\ lbChange' = [lbChange EXCEPT ![n] = FALSE]
        /\ ports' = [ports EXCEPT ![n] = Nil]
        /\ retries' = [retries EXCEPT ![n] = IF retry THEN retries[n] + 1 ELSE 0]
        /\ pending' = [pending EXCEPT ![n] = pending[n] \/ retry]
        /\ dropped' = [dropped EXCEPT ![n] = ~ok /\ ~retry]
    BY DEF Return
  <1>2. (IF retry THEN retries[n] + 1 ELSE 0) \in 0..MaxRetries
    BY IpvsdrAssumption DEF TypeInv, TypeOK
  <1>3. retries' \in [Nodes -> 0..MaxRetries]
    BY <1>1, <1>2 DEF TypeInv, TypeOK
  <1>4. pending' \in [Nodes -> BOOLEAN] /\ dropped' \in [Nodes -> BOOLEAN]
    BY <1>1 DEF TypeInv, TypeOK
  <1>5. /\ pc' \in [Nodes -> {"idle", "register", "update", "iptables", "keepalived"}]
        /\ obj' \in [Nodes -> Object \cup {Nil}]
        /\ lbChange' \in [Nodes -> BOOLEAN]
        /\ ports' \in [Nodes -> Ports \cup {Nil}]
    BY <1>1 DEF TypeInv, TypeOK
  <1>6. Working'
    BY <1>1 DEF TypeInv, TypeOK, Working
  <1> QED
    BY <1>3, <1>4, <1>5, <1>6

\* What OnUpdate works with is typed.
LEMMA ObjectType ==
    ASSUME TypeInv, NEW n \in Nodes
    PROVE  /\ store[n] \in Object
           /\ pc[n] # "idle" => obj[n] \in Object /\ ports[n] \in Ports
           /\ PortsOf(store[n], cmStore[n]) \in Ports
  <1>1. store[n] \in Object /\ cmStore[n] \in 0..MaxCM
    BY DEF TypeInv, TypeOK
  <1>2. GetHTTPPort(store[n]) \in Nat
    BY <1>1, HTTPType
  <1> QED
    BY <1>1, <1>2 DEF TypeInv, Working, PortsOf, Ports

LEMMA UpdateType ==
    ASSUME TypeInv, NEW n \in Nodes, pc[n] # "idle",
           api' = [rv |-> api.rv + 1, spec |-> obj[n].spec, status |-> obj[n].status]
    PROVE  api' \in Object
  <1>1. obj[n] \in Object /\ api \in Object
    BY ObjectType DEF TypeInv, TypeOK
  <1> QED
    BY <1>1 DEF Object

LEMMA TypeInvCorrect == Spec => []TypeInv
  <1>1. Init => TypeInv
    <2> SUFFICES ASSUME Init PROVE TypeInv
      OBVIOUS
    <2>1. api \in Object
      BY SpecsAssumption DEF Init, Object
    <2>2. 0 \in 0..MaxSpecWrites /\ 0 \in 0..MaxCM /\ 0 \in 0..MaxRetries
      BY IpvsdrAssumption
    <2>3. TypeOK
      BY <2>1, <2>2 DEF Init, TypeOK
    <2> QED
      BY <2>3 DEF Init, TypeInv, Working
  <1>2. TypeInv /\ [Next]_vars => TypeInv'
    <2> SUFFICES ASSUME TypeInv, [Next]_vars PROVE TypeInv'
      OBVIOUS
    <2>1. ASSUME NEW s \in Specs, WriteSpec(s) PROVE TypeInv'
      <3>1. api' \in Object
        BY <2>1 DEF WriteSpec, TypeInv, TypeOK, Object
      <3>2. writes' \in 0..MaxSpecWrites
        BY <2>1, IpvsdrAssumption DEF WriteSpec, TypeInv, TypeOK
      <3> QED
        BY <2>1, <3>1, <3>2 DEF WriteSpec, TypeInv, TypeOK, Working, nodeVars
    <2>2. ASSUME NEW n \in Nodes, Watch(n) PROVE TypeInv'
      BY <2>2 DEF Watch, TypeInv, TypeOK, Working
    <2>3. ASSUME NEW n \in Nodes, WatchCM(n) PROVE TypeInv'
      <3>1. cmStore[n] + 1 \in 0..MaxCM
        BY <2>3, IpvsdrAssumption DEF WatchCM, TypeInv, TypeOK
      <3>2. cmStore' \in [Nodes -> 0..MaxCM]
        BY <2>3, <3>1 DEF WatchCM, TypeInv, TypeOK
      <3> QED
        BY <2>3, <3>2 DEF WatchCM, TypeInv, TypeOK, Working
    <2>4. ASSUME NEW n \in Nodes, OnUpdate(n) PROVE TypeInv'
      <3>1. store[n] \in Object /\ PortsOf(store[n], cmStore[n]) \in Ports
        BY ObjectType
      <3>2. isLBChanged(n, store[n]) \in BOOLEAN
        BY DEF isLBChanged
      <3>3. 0 \in 0..MaxRetries
        BY IpvsdrAssumption
      <3>4. UNCHANGED <<api, writes, store, cmStore, cache, iptables, file, cfgMD5, keepalived, hit>>
        BY <2>4 DEF OnUpdate
      <3>5. CASE /\ pc' = [pc EXCEPT ![n] = "register"]
                 /\ obj' = [obj EXCEPT ![n] = store[n]]
                 /\ lbChange' = [lbChange EXCEPT ![n] = isLBChanged(n, store[n])]
                 /\ ports' = [ports EXCEPT ![n] = PortsOf(store[n], cmStore[n])]
                 /\ pending' = [pending EXCEPT ![n] = FALSE]
                 /\ UNCHANGED <<retries, dropped>>
        <4>1. TypeOK'
          BY <3>1, <3>2, <3>4, <3>5 DEF TypeInv, TypeOK
        <4>2. Working'
          BY <3>1, <3>5 DEF TypeInv, TypeOK, Working
        <4> QED
          BY <4>1, <4>2 DEF TypeInv
      <3>6. CASE /\ pending' = [pending EXCEPT ![n] = FALSE]
                 /\ retries' = [retries EXCEPT ![n] = 0]
                 /\ dropped' = [dropped EXCEPT ![n] = FALSE]
                 /\ UNCHANGED <<pc, obj, lbChange, ports>>
        <4>1. TypeOK'
          BY <3>3, <3>4, <3>6 DEF TypeInv, TypeOK
        <4> QED
          BY <3>6, <4>1 DEF TypeInv, Working
      <3> QED
        BY <2>4, <3>5, <3>6 DEF OnUpdate
    <2>5. ASSUME NEW n \in Nodes, registerNodeNetwork(n) PROVE TypeInv'
      <3>1. obj[n] \in Object /\ pc[n] = "register"
        BY <2>5, ObjectType DEF registerNodeNetwork
      <3> DEFINE new == Registered(n, obj[n], Mine(n, obj[n]))
      <3>2. new \in [Nodes -> Network \cup {Nil}]
        BY <3>1, NetworkUnique, RegisteredType
      <3>3. UNCHANGED <<api, writes, cmStore, pending, retries, dropped, lbChange, ports,
                        iptables, file, cfgMD5, keepalived, hit>>
        BY <2>5 DEF registerNodeNetwork
      <3>4. CASE pc' = [pc EXCEPT ![n] = "iptables"] /\ UNCHANGED <<obj, store, cache>>
        <4>1. TypeOK'
          BY <3>3, <3>4 DEF TypeInv, TypeOK
        <4> QED
          BY <3>1, <3>3, <3>4, <4>1 DEF TypeInv, TypeOK, Working
      <3>5. CASE /\ pc' = [pc EXCEPT ![n] = "update"]
                 /\ obj' = [obj EXCEPT ![n] = Assign(@, obj[n].rv, new)]
                 /\ store' = [store EXCEPT ![n] = Assign(@, obj[n].rv, new)]
                 /\ cache' = [cache EXCEPT ![n].lb = Assign(@, obj[n].rv, new)]
        <4>1. Assign(obj[n], obj[n].rv, new) \in Object
          BY <3>1, <3>2, AssignType
        <4>2. Assign(store[n], obj[n].rv, new) \in Object
          BY <3>2, AssignType DEF TypeInv, TypeOK
        <4>3. Assign(cache[n].lb, obj[n].rv, new) \in Object \cup {Nil}
          BY <3>2, AssignType DEF TypeInv, TypeOK
        <4>4. cache' \in [Nodes -> [lb : Object \cup {Nil}, ports : Ports \cup {Nil}]]
          BY <3>5, <4>3 DEF TypeInv, TypeOK
        <4>5. TypeOK'
          BY <3>3, <3>5, <4>1, <4>2, <4>4 DEF TypeInv, TypeOK
        <4>6. Working'
          BY <3>1, <3>3, <3>5, <4>1 DEF TypeInv, TypeOK, Working
        <4> QED
          BY <4>5, <4>6 DEF TypeInv
      <3> QED
        BY <2>5, <3>4, <3>5, NetworkUnique DEF registerNodeNetwork
    <2>6. ASSUME NEW n \in Nodes, UpdateLB(n) PROVE TypeInv'
      <3>1. api' \in Object
        BY <2>6, UpdateType DEF UpdateLB, TypeInv, TypeOK
      <3> QED
        BY <2>6, <3>1, ReturnType DEF UpdateLB, TypeInv, TypeOK
    <2>7. ASSUME NEW n \in Nodes, NoSelfIface(n) PROVE TypeInv'
      BY <2>7, ReturnType DEF NoSelfIface, TypeInv, TypeOK
    <2>8. ASSUME NEW n \in Nodes, onUpdateIPtables(n) PROVE TypeInv'
      <3>1. obj[n] \in Object /\ ports[n] \in Ports
        BY <2>8, ObjectType DEF onUpdateIPtables
      <3>2. iptables' \in [Nodes -> IptablesConf \cup {Nil}]
        <4>1. PICK new \in IptablesOf(n, obj[n], ports[n]) :
                  iptables' = [iptables EXCEPT ![n] = new]
          BY <2>8 DEF onUpdateIPtables
        <4>2. new \in IptablesConf
          BY <3>1, IptablesType
        <4> QED
          BY <4>1, <4>2 DEF TypeInv, TypeOK
      <3>3. CASE lbChange[n]
        BY <2>8, <3>1, <3>2, <3>3 DEF onUpdateIPtables, TypeInv, TypeOK, Working
      <3>4. CASE ~lbChange[n]
        <4>1. cache' = [cache EXCEPT ![n] = [lb |-> obj[n], ports |-> ports[n]]] /\ Return(n, TRUE)
          BY <2>8, <3>4 DEF onUpdateIPtables
        <4>2. cache' \in [Nodes -> [lb : Object \cup {Nil}, ports : Ports \cup {Nil}]]
          BY <3>1, <4>1 DEF TypeInv, TypeOK
        <4> QED
          BY <2>8, <3>2, <4>1, <4>2, ReturnType DEF onUpdateIPtables, TypeInv, TypeOK
      <3> QED
        BY <3>3, <3>4
    <2>9. ASSUME NEW n \in Nodes, onUpdateKeepalived(n) PROVE TypeInv'
      <3>1. obj[n] \in Object /\ ports[n] \in Ports
        BY <2>9, ObjectType DEF onUpdateKeepalived
      <3>2. KeepalivedOf(n, obj[n]) \in KeepalivedConf
        BY <3>1, KeepalivedType
      <3>3. file' \in [Nodes -> KeepalivedConf \cup {Nil}] /\ hit' \subseteq FaultKinds
        <4>1. CASE file' = [file EXCEPT ![n] = KeepalivedOf(n, obj[n])] /\ UNCHANGED hit
          BY <3>2, <4>1 DEF TypeInv, TypeOK
        <4>2. CASE Fault("write") /\ UNCHANGED file
          BY <4>2 DEF Fault, FaultKinds, TypeInv, TypeOK
        <4> QED
          BY <2>9, <4>1, <4>2 DEF onUpdateKeepalived
      <3>4. /\ cfgMD5' \in [Nodes -> KeepalivedConf \cup {Nil}]
            /\ keepalived' \in [Nodes -> KeepalivedConf \cup {Nil}]
        BY <2>9, <3>3 DEF onUpdateKeepalived, TypeInv, TypeOK
      <3>5. cache' \in [Nodes -> [lb : Object \cup {Nil}, ports : Ports \cup {Nil}]]
        BY <2>9, <3>1 DEF onUpdateKeepalived, TypeInv, TypeOK
      <3> QED
        BY <2>9, <3>3, <3>4, <3>5, ReturnType DEF onUpdateKeepalived, TypeInv, TypeOK
    <2>10. ASSUME NEW n \in Nodes, Failure(n) PROVE TypeInv'
      <3>1. hit' \subseteq FaultKinds /\ Return(n, FALSE)
        BY <2>10 DEF Failure, LocalError, UpdateError, UpdateLost, ReloadError, Fault, FaultKinds,
                     TypeInv, TypeOK
      <3>2. /\ UNCHANGED <<writes, store, cmStore, cache, iptables, keepalived>>
            /\ api' \in Object
        BY <2>10, UpdateType DEF Failure, LocalError, UpdateError, UpdateLost, ReloadError,
                                 TypeInv, TypeOK
      <3>3. /\ file' \in [Nodes -> KeepalivedConf \cup {Nil}]
            /\ cfgMD5' \in [Nodes -> KeepalivedConf \cup {Nil}]
        <4>1. CASE UNCHANGED <<file, cfgMD5>>
          BY <4>1 DEF TypeInv, TypeOK
        <4>2. CASE ReloadError(n)
          <5>1. KeepalivedOf(n, obj[n]) \in KeepalivedConf
            BY <4>2, ObjectType, KeepalivedType DEF ReloadError
          <5> QED
            BY <4>2, <5>1 DEF ReloadError, TypeInv, TypeOK
        <4> QED
          BY <2>10, <4>1, <4>2 DEF Failure, LocalError, UpdateError, UpdateLost
      <3> QED
        BY <3>1, <3>2, <3>3, ReturnType DEF TypeInv, TypeOK
    <2>11. CASE UNCHANGED vars
      BY <2>11 DEF vars, nodeVars, TypeInv, TypeOK, Working
    <2> QED
      BY <2>1, <2>2, <2>3, <2>4, <2>5, <2>6, <2>7, <2>8, <2>9, <2>10, <2>11 DEF Next, Sync
  <1> QED
    BY <1>1, <1>2, PTL DEF Spec

\* Every reachable state is well typed: what OnUpdate registers, writes to its
\* chains and to keepalived.conf is always a network, a set of rules and a
\* configuration, and the retry counter stays within its limit.
THEOREM TypeCorrect == Spec => []TypeOK
  <1>1. TypeInv => TypeOK
    BY DEF TypeInv
  <1> QED
    BY <1>1, TypeInvCorrect, PTL

-----------------------------------------------------------------------------
(* Versions                                                                 *)

\* What a step of node k leaves alone on node n.
LEMMA Frame ==
    ASSUME TypeInv, NEW k \in Nodes, Watch(k) \/ WatchCM(k) \/ Sync(k) \/ Failure(k),
           NEW n \in Nodes, n # k
    PROVE  UNCHANGED <<store[n], cmStore[n], pending[n], dropped[n], pc[n], obj[n], lbChange[n],
                       ports[n], cache[n], iptables[n], file[n], cfgMD5[n], keepalived[n]>>
  <1>1. ASSUME NEW ok, Return(k, ok)
        PROVE  UNCHANGED <<pending[n], dropped[n], pc[n], obj[n], lbChange[n], ports[n]>>
    BY <1>1 DEF Return, TypeInv, TypeOK
  <1>2. CASE Watch(k) \/ WatchCM(k)
    BY <1>2 DEF Watch, WatchCM, TypeInv, TypeOK
  <1>3. CASE OnUpdate(k)
    BY <1>3 DEF OnUpdate, TypeInv, TypeOK
  <1>4. CASE registerNodeNetwork(k)
    BY <1>4 DEF registerNodeNetwork, TypeInv, TypeOK
  <1>5. CASE UpdateLB(k) \/ NoSelfIface(k) \/ LocalError(k) \/ UpdateError(k) \/ UpdateLost(k)
    BY <1>1, <1>5 DEF UpdateLB, NoSelfIface, LocalError, UpdateError, UpdateLost
  <1>6. CASE onUpdateIPtables(k)
    BY <1>1, <1>6 DEF onUpdateIPtables, TypeInv, TypeOK
  <1>7. CASE onUpdateKeepalived(k)
    BY <1>1, <1>7 DEF onUpdateKeepalived, TypeInv, TypeOK
  <1>8. CASE ReloadError(k)
    BY <1>1, <1>8 DEF ReloadError, TypeInv, TypeOK
  <1> QED
    BY <1>2, <1>3, <1>4, <1>5, <1>6, <1>7, <1>8 DEF Sync, Failure

\* Every write of the object gives it a new version.
LEMMA NewVersion ==
    ASSUME TypeInv, [Next]_vars
    PROVE  api' = api \/ api'.rv = api.rv + 1
  <1>1. ASSUME NEW n \in Nodes, Watch(n) \/ WatchCM(n) \/ OnUpdate(n) \/ registerNodeNetwork(n)
                                \/ NoSelfIface(n) \/ onUpdateIPtables(n)
                                \/ onUpdateKeepalived(n) \/ LocalError(n) \/ UpdateError(n)
                                \/ ReloadError(n)
        PROVE  api' = api
    BY <1>1 DEF Watch, WatchCM, OnUpdate, registerNodeNetwork, NoSelfIface, onUpdateIPtables,
                onUpdateKeepalived, LocalError, UpdateError, ReloadError
  <1>2. ASSUME NEW s \in Specs, WriteSpec(s) PROVE api'.rv = api.rv + 1
    BY <1>2 DEF WriteSpec
  <1>3. ASSUME NEW n \in Nodes, UpdateLB(n) \/ UpdateLost(n)
        PROVE  api' = api \/ api'.rv = api.rv + 1
    <2>1. \/ api' = api
          \/ api' = [rv |-> api.rv + 1, spec |-> obj[n].spec, status |-> obj[n].status]
      BY <1>3, Zenon DEF UpdateLB, UpdateLost
    <2> QED
      BY <2>1
  <1>4. CASE UNCHANGED vars
    BY <1>4 DEF vars
  <1> QED
    BY <1>1, <1>2, <1>3, <1>4 DEF Next, Sync, Failure

\* An object in the memory of node n is not newer than the one at the API server
\* and, when it is the same version, differs from it in its own registration at most.
Derived(n, o, server) ==
    /\ o.rv <= server.rv
    /\ o.rv = server.rv => /\ o.spec = server.spec
                           /\ \A m \in o.spec.nodes \ {n} : o.status[m] = server.status[m]

\* On one node, equal versions mean the same object.
Alias(x, y) == x.rv = y.rv => x = y

Versions(n) ==
    /\ Derived(n, store[n], api)
    /\ pc[n] # "idle" => /\ Derived(n, obj[n], api)
                         /\ obj[n].rv <= store[n].rv
                         /\ Alias(obj[n], store[n])
    /\ cache[n].lb # Nil => /\ cache[n].lb.rv <= store[n].rv
                            /\ Alias(cache[n].lb, store[n])
                            /\ pc[n] # "idle" => Alias(cache[n].lb, obj[n])

VersionInv == \A n \in Nodes : Versions(n)

LEMMA DerivedKept ==
    ASSUME TypeInv, [Next]_vars, NEW n, NEW o \in Object, Derived(n, o, api)
    PROVE  Derived(n, o, api')
  <1>1. CASE api' = api
    BY <1>1
  <1>2. CASE api'.rv = api.rv + 1
    <2>1. api.rv \in Nat /\ o.rv \in Nat
      BY DEF TypeInv, TypeOK, Object
    <2> QED
      BY <1>2, <2>1 DEF Derived
  <1> QED
    BY <1>1, <1>2, NewVersion

\* The objects of a node stay as they are: only the server may get a new one.
LEMMA VersionsKept ==
    ASSUME TypeInv, [Next]_vars, NEW n \in Nodes, Versions(n),
           UNCHANGED <<store[n], cache[n]>>,
           pc'[n] # "idle" => pc[n] # "idle" /\ obj'[n] = obj[n]
    PROVE  Versions(n)'
  <1>1. Derived(n, store[n], api')
    BY ObjectType, DerivedKept DEF Versions
  <1>2. pc[n] # "idle" => Derived(n, obj[n], api')
    BY ObjectType, DerivedKept DEF Versions
  <1> QED
    BY <1>1, <1>2 DEF Versions

\* OnUpdate has ended: its object may be in the cache now.
LEMMA VersionsReturn ==
    ASSUME TypeInv, [Next]_vars, NEW n \in Nodes, Versions(n), pc[n] # "idle", pc'[n] = "idle",
           store'[n] = store[n], cache'[n] = cache[n] \/ cache'[n].lb = obj[n]
    PROVE  Versions(n)'
  <1>1. Derived(n, store[n], api')
    BY ObjectType, DerivedKept DEF Versions
  <1> QED
    BY <1>1 DEF Versions

LEMMA ReturnIdle ==
    ASSUME TypeInv, NEW n \in Nodes, NEW ok, Return(n, ok)
    PROVE  pc'[n] = "idle"
  BY DEF Return, TypeInv, TypeOK

LEMMA CacheSet ==
    ASSUME TypeInv, NEW n \in Nodes,
           cache' = [cache EXCEPT ![n] = [lb |-> obj[n], ports |-> ports[n]]]
    PROVE  cache'[n].lb = obj[n] /\ cache'[n].ports = ports[n]
  BY DEF TypeInv, TypeOK

\* What registerNodeNetwork does, with the one network it finds.
LEMMA RegisterStep ==
    ASSUME TypeInv, NEW n \in Nodes, registerNodeNetwork(n)
    PROVE  LET new == Registered(n, obj[n], Mine(n, obj[n]))
           IN /\ pc[n] = "register" /\ obj[n] \in Object
              /\ new \in [Nodes -> Network \cup {Nil}]
              /\ UNCHANGED <<api, cmStore, pending, dropped, lbChange, ports, iptables, file, cfgMD5,
                             keepalived, hit>>
              /\ \/ /\ new = obj[n].status /\ pc'[n] = "iptables"
                    /\ UNCHANGED <<obj[n], store[n], cache[n]>>
                 \/ /\ new # obj[n].status /\ pc'[n] = "update"
                    /\ obj'[n] = Assign(obj[n], obj[n].rv, new)
                    /\ store'[n] = Assign(store[n], obj[n].rv, new)
                    /\ cache'[n].lb = Assign(cache[n].lb, obj[n].rv, new)
                    /\ cache'[n].ports = cache[n].ports
  <1> DEFINE new == Registered(n, obj[n], Mine(n, obj[n]))
  <1>1. pc[n] = "register" /\ obj[n] \in Object
    BY ObjectType DEF registerNodeNetwork
  <1>2. new \in [Nodes -> Network \cup {Nil}]
    BY <1>1, NetworkUnique, RegisteredType
  <1>3. UNCHANGED <<api, cmStore, pending, dropped, lbChange, ports, iptables, file, cfgMD5,
                    keepalived, hit>>
    BY DEF registerNodeNetwork
  <1>4. IF new = obj[n].status
        THEN pc' = [pc EXCEPT ![n] = "iptables"] /\ UNCHANGED <<obj, store, cache>>
        ELSE /\ pc' = [pc EXCEPT ![n] = "update"]
             /\ obj' = [obj EXCEPT ![n] = Assign(@, obj[n].rv, new)]
             /\ store' = [store EXCEPT ![n] = Assign(@, obj[n].rv, new)]
             /\ cache' = [cache EXCEPT ![n].lb = Assign(@, obj[n].rv, new)]
    BY NetworkUnique DEF registerNodeNetwork
  <1>5. CASE new = obj[n].status
    BY <1>1, <1>2, <1>3, <1>4, <1>5 DEF TypeInv, TypeOK
  <1>6. CASE new # obj[n].status
    <2> HIDE DEF new
    <2>1. /\ pc'[n] = "update"
          /\ obj'[n] = Assign(obj[n], obj[n].rv, new)
          /\ store'[n] = Assign(store[n], obj[n].rv, new)
      BY <1>4, <1>6 DEF TypeInv, TypeOK
    <2>2. /\ cache'[n].lb = Assign(cache[n].lb, obj[n].rv, new)
          /\ cache'[n].ports = cache[n].ports
      BY <1>4, <1>6 DEF TypeInv, TypeOK
    <2> QED
      BY <1>1, <1>2, <1>3, <1>6, <2>1, <2>2 DEF new
  <1> QED
    BY <1>5, <1>6

LEMMA VersionInvCorrect == Spec => []VersionInv
  <1>1. Init => VersionInv
    BY SpecsAssumption DEF Init, VersionInv, Versions, Derived
  <1>2. TypeInv /\ VersionInv /\ [Next]_vars => VersionInv'
    <2> SUFFICES ASSUME TypeInv, VersionInv, [Next]_vars, NEW n \in Nodes PROVE Versions(n)'
      BY DEF VersionInv
    <2>1. Versions(n)
      BY DEF VersionInv
    <2>2. CASE (\E s \in Specs : WriteSpec(s)) \/ UNCHANGED vars
      <3>1. UNCHANGED <<store, cache, pc, obj>>
        BY <2>2 DEF WriteSpec, vars, nodeVars
      <3> QED
        BY <2>1, <3>1, VersionsKept
    <2>3. ASSUME NEW k \in Nodes, k # n, Watch(k) \/ WatchCM(k) \/ Sync(k) \/ Failure(k)
          PROVE  Versions(n)'
      <3>1. UNCHANGED <<store[n], cache[n], pc[n], obj[n]>>
        BY <2>3, Frame
      <3> QED
        BY <2>1, <3>1, VersionsKept
    <2>4. CASE Watch(n)
      <3>1. /\ store'[n] = api /\ store[n].rv < api.rv
            /\ UNCHANGED <<api, pc, obj, cache>>
        BY <2>4 DEF Watch, TypeInv, TypeOK
      <3>2. api.rv \in Nat /\ store[n].rv \in Nat
        BY ObjectType DEF TypeInv, TypeOK, Object
      <3>3. Derived(n, store'[n], api')
        BY <3>1, <3>2 DEF Derived
      <3>4. ASSUME NEW o \in Object, o.rv <= store[n].rv
            PROVE  o.rv <= store'[n].rv /\ Alias(o, store'[n])
        <4>1. o.rv \in Nat
          BY DEF Object
        <4> QED
          BY <3>1, <3>2, <3>4, <4>1 DEF Alias
      <3>5. cache[n].lb # Nil => cache[n].lb \in Object
        BY DEF TypeInv, TypeOK
      <3>6. pc[n] # "idle" => obj[n] \in Object
        BY ObjectType
      <3> QED
        BY <2>1, <3>1, <3>3, <3>4, <3>5, <3>6 DEF Versions
    <2>5. CASE WatchCM(n)
      BY <2>1, <2>5, VersionsKept DEF WatchCM
    <2>6. CASE OnUpdate(n)
      <3>1. UNCHANGED <<api, store, cache>>
        BY <2>6 DEF OnUpdate
      <3>2. (pc'[n] # "idle" /\ obj'[n] = store[n]) \/ UNCHANGED <<pc, obj>>
        BY <2>6 DEF OnUpdate, TypeInv, TypeOK
      <3>3. CASE UNCHANGED <<pc, obj>>
        BY <2>1, <3>1, <3>3, VersionsKept
      <3>4. CASE pc'[n] # "idle" /\ obj'[n] = store[n]
        <4>1. store[n].rv \in Nat
          BY ObjectType DEF Object
        <4> QED
          BY <2>1, <3>1, <3>4, <4>1 DEF Versions, Alias
      <3> QED
        BY <3>2, <3>3, <3>4
    <2>7. CASE registerNodeNetwork(n)
      <3> DEFINE rv == obj[n].rv
                 new == Registered(n, obj[n], Mine(n, obj[n]))
                 assigned(o) == Assign(o, rv, new)
      <3>1. /\ pc[n] = "register" /\ obj[n] \in Object /\ api' = api
            /\ new \in [Nodes -> Network \cup {Nil}]
            /\ \/ pc'[n] = "iptables" /\ UNCHANGED <<obj[n], store[n], cache[n]>>
               \/ /\ pc'[n] = "update" /\ obj'[n] = assigned(obj[n])
                  /\ store'[n] = assigned(store[n]) /\ cache'[n].lb = assigned(cache[n].lb)
        BY <2>7, RegisterStep
      <3>2. CASE UNCHANGED <<obj[n], store[n], cache[n]>>
        BY <2>1, <3>1, <3>2, VersionsKept
      <3>3. CASE /\ pc'[n] = "update" /\ obj'[n] = assigned(obj[n])
                 /\ store'[n] = assigned(store[n]) /\ cache'[n].lb = assigned(cache[n].lb)
        <4>1. \A m \in Nodes \ {n} : m \in obj[n].spec.nodes => new[m] = obj[n].status[m]
          BY DEF Registered
        <4>2. store[n] \in Object /\ (cache[n].lb # Nil => cache[n].lb \in Object)
          BY DEF TypeInv, TypeOK
        <4>3. obj[n].spec.nodes \subseteq Nodes
          BY <3>1, SpecFields DEF Object
        <4> HIDE DEF new
        <4>4. \A o \in Object : /\ assigned(o).rv = o.rv /\ assigned(o).spec = o.spec
                                /\ assigned(o).status = IF o.rv = rv THEN new ELSE o.status
          BY <3>1, AssignType
        <4>5. cache'[n].lb # Nil => cache[n].lb # Nil
          BY <3>1, <3>3, AssignType
        <4>6. Derived(n, obj'[n], api')
          BY <2>1, <3>1, <3>3, <4>1, <4>3, <4>4 DEF Versions, Derived
        <4>7. Derived(n, store'[n], api')
          <5>1. CASE store[n].rv = rv
            <6>1. store[n] = obj[n]
              BY <2>1, <3>1, <5>1 DEF Versions, Alias
            <6> QED
              BY <3>3, <4>6, <6>1
          <5>2. CASE store[n].rv # rv
            <6>1. assigned(store[n]) = store[n]
              BY <5>2 DEF Assign
            <6> QED
              BY <2>1, <3>1, <3>3, <6>1 DEF Versions
          <5> QED
            BY <5>1, <5>2
        <4> HIDE DEF assigned
        <4>8. obj'[n].rv <= store'[n].rv /\ Alias(obj'[n], store'[n])
          BY <2>1, <3>1, <3>3, <4>2, <4>4 DEF Versions, Alias
        <4>9. cache'[n].lb # Nil => /\ cache'[n].lb.rv <= store'[n].rv
                                    /\ Alias(cache'[n].lb, store'[n])
                                    /\ Alias(cache'[n].lb, obj'[n])
          BY <2>1, <3>1, <3>3, <4>2, <4>4, <4>5 DEF Versions, Alias
        <4> QED
          BY <4>6, <4>7, <4>8, <4>9 DEF Versions
      <3> QED
        BY <3>1, <3>2, <3>3
    <2>8. CASE UpdateLB(n) \/ NoSelfIface(n) \/ Failure(n)
      <3>1. pc[n] # "idle" /\ pc'[n] = "idle" /\ UNCHANGED <<store, cache>>
        BY <2>8, ReturnIdle DEF UpdateLB, NoSelfIface, Failure, LocalError, UpdateError, UpdateLost,
                                ReloadError
      <3> QED
        BY <2>1, <3>1, VersionsReturn
    <2>9. CASE onUpdateIPtables(n)
      <3>1. CASE lbChange[n]
        <4>1. pc[n] # "idle" /\ UNCHANGED <<store, obj, cache>>
          BY <2>9, <3>1 DEF onUpdateIPtables
        <4> QED
          BY <2>1, <4>1, VersionsKept
      <3>2. CASE ~lbChange[n]
        <4>1. /\ pc[n] # "idle" /\ store' = store /\ Return(n, TRUE)
              /\ cache' = [cache EXCEPT ![n] = [lb |-> obj[n], ports |-> ports[n]]]
          BY <2>9, <3>2 DEF onUpdateIPtables
        <4> QED
          BY <2>1, <4>1, ReturnIdle, CacheSet, VersionsReturn
      <3> QED
        BY <3>1, <3>2
    <2>10. CASE onUpdateKeepalived(n)
      <3>1. /\ pc[n] # "idle" /\ store' = store /\ Return(n, TRUE)
            /\ cache' = [cache EXCEPT ![n] = [lb |-> obj[n], ports |-> ports[n]]]
        BY <2>10 DEF onUpdateKeepalived
      <3> QED
        BY <2>1, <3>1, ReturnIdle, CacheSet, VersionsReturn
    <2> QED
      BY <2>2, <2>3, <2>4, <2>5, <2>6, <2>7, <2>8, <2>9, <2>10 DEF Next, Sync
  <1> QED
    BY <1>1, <1>2, TypeInvCorrect, PTL DEF Spec

\* An Update of node n that is accepted changes nothing but n's registration, for it
\* is based on the object it replaces.
LEMMA UpdateOwn ==
    ASSUME TypeInv, VersionInv, NEW n \in Nodes, pc[n] = "update", obj[n].rv = api.rv,
           api' = [rv |-> api.rv + 1, spec |-> obj[n].spec, status |-> obj[n].status]
    PROVE  /\ api'.spec = api.spec
           /\ \A m \in api.spec.nodes \ {n} : api'.status[m] = api.status[m]
  <1>1. Derived(n, obj[n], api)
    BY DEF VersionInv, Versions
  <1> QED
    BY <1>1 DEF Derived

\* A node's Update touches neither the specification nor the registration of another
\* node of the load balancer, however the nodes' updates interleave: VersionInv says
\* that an object a node is about to write is, when the server would accept it, the
\* server's own but for the node's registration.
THEOREM OthersUntouchedCorrect == Spec => OthersUntouched
  <1> DEFINE OwnOnly(n) == (pc[n] = "update" /\ pc'[n] # "update") =>
                           /\ api'.spec = api.spec
                           /\ \A m \in api.spec.nodes \ {n} : api'.status[m] = api.status[m]
  <1>1. TypeInv /\ VersionInv /\ [Next]_vars => [\A n \in Nodes : OwnOnly(n)]_vars
    <2> SUFFICES ASSUME TypeInv, VersionInv, Next, NEW n \in Nodes PROVE OwnOnly(n)
      OBVIOUS
    <2>0. pc \in [Nodes -> {"idle", "register", "update", "iptables", "keepalived"}]
      BY DEF TypeInv, TypeOK
    <2>1. ASSUME NEW s \in Specs, WriteSpec(s) PROVE OwnOnly(n)
      BY <2>1 DEF WriteSpec, nodeVars
    <2>2. ASSUME NEW m \in Nodes, UpdateLB(m) PROVE OwnOnly(n)
      <3>1. CASE m = n
        BY <2>2, <3>1, UpdateOwn DEF UpdateLB
      <3>2. CASE m # n
        BY <2>0, <2>2, <3>2 DEF UpdateLB, Return
      <3> QED
        BY <3>1, <3>2
    <2>3. ASSUME NEW m \in Nodes, UpdateLost(m) PROVE OwnOnly(n)
      <3>1. CASE m = n
        BY <2>3, <3>1, UpdateOwn DEF UpdateLost
      <3>2. CASE m # n
        BY <2>0, <2>3, <3>2 DEF UpdateLost, Return
      <3> QED
        BY <3>1, <3>2
    <2>4. ASSUME NEW m \in Nodes, Watch(m) \/ WatchCM(m) \/ OnUpdate(m)
                                  \/ registerNodeNetwork(m) \/ NoSelfIface(m)
                                  \/ onUpdateIPtables(m) \/ onUpdateKeepalived(m)
                                  \/ LocalError(m) \/ UpdateError(m) \/ ReloadError(m)
          PROVE  OwnOnly(n)
      BY <2>4 DEF Watch, WatchCM, OnUpdate, registerNodeNetwork, NoSelfIface, onUpdateIPtables,
                  onUpdateKeepalived, LocalError, UpdateError, ReloadError
    <2> QED
      BY <2>1, <2>2, <2>3, <2>4 DEF Next, Sync, Failure
  <1> QED
    BY <1>1, TypeInvCorrect, VersionInvCorrect, PTL DEF Spec, OthersUntouched

-----------------------------------------------------------------------------
(* What a node at rest has configured                                       *)

\* Node n has registered its network in o.
Own(n, o) == o.status = Registered(n, o, Mine(n, o))

\* x and y are configured the same way, ports left aside.
Same(x, y) == /\ x.spec.nodes = y.spec.nodes
              /\ x.spec.ipvs = y.spec.ipvs
              /\ x.status = y.status

\* conf is the configuration of keepalived for o, the port of the health check
\* left aside.
Matches(conf, n, o) ==
    /\ conf # Nil
    /\ conf.instances = KeepalivedOf(n, o).instances
    /\ conf.servers = KeepalivedOf(n, o).servers

LEMMA SameConfigured ==
    ASSUME NEW n, NEW x, NEW y, Same(x, y)
    PROVE  /\ KeepalivedOf(n, x).instances = KeepalivedOf(n, y).instances
           /\ KeepalivedOf(n, x).servers = KeepalivedOf(n, y).servers
           /\ \A p : IptablesOf(n, x, p) = IptablesOf(n, y, p)
  BY DEF Same, KeepalivedOf, getKeepalivedConfig, IptablesOf

\* The object OnUpdate works on, whatever fails: it is the newest the node knows
\* unless an event is queued, and it reaches the cache only when the node is
\* registered in it, so that no later registration changes what is in the cache.
Registration(n) ==
    /\ pc[n] \in {"iptables", "keepalived"} => Own(n, obj[n])
    /\ cache[n].lb # Nil => Own(n, cache[n].lb)
    /\ (pc[n] # "idle" /\ ~pending[n]) =>
            /\ obj[n] = store[n]
            /\ ports[n] = PortsOf(store[n], cmStore[n])
    /\ (pc[n] \in {"register", "iptables"} /\ ~lbChange[n]) =>
            cache[n].lb # Nil /\ Same(cache[n].lb, obj[n])

RegistrationInv == \A n \in Nodes : Registration(n)

LEMMA ReturnFields ==
    ASSUME TypeInv, NEW n \in Nodes, NEW ok \in BOOLEAN, Return(n, ok)
    PROVE  /\ pc'[n] = "idle"
           /\ ok => pending'[n] = pending[n]
           /\ ~ok => pending'[n] \/ dropped'[n]
  <1> DEFINE retry == ~ok /\ retries[n] < MaxRetries
  <1>1. /\ pc'[n] = "idle"
        /\ pending'[n] = (pending[n] \/ retry)
        /\ dropped'[n] = (~ok /\ ~retry)
    BY DEF Return, TypeInv, TypeOK
  <1>2. pending[n] \in BOOLEAN
    BY DEF TypeInv, TypeOK
  <1> QED
    BY <1>1, <1>2, Zenon

\* What OnUpdate decides at its start.
LEMMA OnUpdateStep ==
    ASSUME TypeInv, NEW n \in Nodes, OnUpdate(n)
    PROVE  /\ UNCHANGED <<api, store, cmStore, cache, iptables, file, cfgMD5, keepalived, hit>>
           /\ pc[n] = "idle" /\ ~pending'[n]
           /\ \/ /\ pc'[n] = "register" /\ obj'[n] = store[n]
                 /\ ports'[n] = PortsOf(store[n], cmStore[n])
                 /\ ~lbChange'[n] => ~isLBChanged(n, store[n])
              \/ /\ UNCHANGED <<pc, obj, lbChange, ports>>
                 /\ \/ ~validate(n, store[n])
                    \/ ~isLBChanged(n, store[n]) /\ ~isListenPortChanged(n, store[n])
  <1>1. /\ UNCHANGED <<api, store, cmStore, cache, iptables, file, cfgMD5, keepalived, hit>>
        /\ pc[n] = "idle"
    BY DEF OnUpdate
  <1>2. CASE validate(n, store[n])
             /\ (isLBChanged(n, store[n]) \/ isListenPortChanged(n, store[n]))
    <2>1. /\ pc' = [pc EXCEPT ![n] = "register"]
          /\ obj' = [obj EXCEPT ![n] = store[n]]
          /\ lbChange' = [lbChange EXCEPT ![n] = isLBChanged(n, store[n])]
          /\ ports' = [ports EXCEPT ![n] = PortsOf(store[n], cmStore[n])]
          /\ pending' = [pending EXCEPT ![n] = FALSE]
      BY <1>2 DEF OnUpdate
    <2>2. /\ pc'[n] = "register" /\ obj'[n] = store[n] /\ ~pending'[n]
          /\ ports'[n] = PortsOf(store[n], cmStore[n])
          /\ lbChange'[n] = isLBChanged(n, store[n])
      BY <2>1 DEF TypeInv, TypeOK
    <2> QED
      BY <1>1, <2>2
  <1>3. CASE ~(validate(n, store[n])
               /\ (isLBChanged(n, store[n]) \/ isListenPortChanged(n, store[n])))
    <2>1. pending' = [pending EXCEPT ![n] = FALSE] /\ UNCHANGED <<pc, obj, lbChange, ports>>
      BY <1>3 DEF OnUpdate
    <2>2. ~pending'[n]
      BY <2>1 DEF TypeInv, TypeOK
    <2> QED
      BY <1>1, <1>3, <2>1, <2>2
  <1> QED
    BY <1>2, <1>3

LEMMA UnchangedSame ==
    ASSUME NEW n, NEW o, ~isLBChanged(n, o)
    PROVE  cache[n].lb # Nil /\ Same(cache[n].lb, o)
  BY DEF isLBChanged, Same

\* A registration that changes the object leaves the one in the cache alone: that
\* one has the node's network already.
LEMMA CacheKept ==
    ASSUME TypeInv, NEW n \in Nodes, Versions(n), Registration(n), pc[n] # "idle",
           NEW new, new = Registered(n, obj[n], Mine(n, obj[n])), new # obj[n].status
    PROVE  Assign(cache[n].lb, obj[n].rv, new) = cache[n].lb
  <1>1. CASE cache[n].lb # Nil /\ cache[n].lb.rv = obj[n].rv
    <2>1. cache[n].lb = obj[n]
      BY <1>1 DEF Versions, Alias
    <2>2. Own(n, obj[n])
      BY <1>1, <2>1 DEF Registration
    <2> QED
      BY <2>2 DEF Own
  <1>2. CASE ~(cache[n].lb # Nil /\ cache[n].lb.rv = obj[n].rv)
    BY <1>2 DEF Assign
  <1> QED
    BY <1>1, <1>2

LEMMA RegistrationInvCorrect == Spec => []RegistrationInv
  <1>1. Init => RegistrationInv
    BY DEF Init, RegistrationInv, Registration
  <1>2. TypeInv /\ VersionInv /\ RegistrationInv /\ [Next]_vars => RegistrationInv'
    <2> SUFFICES ASSUME TypeInv, VersionInv, RegistrationInv, [Next]_vars, NEW n \in Nodes
                 PROVE  Registration(n)'
      BY DEF RegistrationInv
    <2>1. Registration(n) /\ Versions(n)
      BY DEF RegistrationInv, VersionInv
    <2>2. CASE (\E s \in Specs : WriteSpec(s)) \/ UNCHANGED vars
      <3>1. UNCHANGED <<store, cmStore, nodeVars>>
        BY <2>2 DEF WriteSpec, vars
      <3> QED
        BY <2>1, <3>1 DEF nodeVars, Registration
    <2>3. ASSUME NEW k \in Nodes, k # n, Watch(k) \/ WatchCM(k) \/ Sync(k) \/ Failure(k)
          PROVE  Registration(n)'
      <3>1. UNCHANGED <<store[n], cmStore[n], pending[n], pc[n], obj[n], lbChange[n], ports[n],
                        cache[n]>>
        BY <2>3, Frame
      <3> QED
        BY <2>1, <3>1 DEF Registration
    <2>4. CASE Watch(n) \/ WatchCM(n)
      <3>1. pending'[n] /\ UNCHANGED <<pc, obj, lbChange, cache>>
        BY <2>4 DEF Watch, WatchCM, TypeInv, TypeOK
      <3> QED
        BY <2>1, <3>1 DEF Registration
    <2>5. CASE OnUpdate(n)
      <3>1. CASE /\ pc'[n] = "register" /\ obj'[n] = store[n]
                 /\ ports'[n] = PortsOf(store[n], cmStore[n])
                 /\ ~lbChange'[n] => ~isLBChanged(n, store[n])
        BY <2>1, <2>5, <3>1, OnUpdateStep, UnchangedSame DEF Registration
      <3>2. CASE UNCHANGED <<pc, obj, lbChange, ports>>
        BY <2>1, <2>5, <3>2, OnUpdateStep DEF Registration
      <3> QED
        BY <2>5, <3>1, <3>2, OnUpdateStep
    <2>6. CASE registerNodeNetwork(n)
      <3> DEFINE rv == obj[n].rv
                 new == Registered(n, obj[n], Mine(n, obj[n]))
      <3>1. /\ pc[n] = "register" /\ obj[n] \in Object
            /\ new \in [Nodes -> Network \cup {Nil}]
            /\ UNCHANGED <<cmStore, pending, lbChange, ports>>
        BY <2>6, RegisterStep
      <3>2. CASE /\ new = obj[n].status /\ pc'[n] = "iptables"
                 /\ UNCHANGED <<obj[n], store[n], cache[n]>>
        BY <2>1, <3>1, <3>2 DEF Registration, Own
      <3>3. CASE /\ new # obj[n].status /\ pc'[n] = "update"
                 /\ obj'[n] = Assign(obj[n], rv, new)
                 /\ store'[n] = Assign(store[n], rv, new)
                 /\ cache'[n].lb = Assign(cache[n].lb, rv, new)
        <4>1. cache'[n].lb = cache[n].lb
          BY <2>1, <3>1, <3>3, CacheKept
        <4>2. store[n] \in Object
          BY ObjectType
        <4>3. store'[n].spec = store[n].spec
          BY <3>1, <3>3, <4>2, AssignType
        <4>4. PortsOf(store[n], cmStore[n])' = PortsOf(store[n], cmStore[n])
          BY <3>1, <4>3 DEF PortsOf, GetHTTPPort
        <4> QED
          BY <2>1, <3>1, <3>3, <4>1, <4>4 DEF Registration
      <3> QED
        BY <2>6, <3>2, <3>3, RegisterStep
    <2>7. CASE UpdateLB(n) \/ NoSelfIface(n) \/ Failure(n)
      <3>1. pc'[n] = "idle" /\ UNCHANGED cache
        BY <2>7, ReturnIdle DEF UpdateLB, NoSelfIface, Failure, LocalError, UpdateError, UpdateLost,
                                ReloadError
      <3> QED
        BY <2>1, <3>1 DEF Registration
    <2>8. CASE onUpdateIPtables(n)
      <3>1. CASE lbChange[n]
        <4>1. /\ pc[n] = "iptables" /\ pc'[n] = "keepalived"
              /\ UNCHANGED <<store, cmStore, pending, obj, ports, cache>>
          BY <2>8, <3>1 DEF onUpdateIPtables, TypeInv, TypeOK
        <4> QED
          BY <2>1, <4>1 DEF Registration
      <3>2. CASE ~lbChange[n]
        <4>1. /\ pc[n] = "iptables" /\ Return(n, TRUE)
              /\ cache' = [cache EXCEPT ![n] = [lb |-> obj[n], ports |-> ports[n]]]
          BY <2>8, <3>2 DEF onUpdateIPtables
        <4>2. pc'[n] = "idle" /\ cache'[n].lb = obj[n] /\ Own(n, obj[n])
          BY <2>1, <4>1, ReturnIdle, CacheSet DEF Registration
        <4> QED
          BY <4>2 DEF Registration
      <3> QED
        BY <3>1, <3>2
    <2>9. CASE onUpdateKeepalived(n)
      <3>1. /\ pc[n] = "keepalived" /\ Return(n, TRUE)
            /\ cache' = [cache EXCEPT ![n] = [lb |-> obj[n], ports |-> ports[n]]]
        BY <2>9 DEF onUpdateKeepalived
      <3>2. pc'[n] = "idle" /\ cache'[n].lb = obj[n] /\ Own(n, obj[n])
        BY <2>1, <3>1, ReturnIdle, CacheSet DEF Registration
      <3> QED
        BY <3>2 DEF Registration
    <2> QED
      BY <2>2, <2>3, <2>4, <2>5, <2>6, <2>7, <2>8, <2>9 DEF Next, Sync
  <1> QED
    BY <1>1, <1>2, TypeInvCorrect, VersionInvCorrect, PTL DEF Spec

\* Without the failures ConfigCurrent excepts: the cache has what is configured;
\* the informer's object is the server's, but for a registration that is being
\* written; and a node with nothing to do has the informer's object in its cache.
Settled(n) ==
    /\ cfgMD5[n] = keepalived[n]
    /\ cache[n].lb # Nil =>
        /\ Matches(keepalived[n], n, cache[n].lb)
        /\ pc[n] # "keepalived" => iptables[n] \in IptablesOf(n, cache[n].lb, cache[n].ports)
    /\ pc[n] = "keepalived" => iptables[n] \in IptablesOf(n, obj[n], ports[n])
    /\ store[n].rv = api.rv => store[n] = api \/ (pc[n] = "update" /\ obj[n].rv = store[n].rv)
    /\ (pc[n] = "idle" /\ ~pending[n] /\ ~dropped[n]) =>
        \/ store[n].rv < api.rv
        \/ ~validate(n, store[n])
        \/ /\ cache[n].lb # Nil /\ Same(cache[n].lb, store[n])
           /\ cache[n].ports = PortsOf(store[n], cmStore[n])

SettledInv == None({"update", "write", "reload"}) => \A n \in Nodes : Settled(n)

LEMMA FaultsGrow ==
    ASSUME TypeInv, [Next]_vars
    PROVE  hit \subseteq hit'
  <1>1. ASSUME NEW kind, Fault(kind) PROVE hit \subseteq hit'
    BY <1>1 DEF Fault
  <1>2. ASSUME NEW n \in Nodes, Failure(n) PROVE hit \subseteq hit'
    BY <1>1, <1>2 DEF Failure, LocalError, UpdateError, UpdateLost, ReloadError
  <1>3. ASSUME NEW n \in Nodes, Watch(n) \/ WatchCM(n) \/ Sync(n) PROVE hit \subseteq hit'
    BY <1>1, <1>3 DEF Watch, WatchCM, Sync, OnUpdate, registerNodeNetwork, UpdateLB, NoSelfIface,
                      onUpdateIPtables, onUpdateKeepalived
  <1>4. CASE (\E s \in Specs : WriteSpec(s)) \/ UNCHANGED vars
    BY <1>4 DEF WriteSpec, vars
  <1> QED
    BY <1>2, <1>3, <1>4 DEF Next

LEMMA VersionNumbers ==
    ASSUME TypeInv, NEW n \in Nodes, Versions(n)
    PROVE  /\ api.rv \in Nat /\ store[n].rv \in Nat /\ store[n].rv <= api.rv
           /\ pc[n] # "idle" => obj[n].rv \in Nat /\ obj[n].rv <= store[n].rv
  <1>1. api \in Object /\ store[n] \in Object /\ (pc[n] # "idle" => obj[n] \in Object)
    BY ObjectType DEF TypeInv, TypeOK
  <1> QED
    BY <1>1 DEF Object, Versions, Derived

\* Somebody else's step: at most the server gets a new object.
LEMMA SettledKept ==
    ASSUME TypeInv, [Next]_vars, NEW n \in Nodes, Versions(n), Settled(n),
           UNCHANGED <<store[n], cmStore[n], pending[n], dropped[n], pc[n], obj[n], ports[n],
                       cache[n], iptables[n], cfgMD5[n], keepalived[n]>>
    PROVE  Settled(n)'
  <1>1. /\ api.rv \in Nat /\ store[n].rv \in Nat /\ store[n].rv <= api.rv
    BY VersionNumbers
  <1>2. api' = api \/ api'.rv = api.rv + 1
    BY NewVersion
  <1>3. /\ store'[n].rv = api'.rv => store[n].rv = api.rv /\ api' = api
        /\ store[n].rv < api.rv => store'[n].rv < api'.rv
    BY <1>1, <1>2
  <1>4. validate(n, store[n])' <=> validate(n, store[n])
    BY DEF validate
  <1>5. PortsOf(store[n], cmStore[n])' = PortsOf(store[n], cmStore[n])
    BY DEF PortsOf, GetHTTPPort
  <1>6. (store[n].rv = api.rv => store[n] = api \/ (pc[n] = "update" /\ obj[n].rv = store[n].rv))'
    BY <1>3 DEF Settled
  <1>7. (pc[n] = "idle" /\ ~pending[n] /\ ~dropped[n] =>
          \/ store[n].rv < api.rv
          \/ ~validate(n, store[n])
          \/ /\ cache[n].lb # Nil /\ Same(cache[n].lb, store[n])
             /\ cache[n].ports = PortsOf(store[n], cmStore[n]))'
    BY <1>3, <1>4, <1>5 DEF Settled
  <1> QED
    BY <1>6, <1>7 DEF Settled

\* OnUpdate fails, or has written the object: nothing new is configured.
LEMMA SettledReturn ==
    ASSUME TypeInv, NEW n \in Nodes, Versions(n), Settled(n), pc[n] # "idle", pc'[n] = "idle",
           pc[n] # "keepalived",
           UNCHANGED <<store[n], cache[n], iptables[n], cfgMD5[n], keepalived[n]>>,
           api'.rv = store[n].rv => store[n] = api',
           pending'[n] \/ dropped'[n] \/ store[n].rv < api'.rv
    PROVE  Settled(n)'
  BY DEF Settled

\* OnUpdate is done and remembers what it has configured.
LEMMA SettledDone ==
    ASSUME TypeInv, NEW n \in Nodes, Versions(n), Registration(n), Settled(n),
           pc[n] \in {"iptables", "keepalived"}, Return(n, TRUE),
           cache' = [cache EXCEPT ![n] = [lb |-> obj[n], ports |-> ports[n]]],
           iptables'[n] \in IptablesOf(n, obj[n], ports[n]),
           Matches(keepalived'[n], n, obj[n]), cfgMD5'[n] = keepalived'[n],
           UNCHANGED <<api, store, cmStore>>
    PROVE  Settled(n)'
  <1>1. pc'[n] = "idle" /\ pending'[n] = pending[n]
    BY ReturnFields
  <1>2. cache'[n].lb = obj[n] /\ cache'[n].ports = ports[n]
    BY CacheSet
  <1>3. obj[n] \in Object /\ obj[n] # Nil
    BY ObjectType, NilAssumption
  <1>4. ~pending[n] => obj[n] = store[n] /\ ports[n] = PortsOf(store[n], cmStore[n])
    BY DEF Registration
  <1>5. store[n].rv = api.rv => store[n] = api
    BY DEF Settled
  <1>6. ~pending'[n] => /\ cache'[n].lb # Nil /\ Same(cache'[n].lb, store'[n])
                        /\ cache'[n].ports = PortsOf(store[n], cmStore[n])'
    BY <1>1, <1>2, <1>3, <1>4 DEF Same
  <1> QED
    BY <1>1, <1>2, <1>5, <1>6 DEF Settled

LEMMA SettledInvCorrect == Spec => []SettledInv
  <1>1. Init => SettledInv
    <2> SUFFICES ASSUME Init, NEW n \in Nodes PROVE Settled(n)
      BY DEF SettledInv
    <2> QED
      BY DEF Init, Settled
  <1>2. TypeInv /\ VersionInv /\ RegistrationInv /\ SettledInv /\ [Next]_vars => SettledInv'
    <2> SUFFICES ASSUME TypeInv, VersionInv, RegistrationInv, SettledInv, [Next]_vars,
                        None({"update", "write", "reload"})', NEW n \in Nodes
                 PROVE  Settled(n)'
      BY DEF SettledInv
    <2>1. Settled(n) /\ Registration(n) /\ Versions(n)
      BY FaultsGrow DEF SettledInv, RegistrationInv, VersionInv, None
    <2>2. ASSUME NEW kind \in {"update", "write", "reload"}, Fault(kind) PROVE FALSE
      BY <2>2 DEF Fault, None
    <2>3. CASE (\E s \in Specs : WriteSpec(s)) \/ UNCHANGED vars
      <3>1. UNCHANGED <<store, cmStore, nodeVars>>
        BY <2>3 DEF WriteSpec, vars
      <3> QED
        BY <2>1, <3>1, SettledKept DEF nodeVars
    <2>4. ASSUME NEW k \in Nodes, k # n, Watch(k) \/ WatchCM(k) \/ Sync(k) \/ Failure(k)
          PROVE  Settled(n)'
      BY <2>1, <2>4, Frame, SettledKept
    <2>5. CASE Watch(n)
      <3>1. /\ pending'[n] /\ store'[n] = api
            /\ UNCHANGED <<api, pc, obj, ports, cache, iptables, cfgMD5, keepalived>>
        BY <2>5 DEF Watch, TypeInv, TypeOK
      <3> QED
        BY <2>1, <3>1 DEF Settled
    <2>6. CASE WatchCM(n)
      <3>1. /\ pending'[n]
            /\ UNCHANGED <<api, store, pc, obj, ports, cache, iptables, cfgMD5, keepalived>>
        BY <2>6 DEF WatchCM, TypeInv, TypeOK
      <3> QED
        BY <2>1, <3>1 DEF Settled
    <2>7. CASE OnUpdate(n)
      <3>1. /\ UNCHANGED <<api, store, cmStore, cache, iptables, cfgMD5, keepalived>>
            /\ pc[n] = "idle"
        BY <2>7, OnUpdateStep
      <3>2. CASE pc'[n] = "register"
        BY <2>1, <3>1, <3>2 DEF Settled
      <3>3. CASE /\ UNCHANGED <<pc, obj, lbChange, ports>>
                 /\ \/ ~validate(n, store[n])
                    \/ ~isLBChanged(n, store[n]) /\ ~isListenPortChanged(n, store[n])
        <4>1. \/ ~validate(n, store[n])'
              \/ /\ cache[n].lb # Nil /\ Same(cache[n].lb, store[n])
                 /\ cache[n].ports = PortsOf(store[n], cmStore[n])
          BY <3>1, <3>3, UnchangedSame DEF validate, isListenPortChanged
        <4> QED
          BY <2>1, <3>1, <3>3, <4>1 DEF Settled, PortsOf, GetHTTPPort
      <3> QED
        BY <2>7, <3>2, <3>3, OnUpdateStep
    <2>8. CASE registerNodeNetwork(n)
      <3> DEFINE rv == obj[n].rv
                 new == Registered(n, obj[n], Mine(n, obj[n]))
      <3>1. /\ pc[n] = "register" /\ obj[n] \in Object
            /\ new \in [Nodes -> Network \cup {Nil}]
            /\ UNCHANGED <<api, ports, iptables, cfgMD5, keepalived>>
        BY <2>8, RegisterStep
      <3>2. CASE /\ pc'[n] = "iptables"
                 /\ UNCHANGED <<obj[n], store[n], cache[n]>>
        BY <2>1, <3>1, <3>2 DEF Settled
      <3>3. CASE /\ new # obj[n].status /\ pc'[n] = "update"
                 /\ obj'[n] = Assign(obj[n], rv, new)
                 /\ store'[n] = Assign(store[n], rv, new)
                 /\ cache'[n].lb = Assign(cache[n].lb, rv, new)
                 /\ cache'[n].ports = cache[n].ports
        <4>1. cache'[n].lb = cache[n].lb
          BY <2>1, <3>1, <3>3, CacheKept
        <4>2. store[n] \in Object
          BY ObjectType
        <4>3. obj'[n].rv = rv /\ store'[n].rv = store[n].rv
          BY <3>1, <3>3, <4>2, AssignType
        <4>4. store[n].rv # rv => store'[n] = store[n]
          BY <3>3 DEF Assign
        <4>5. store[n].rv = api.rv => store[n] = api
          BY <2>1, <3>1 DEF Settled
        <4>6. store'[n].rv = api'.rv => store'[n] = api' \/ obj'[n].rv = store'[n].rv
          BY <3>1, <4>3, <4>4, <4>5
        <4> QED
          BY <2>1, <3>1, <3>3, <4>1, <4>6 DEF Settled
      <3> QED
        BY <2>8, <3>2, <3>3, RegisterStep
    <2>9. CASE UpdateLB(n)
      <3>1. /\ pc[n] = "update" /\ Return(n, TRUE)
            /\ UNCHANGED <<store, cache, iptables, cfgMD5, keepalived>>
            /\ obj[n].rv # api.rv => api' = api
            /\ obj[n].rv = api.rv => api'.rv = api.rv + 1
        <4>1. CASE obj[n].rv = api.rv
          <5>1. api' = [rv |-> api.rv + 1, spec |-> obj[n].spec, status |-> obj[n].status]
            BY <2>9, <4>1 DEF UpdateLB
          <5> QED
            BY <2>9, <4>1, <5>1 DEF UpdateLB
        <4>2. CASE obj[n].rv # api.rv
          BY <2>9, <4>2 DEF UpdateLB
        <4> QED
          BY <4>1, <4>2
      <3>2. pc'[n] = "idle" /\ pending'[n] = pending[n]
        BY <3>1, ReturnFields
      <3>3. /\ api.rv \in Nat /\ store[n].rv \in Nat /\ store[n].rv <= api.rv
            /\ obj[n].rv \in Nat /\ obj[n].rv <= store[n].rv
        BY <2>1, <3>1, VersionNumbers
      <3>4. ~pending[n] => obj[n] = store[n]
        BY <2>1, <3>1 DEF Registration
      <3>5. CASE obj[n].rv = api.rv
        BY <2>1, <3>1, <3>2, <3>3, <3>5, SettledReturn
      <3>6. CASE obj[n].rv # api.rv
        <4>1. store[n].rv = api.rv => store[n] = api
          BY <2>1, <3>6 DEF Settled
        <4>2. pending[n] \/ store[n].rv < api.rv
          BY <3>3, <3>4, <3>6
        <4> QED
          BY <2>1, <3>1, <3>2, <3>6, <4>1, <4>2, SettledReturn
      <3> QED
        BY <3>5, <3>6
    <2>10. CASE NoSelfIface(n) \/ LocalError(n)
      <3>1. /\ pc[n] \in {"register", "iptables"} /\ Return(n, FALSE)
            /\ UNCHANGED <<api, store, cache, iptables, cfgMD5, keepalived>>
        BY <2>10 DEF NoSelfIface, LocalError
      <3>2. pc'[n] = "idle" /\ (pending'[n] \/ dropped'[n])
        BY <3>1, ReturnFields
      <3>3. store[n].rv = api.rv => store[n] = api
        BY <2>1, <3>1 DEF Settled
      <3> QED
        BY <2>1, <3>1, <3>2, <3>3, SettledReturn
    <2>11. CASE UpdateLost(n)
      <3>1. /\ pc[n] = "update" /\ Return(n, FALSE) /\ api'.rv = api.rv + 1
            /\ UNCHANGED <<store, cache, iptables, cfgMD5, keepalived>>
        BY <2>11 DEF UpdateLost
      <3>2. pc'[n] = "idle" /\ (pending'[n] \/ dropped'[n])
        BY <3>1, ReturnFields
      <3>3. api.rv \in Nat /\ store[n].rv \in Nat /\ store[n].rv <= api.rv
        BY <2>1, VersionNumbers
      <3> QED
        BY <2>1, <3>1, <3>2, <3>3, SettledReturn
    <2>12. CASE UpdateError(n) \/ ReloadError(n)
      BY <2>2, <2>12 DEF UpdateError, ReloadError
    <2>13. CASE onUpdateIPtables(n)
      <3>1. /\ pc[n] = "iptables" /\ iptables'[n] \in IptablesOf(n, obj[n], ports[n])
            /\ UNCHANGED <<api, store, cmStore, cfgMD5, keepalived>>
        BY <2>13 DEF onUpdateIPtables, TypeInv, TypeOK
      <3>2. CASE lbChange[n]
        <4>1. pc'[n] = "keepalived" /\ UNCHANGED <<obj, ports, cache>>
          BY <2>13, <3>2 DEF onUpdateIPtables, TypeInv, TypeOK
        <4> QED
          BY <2>1, <3>1, <4>1 DEF Settled
      <3>3. CASE ~lbChange[n]
        <4>1. /\ Return(n, TRUE)
              /\ cache' = [cache EXCEPT ![n] = [lb |-> obj[n], ports |-> ports[n]]]
          BY <2>13, <3>3 DEF onUpdateIPtables
        <4>2. cache[n].lb # Nil /\ Same(cache[n].lb, obj[n])
          BY <2>1, <3>1, <3>3 DEF Registration
        <4>3. Matches(keepalived[n], n, obj[n])
          BY <2>1, <4>2, SameConfigured DEF Settled, Matches
        <4>4. cfgMD5'[n] = keepalived'[n] /\ Matches(keepalived'[n], n, obj[n])
          BY <2>1, <3>1, <4>3 DEF Settled
        <4> QED
          BY <2>1, <3>1, <4>1, <4>4, SettledDone
      <3> QED
        BY <3>2, <3>3
    <2>14. CASE onUpdateKeepalived(n)
      <3> DEFINE conf == KeepalivedOf(n, obj[n])
      <3>1. /\ pc[n] = "keepalived" /\ Return(n, TRUE)
            /\ cache' = [cache EXCEPT ![n] = [lb |-> obj[n], ports |-> ports[n]]]
            /\ UNCHANGED <<api, store, cmStore, iptables>>
        BY <2>14 DEF onUpdateKeepalived
      <3>2. conf \in KeepalivedConf
        BY <3>1, ObjectType, KeepalivedType
      <3>3. file' = [file EXCEPT ![n] = conf]
        BY <2>2, <2>14 DEF onUpdateKeepalived
      <3> HIDE DEF conf
      <3>4. file'[n] = conf
        BY <3>3 DEF TypeInv, TypeOK
      <3>5. /\ cfgMD5'[n] = conf
            /\ keepalived'[n] = IF conf = cfgMD5[n] THEN keepalived[n] ELSE conf
        BY <2>14, <3>4 DEF onUpdateKeepalived, TypeInv, TypeOK
      <3>6. keepalived'[n] = conf
        BY <2>1, <3>5 DEF Settled
      <3>7. Matches(conf, n, obj[n])
        BY <3>2, NilAssumption DEF Matches, conf
      <3>8. iptables'[n] \in IptablesOf(n, obj[n], ports[n])
        BY <2>1, <3>1 DEF Settled
      <3> QED
        BY <2>1, <3>1, <3>5, <3>6, <3>7, <3>8, SettledDone
    <2> QED
      BY <2>3, <2>4, <2>5, <2>6, <2>7, <2>8, <2>9, <2>10, <2>11, <2>12, <2>13, <2>14
         DEF Next, Sync, Failure
  <1> QED
    BY <1>1, <1>2, TypeInvCorrect, VersionInvCorrect, RegistrationInvCorrect, PTL DEF Spec

\* What SettledInv says of a node at rest.
LEMMA AtRest ==
    ASSUME TypeInv, SettledInv, NEW n \in Nodes, Quiet(n), validate(n, store[n]),
           None({"update", "write", "reload"})
    PROVE  /\ Matches(keepalived[n], n, api)
           /\ iptables[n] \in IptablesOf(n, api, PortsOf(api, cmStore[n]))
  <1>1. Settled(n)
    BY DEF SettledInv
  <1>2. api.rv \in Nat /\ store[n].rv = api.rv
    BY DEF TypeInv, TypeOK, Object, Quiet
  <1>3. store[n] = api
    BY <1>1, <1>2 DEF Settled, Quiet
  <1>4. /\ cache[n].lb # Nil /\ Same(cache[n].lb, api)
        /\ cache[n].ports = PortsOf(api, cmStore[n])
    BY <1>1, <1>2, <1>3 DEF Settled, Quiet
  <1>5. /\ Matches(keepalived[n], n, cache[n].lb)
        /\ iptables[n] \in IptablesOf(n, cache[n].lb, cache[n].ports)
    BY <1>1, <1>4 DEF Settled, Quiet
  <1> QED
    BY <1>4, <1>5, SameConfigured DEF Matches

\* A node at rest has configured iptables and keepalived from the newest object,
\* for any number of nodes and any interleaving of their updates with changes of
\* the object and the ConfigMaps.
THEOREM ConfigCurrentCorrect == Spec => []ConfigCurrent
  <1>1. TypeInv /\ SettledInv => ConfigCurrent
    <2> SUFFICES ASSUME TypeInv, SettledInv, NEW n \in Nodes, Quiet(n), validate(n, store[n]),
                        None({"update", "write", "reload"})
                 PROVE  /\ iptables[n] \in IptablesOf(n, api, PortsOf(api, cmStore[n]))
                        /\ keepalived[n] # Nil
                        /\ [keepalived[n] EXCEPT !.http = 0]
                             = [KeepalivedOf(n, api) EXCEPT !.http = 0]
      BY DEF ConfigCurrent
    <2>1. /\ Matches(keepalived[n], n, api)
          /\ iptables[n] \in IptablesOf(n, api, PortsOf(api, cmStore[n]))
      BY AtRest
    <2>2. keepalived[n] \in KeepalivedConf /\ KeepalivedOf(n, api) \in KeepalivedConf
      BY <2>1, KeepalivedType DEF TypeInv, TypeOK, Matches
    <2>3. [keepalived[n] EXCEPT !.http = 0] = [KeepalivedOf(n, api) EXCEPT !.http = 0]
      BY <2>1, <2>2 DEF Matches, KeepalivedConf
    <2> QED
      BY <2>1, <2>3 DEF Matches
  <1> QED
    BY <1>1, TypeInvCorrect, SettledInvCorrect, PTL

-----------------------------------------------------------------------------
(* The configurations of keepalived                                         *)

\* The k-th provider of an Ipvsdr provider: itself, or a slave. Its router id.
Part(ipvs, k) == IF k = 0 THEN ipvs ELSE ipvs.slaves[k]
Vrid(ipvs, k) == IF k = 0 THEN 110 ELSE SlaveVrid(ipvs, k)
Parts(ipvs) == {0} \cup Slaves(ipvs)

LEMMA PartsType ==
    ASSUME NEW ipvs \in Ipvs, NEW k \in Parts(ipvs)
    PROVE  /\ Part(ipvs, k).vips \in Seq(Nat)
           /\ Part(ipvs, k) \in {ipvs} \cup Range(ipvs.slaves)
           /\ k \in {0} \cup DOMAIN ipvs.slaves /\ 0 \notin DOMAIN ipvs.slaves
           /\ k # 0 => k \in Slaves(ipvs)
  <1>1. /\ ipvs.vips \in Seq(Nat) /\ ipvs.slaves \in Seq(Keepalived)
    BY DEF Ipvs
  <1>2. Slaves(ipvs) \subseteq DOMAIN ipvs.slaves /\ DOMAIN ipvs.slaves = 1..Len(ipvs.slaves)
    BY <1>1 DEF Slaves
  <1>3. CASE k = 0
    BY <1>1, <1>2, <1>3 DEF Part
  <1>4. CASE k # 0
    <2>1. k \in Slaves(ipvs) /\ k \in DOMAIN ipvs.slaves
      BY <1>2, <1>4 DEF Parts
    <2>2. ipvs.slaves[k] \in Keepalived
      BY <2>1, SlaveVridType
    <2>3. ipvs.slaves[k].vips \in Seq(Nat)
      BY <2>2 DEF Keepalived
    <2> QED
      BY <1>2, <1>4, <2>1, <2>3 DEF Part, Range
  <1> QED
    BY <1>3, <1>4

\* A proper part of a finite set has fewer elements.
LEMMA Fewer ==
    ASSUME NEW S, IsFiniteSet(S), NEW T \in SUBSET S, NEW x \in S, x \notin T
    PROVE  /\ Cardinality(T) \in Nat /\ Cardinality(S) \in Nat
           /\ Cardinality(T) < Cardinality(S)
  <1>1. /\ IsFiniteSet(T) /\ Cardinality(T) <= Cardinality(S)
        /\ Cardinality(S) = Cardinality(T) => S = T
    BY FS_Subset
  <1>2. Cardinality(T) \in Nat /\ Cardinality(S) \in Nat
    BY <1>1, FS_CardinalityType
  <1>3. Cardinality(S) # Cardinality(T)
    BY <1>1
  <1> QED
    BY <1>1, <1>2, <1>3

\* No two of them have the same router id.
LEMMA VridUnique ==
    ASSUME NEW ipvs \in Ipvs, NEW j \in Parts(ipvs), NEW k \in Parts(ipvs),
           Vrid(ipvs, j) = Vrid(ipvs, k)
    PROVE  j = k
  <1>1. IsFiniteSet(Slaves(ipvs))
    BY SlaveVridType
  <1>2. Slaves(ipvs) \subseteq Nat \ {0}
    BY DEF Slaves, Ipvs
  <1>3. ASSUME NEW a \in Slaves(ipvs), NEW b \in Slaves(ipvs), a < b
        PROVE  SlaveVrid(ipvs, a) # SlaveVrid(ipvs, b)
    <2> DEFINE upTo(c) == {i \in Slaves(ipvs) : i <= c}
    <2>1. upTo(a) \subseteq upTo(b) /\ b \in upTo(b) /\ b \notin upTo(a)
      BY <1>2, <1>3
    <2>2. IsFiniteSet(upTo(b))
      BY <1>1, FS_Subset
    <2>3. /\ Cardinality(upTo(a)) \in Nat /\ Cardinality(upTo(b)) \in Nat
          /\ Cardinality(upTo(a)) < Cardinality(upTo(b))
      BY <2>1, <2>2, Fewer
    <2> QED
      BY <2>3 DEF SlaveVrid
  <1>4. \A a \in Slaves(ipvs) : SlaveVrid(ipvs, a) \in Nat /\ SlaveVrid(ipvs, a) > 110
    BY SlaveVridType
  <1>5. CASE j = 0 \/ k = 0
    BY <1>2, <1>4, <1>5 DEF Parts, Vrid
  <1>6. CASE j # 0 /\ k # 0
    <2>1. /\ j \in Slaves(ipvs) /\ k \in Slaves(ipvs)
          /\ SlaveVrid(ipvs, j) = SlaveVrid(ipvs, k)
      BY <1>6 DEF Parts, Vrid
    <2>2. ~(j < k) /\ ~(k < j)
      BY <1>3, <2>1
    <2> QED
      BY <1>2, <2>1, <2>2
  <1> QED
    BY <1>5, <1>6

\* Where an instance of keepalived comes from.
LEMMA InstanceOrigin ==
    ASSUME NEW n, NEW o, o.spec.ipvs \in Ipvs, NEW x \in KeepalivedOf(n, o).instances
    PROVE  LET ipvs == o.spec.ipvs
               nodes == o.spec.nodes
           IN \E k \in Parts(ipvs) :
                \E my \in MyIface(n, getIPs(nodes, o.status, ipvs, Part(ipvs, k).bind)) :
                    /\ x.vip \in Chosen(Part(ipvs, k))
                    /\ x.vrid = Vrid(ipvs, k)
                    /\ x.priority = getNodePriority(n, nodes)
                    /\ x.state = "MASTER" => n = Max(nodes)
                    /\ x.myIP = getIP(my, getIPVersion(x.vip)) /\ x.myIP # 0
                    /\ x.allIPs = {getIP(p[2], getIPVersion(x.vip)) :
                                     p \in getIPs(nodes, o.status, ipvs, Part(ipvs, k).bind)} \ {0}
  <1> DEFINE ipvs == o.spec.ipvs
             nodes == o.spec.nodes
             nets(k) == getIPs(nodes, o.status, ipvs, Part(ipvs, k).bind)
  <1>1. PICK k \in Parts(ipvs) :
            x \in Instances(n, nodes, nets(k), Part(ipvs, k), Vrid(ipvs, k))
    <2>1. x \in MainInstances(n, nodes, o.status, ipvs)
            \cup UNION {SlaveInstances(n, nodes, o.status, ipvs, k) : k \in Slaves(ipvs)}
      BY DEF KeepalivedOf, getKeepalivedConfig
    <2>2. CASE x \in MainInstances(n, nodes, o.status, ipvs)
      <3>1. x \in Instances(n, nodes, nets(0), Part(ipvs, 0), Vrid(ipvs, 0))
        BY <2>2 DEF MainInstances, Part, Vrid
      <3> QED
        BY <3>1 DEF Parts
    <2>3. ASSUME NEW k \in Slaves(ipvs), x \in SlaveInstances(n, nodes, o.status, ipvs, k)
          PROVE  \E h \in Parts(ipvs) :
                    x \in Instances(n, nodes, nets(h), Part(ipvs, h), Vrid(ipvs, h))
      <3>1. CASE k # 0
        <4>1. x \in Instances(n, nodes, nets(k), Part(ipvs, k), Vrid(ipvs, k))
          BY <2>3, <3>1 DEF SlaveInstances, Part, Vrid
        <4> QED
          BY <4>1 DEF Parts
      <3>2. k # 0
        BY DEF Slaves, Ipvs
      <3> QED
        BY <3>1, <3>2
    <2> QED
      BY <2>1, <2>2, <2>3
  <1> QED
    BY <1>1 DEF Instances

\* Two VIPs of one version are chosen from more than two only.
LEMMA ChosenApart ==
    ASSUME NEW kl, kl.vips \in Seq(Nat), NEW u \in Chosen(kl), NEW v \in Chosen(kl), u # v,
           getIPVersion(u) = getIPVersion(v)
    PROVE  Len(kl.vips) > 2
  <1> DEFINE vips == kl.vips
             first(k) == \A j \in Previous(k, getVIPs(kl)) :
                            getIPVersion(vips[k]) # getIPVersion(vips[j])
  <1>1. PICK a \in getVIPs(kl) : vips[a] = u /\ first(a)
    BY DEF Chosen
  <1>2. PICK b \in getVIPs(kl) : vips[b] = v /\ first(b)
    BY DEF Chosen
  <1>3. a \in 1..Len(vips) /\ b \in 1..Len(vips) /\ getVIPs(kl) \subseteq 1..Len(vips)
    BY DEF getVIPs
  <1>4. ASSUME Len(vips) <= 2, NEW c \in getVIPs(kl), NEW d \in getVIPs(kl), c < d
        PROVE  c \in Previous(d, getVIPs(kl))
    BY <1>3, <1>4 DEF Previous
  <1>5. a # b
    BY <1>1, <1>2
  <1>6. CASE a < b
    <2>1. a \notin Previous(b, getVIPs(kl))
      BY <1>1, <1>2
    <2> QED
      BY <1>3, <1>4, <1>6, <2>1
  <1>7. CASE b < a
    <2>1. b \notin Previous(a, getVIPs(kl))
      BY <1>1, <1>2
    <2> QED
      BY <1>3, <1>4, <1>7, <2>1
  <1> QED
    BY <1>3, <1>5, <1>6, <1>7

\* Every configuration on a node was made from an object.
Made(n, conf) == conf # Nil => \E o \in Object : conf = KeepalivedOf(n, o)

MadeInv == \A n \in Nodes : Made(n, file[n]) /\ Made(n, cfgMD5[n]) /\ Made(n, keepalived[n])

LEMMA MadeInvCorrect == Spec => []MadeInv
  <1>1. Init => MadeInv
    BY DEF Init, MadeInv, Made
  <1>2. TypeInv /\ MadeInv /\ [Next]_vars => MadeInv'
    <2> SUFFICES ASSUME TypeInv, MadeInv, [Next]_vars PROVE MadeInv'
      OBVIOUS
    <2>1. CASE UNCHANGED <<file, cfgMD5, keepalived>>
      BY <2>1 DEF MadeInv
    <2>2. ASSUME NEW n \in Nodes, pc[n] # "idle" PROVE Made(n, KeepalivedOf(n, obj[n]))
      BY <2>2, ObjectType DEF Made
    <2>3. ASSUME NEW n \in Nodes, onUpdateKeepalived(n) PROVE MadeInv'
      <3>1. Made(n, file'[n])
        <4>1. \/ file' = [file EXCEPT ![n] = KeepalivedOf(n, obj[n])]
              \/ UNCHANGED file
          BY <2>3 DEF onUpdateKeepalived
        <4>2. Made(n, KeepalivedOf(n, obj[n]))
          BY <2>2, <2>3 DEF onUpdateKeepalived
        <4> QED
          BY <4>1, <4>2 DEF MadeInv, TypeInv, TypeOK
      <3>2. cfgMD5'[n] = file'[n] /\ keepalived'[n] \in {keepalived[n], file'[n]}
        BY <2>3 DEF onUpdateKeepalived, TypeInv, TypeOK
      <3>3. ASSUME NEW m \in Nodes, m # n
            PROVE  UNCHANGED <<file[m], cfgMD5[m], keepalived[m]>>
        BY <2>3, <3>3, Frame DEF Sync
      <3> QED
        BY <3>1, <3>2, <3>3 DEF MadeInv
    <2>4. ASSUME NEW n \in Nodes, ReloadError(n) PROVE MadeInv'
      <3>1. Made(n, KeepalivedOf(n, obj[n]))
        BY <2>2, <2>4 DEF ReloadError
      <3>2. /\ file'[n] = KeepalivedOf(n, obj[n]) /\ cfgMD5'[n] = KeepalivedOf(n, obj[n])
            /\ keepalived' = keepalived
        BY <2>4 DEF ReloadError, TypeInv, TypeOK
      <3>3. ASSUME NEW m \in Nodes, m # n
            PROVE  UNCHANGED <<file[m], cfgMD5[m]>>
        BY <2>4, <3>3, Frame DEF Failure
      <3> QED
        BY <3>1, <3>2, <3>3 DEF MadeInv
    <2>5. ASSUME NEW n \in Nodes, Watch(n) \/ WatchCM(n) \/ OnUpdate(n)
                                  \/ registerNodeNetwork(n) \/ UpdateLB(n) \/ NoSelfIface(n)
                                  \/ onUpdateIPtables(n) \/ LocalError(n) \/ UpdateError(n)
                                  \/ UpdateLost(n)
          PROVE  UNCHANGED <<file, cfgMD5, keepalived>>
      BY <2>5 DEF Watch, WatchCM, OnUpdate, registerNodeNetwork, UpdateLB, NoSelfIface,
                  onUpdateIPtables, LocalError, UpdateError, UpdateLost
    <2>6. CASE (\E s \in Specs : WriteSpec(s)) \/ UNCHANGED vars
      BY <2>1, <2>6 DEF WriteSpec, vars, nodeVars
    <2> QED
      BY <2>1, <2>3, <2>4, <2>5, <2>6 DEF Next, Sync, Failure
  <1> QED
    BY <1>1, <1>2, TypeInvCorrect, PTL DEF Spec

\* Two instances of one keepalived never share router id and IP version, unless
\* they are of one provider with more than two VIPs: the router ids of a provider and
\* of its slaves all differ, and a VIP is skipped when the one before has its version.
THEOREM DistinctRoutersCorrect == Spec => []DistinctRouters
  <1>1. MadeInv => DistinctRouters
    <2> SUFFICES ASSUME MadeInv, NEW n \in Nodes, keepalived[n] # Nil,
                        NEW i \in keepalived[n].instances, NEW j \in keepalived[n].instances,
                        i.vip # j.vip, i.vrid = j.vrid, getIPVersion(i.vip) = getIPVersion(j.vip)
                 PROVE  \E s \in Specs : \E kl \in {s.ipvs} \cup Range(s.ipvs.slaves) :
                            Len(kl.vips) > 2 /\ {i.vip, j.vip} \subseteq Range(kl.vips)
      BY DEF DistinctRouters
    <2>1. PICK o \in Object : keepalived[n] = KeepalivedOf(n, o)
      BY DEF MadeInv, Made
    <2> DEFINE ipvs == o.spec.ipvs
    <2>2. o.spec \in Specs /\ ipvs \in Ipvs
      BY SpecFields DEF Object
    <2>3. PICK a \in Parts(ipvs) : i.vip \in Chosen(Part(ipvs, a)) /\ i.vrid = Vrid(ipvs, a)
      BY <2>1, <2>2, InstanceOrigin
    <2>4. PICK b \in Parts(ipvs) : j.vip \in Chosen(Part(ipvs, b)) /\ j.vrid = Vrid(ipvs, b)
      BY <2>1, <2>2, InstanceOrigin
    <2>5. a = b
      BY <2>2, <2>3, <2>4, VridUnique
    <2>6. /\ Part(ipvs, a).vips \in Seq(Nat)
          /\ Part(ipvs, a) \in {ipvs} \cup Range(ipvs.slaves)
      BY <2>2, PartsType
    <2>7. Len(Part(ipvs, a).vips) > 2
      BY <2>3, <2>4, <2>5, <2>6, ChosenApart
    <2>8. {i.vip, j.vip} \subseteq Range(Part(ipvs, a).vips)
      BY <2>3, <2>4, <2>5, <2>6, ChosenVIPs
    <2> QED
      BY <2>2, <2>6, <2>7, <2>8
  <1> QED
    BY <1>1, MadeInvCorrect, PTL

-----------------------------------------------------------------------------
(* The nodes at rest form one router                                        *)

\* A finite set of nodes has a last one.
LEMMA MaxProperties ==
    ASSUME NEW S \in SUBSET Nat, IsFiniteSet(S), NEW n \in S, n = Max(S)
    PROVE  \A m \in S : m <= n
  <1> DEFINE after(x) == {m \in S : m > x}
             sizes == {Cardinality(after(x)) : x \in S}
  <1>1. \A x \in S : IsFiniteSet(after(x)) /\ Cardinality(after(x)) \in Nat
    BY FS_Subset, FS_CardinalityType
  <1>2. sizes \in SUBSET Nat /\ sizes # {}
    BY <1>1
  <1>3. Min(sizes) \in sizes /\ \A c \in sizes : Min(sizes) <= c
    BY <1>2, MinProperties
  <1>4. PICK x \in S : Cardinality(after(x)) = Min(sizes)
    BY <1>3
  <1>5. ASSUME NEW y \in S, y > x PROVE FALSE
    <2>0. x \in Nat /\ y \in Nat
      BY <1>4, <1>5
    <2>1. after(y) \in SUBSET after(x)
      <3>1. \A m \in S : m \in Nat /\ (m > y => m > x)
        BY <2>0, <1>5
      <3> QED
        BY <3>1
    <2>2. y \in after(x) /\ y \notin after(y)
      BY <2>0, <1>5
    <2>3. Cardinality(after(y)) \in sizes
      BY <1>5
    <2>4. IsFiniteSet(after(x)) /\ Cardinality(after(x)) \in Nat /\ Cardinality(after(y)) \in Nat
      BY <1>1, <1>4, <1>5
    <2>5. Min(sizes) <= Cardinality(after(y))
      BY <1>3, <2>3
    <2> HIDE DEF after, sizes
    <2>6. Cardinality(after(y)) < Cardinality(after(x))
      BY <2>1, <2>2, <2>4, Fewer
    <2> QED
      BY <1>4, <2>4, <2>5, <2>6
  <1>6. x \in S /\ \A y \in S : x >= y
    BY <1>5
  <1>7. \A y \in S : n >= y
    BY <1>6, Zenon DEF Max
  <1> QED
    BY <1>7

\* Priorities grow with the names of the nodes.
LEMMA PriorityOrder ==
    ASSUME NEW nodes \in SUBSET Nodes, NEW n \in nodes, NEW m \in nodes, n < m
    PROVE  getNodePriority(n, nodes) < getNodePriority(m, nodes)
  <1> DEFINE before(x) == {y \in nodes : y < x}
  <1>1. \A y \in nodes : y \in Nat
    BY NetworkAssumption
  <1>2. IsFiniteSet(before(m))
    BY FS_Subset, NetworkAssumption
  <1>3. before(n) \in SUBSET before(m) /\ n \in before(m) /\ n \notin before(n)
    <2>1. n \in Nat /\ m \in Nat
      BY <1>1
    <2>2. \A y \in nodes : y < n => y < m
      BY <1>1, <2>1
    <2>3. before(n) \in SUBSET before(m)
      BY <2>2
    <2>4. n \in before(m) /\ n \notin before(n)
      BY <2>1
    <2> QED
      BY <2>3, <2>4
  <1>4. /\ Cardinality(before(n)) \in Nat /\ Cardinality(before(m)) \in Nat
        /\ Cardinality(before(n)) < Cardinality(before(m))
    BY <1>2, <1>3, Fewer
  <1> QED
    BY <1>4 DEF getNodePriority

\* The address an instance uses is one of the addresses the node has registered.
LEMMA AddressRegistered ==
    ASSUME NEW n \in Nodes, NEW nodes \in SUBSET Nodes, NEW status, status[n] \in Network,
           NEW ipvs, NEW bind, NEW my \in MyIface(n, getIPs(nodes, status, ipvs, bind)),
           NEW version, getIP(my, version) # 0
    PROVE  \E i \in status[n] : getIP(my, version) \in i.ips
  <1> DEFINE nns == getNodeNetSelector(n, getAllBinds(ipvs))
             ips == {ip \in my.ips : getIPVersion(ip) = version}
  <1>1. my \in getNodeNetwork(nns, status[n], bind)
    BY DEF MyIface, getIPs
  <1>2. PICK i \in status[n] : my.ips = i.ips
    BY <1>1 DEF getNodeNetwork
  <1>3. ips \in SUBSET Nat /\ ips \subseteq i.ips
    BY <1>2 DEF Network
  <1>4. ips # {} => Min(ips) \in ips
    BY <1>3, MinProperties
  <1>5. getIP(my, version) \in ips
    BY <1>4 DEF getIP
  <1> QED
    BY <1>3, <1>5

\* What a node at rest has registered.
LEMMA RegisteredAtRest ==
    ASSUME TypeInv, RegistrationInv, SettledInv, NEW n \in Nodes, Quiet(n),
           n \in api.spec.nodes, api.spec.on, None({"update", "write", "reload"})
    PROVE  /\ validate(n, store[n])
           /\ api.status[n] = Mine(n, api)
  <1>1. Settled(n) /\ Registration(n)
    BY DEF SettledInv, RegistrationInv
  <1>2. api.rv \in Nat /\ store[n].rv = api.rv
    BY DEF TypeInv, TypeOK, Object, Quiet
  <1>3. store[n] = api
    BY <1>1, <1>2 DEF Settled, Quiet
  <1>4. validate(n, store[n])
    BY <1>3 DEF validate
  <1>5. cache[n].lb # Nil /\ Same(cache[n].lb, api)
    BY <1>1, <1>2, <1>3, <1>4 DEF Settled, Quiet
  <1>6. Own(n, cache[n].lb)
    BY <1>1, <1>5 DEF Registration
  <1>7. Mine(n, cache[n].lb) = Mine(n, api)
    BY <1>5 DEF Same, Mine
  <1>8. api.status[n] = Mine(n, cache[n].lb)
    BY <1>5, <1>6 DEF Same, Own, Registered
  <1> QED
    BY <1>4, <1>7, <1>8

\* Instances of two nodes with one VIP are made from one provider.
LEMMA OneProvider ==
    ASSUME VIPsApart, NEW s \in Specs, NEW j \in Parts(s.ipvs), NEW k \in Parts(s.ipvs),
           NEW vip \in Chosen(Part(s.ipvs, j)), vip \in Chosen(Part(s.ipvs, k))
    PROVE  /\ j = k
           /\ \A n \in Nodes : \A i \in Ifaces[n] : vip \notin Usable(i)
  <1> DEFINE vips == [h \in {0} \cup DOMAIN s.ipvs.slaves |->
                        IF h = 0 THEN Range(s.ipvs.vips) ELSE Range(s.ipvs.slaves[h].vips)]
  <1>1. s.ipvs \in Ipvs
    BY SpecFields
  <1>2. \A h \in Parts(s.ipvs) : /\ Part(s.ipvs, h).vips \in Seq(Nat)
                                 /\ h \in {0} \cup DOMAIN s.ipvs.slaves
    BY <1>1, PartsType
  <1>3. ASSUME NEW h \in Parts(s.ipvs), vip \in Chosen(Part(s.ipvs, h))
        PROVE  h \in DOMAIN vips /\ vip \in vips[h] /\ vip # 0
    <2>1. vip \in Range(Part(s.ipvs, h).vips) \ {0}
      BY <1>2, <1>3, ChosenVIPs
    <2>2. vips[h] = Range(Part(s.ipvs, h).vips)
      BY <1>2 DEF Part
    <2> QED
      BY <1>2, <2>1, <2>2
  <1>4. \A h \in DOMAIN vips : /\ \A g \in DOMAIN vips : g # h => vips[g] \cap vips[h] \subseteq {0}
                               /\ \A n \in Nodes : \A i \in Ifaces[n] :
                                    vips[h] \cap Usable(i) = {}
    BY DEF VIPsApart
  <1> HIDE DEF vips
  <1>5. j \in DOMAIN vips /\ k \in DOMAIN vips /\ vip \in vips[j] /\ vip \in vips[k] /\ vip # 0
    BY <1>3
  <1> QED
    BY <1>4, <1>5

\* When the VIPs are kept apart, the nodes of a load balancer at rest form one VRRP
\* router for each VIP, whatever their networks are and however they got there.
THEOREM PeersAgreeCorrect ==
    ASSUME VIPsApart
    PROVE  Spec => []PeersAgree
  <1>1. TypeInv /\ RegistrationInv /\ SettledInv => PeersAgree
    <2> SUFFICES ASSUME TypeInv, RegistrationInv, SettledInv,
                        \A n \in api.spec.nodes : Quiet(n),
                        None({"update", "write", "reload"}), api.spec.on,
                        NEW n \in api.spec.nodes, NEW m \in api.spec.nodes,
                        NEW i \in keepalived[n].instances, NEW j \in keepalived[m].instances,
                        i.vip = j.vip
                 PROVE  /\ i.vrid = j.vrid
                        /\ i.allIPs = j.allIPs
                        /\ i.myIP \in j.allIPs \ {j.vip}
                        /\ n # m => i.priority # j.priority
                        /\ i.state = "MASTER" => j.priority <= i.priority
      BY DEF PeersAgree
    <2> DEFINE nodes == api.spec.nodes
               ipvs == api.spec.ipvs
               nets(k) == getIPs(nodes, api.status, ipvs, Part(ipvs, k).bind)
    <2>1. api.spec \in Specs /\ api.status \in [Nodes -> Network \cup {Nil}]
      BY DEF TypeInv, TypeOK, Object
    <2>2. nodes \in SUBSET Nodes /\ IsFiniteSet(nodes) /\ ipvs \in Ipvs /\ nodes \subseteq Nat
      BY <2>1, SpecFields, NetworkAssumption
    <2>3. \A h \in nodes : /\ keepalived[h].instances = KeepalivedOf(h, api).instances
                           /\ api.status[h] = Mine(h, api)
      BY <2>2, RegisteredAtRest, AtRest DEF Matches
    <2>4. PICK a \in Parts(ipvs) : \E my \in MyIface(n, nets(a)) :
                    /\ i.vip \in Chosen(Part(ipvs, a))
                    /\ i.vrid = Vrid(ipvs, a)
                    /\ i.priority = getNodePriority(n, nodes)
                    /\ i.state = "MASTER" => n = Max(nodes)
                    /\ i.myIP = getIP(my, getIPVersion(i.vip)) /\ i.myIP # 0
                    /\ i.allIPs = {getIP(p[2], getIPVersion(i.vip)) : p \in nets(a)} \ {0}
      BY <2>2, <2>3, InstanceOrigin
    <2>5. PICK b \in Parts(ipvs) :
                    /\ j.vip \in Chosen(Part(ipvs, b))
                    /\ j.vrid = Vrid(ipvs, b)
                    /\ j.priority = getNodePriority(m, nodes)
                    /\ j.allIPs = {getIP(p[2], getIPVersion(j.vip)) : p \in nets(b)} \ {0}
      BY <2>2, <2>3, InstanceOrigin
    <2>6. a = b /\ \A q \in Ifaces[n] : i.vip \notin Usable(q)
      <3>1. i.vip \in Chosen(Part(api.spec.ipvs, a)) /\ i.vip \in Chosen(Part(api.spec.ipvs, b))
        BY <2>4, <2>5
      <3>2. api.spec \in Specs /\ a \in Parts(api.spec.ipvs) /\ b \in Parts(api.spec.ipvs)
        BY <2>1, <2>4, <2>5
      <3> HIDE DEF nodes, ipvs, nets
      <3>3. a = b /\ \A h \in Nodes : \A q \in Ifaces[h] : i.vip \notin Usable(q)
        BY <3>1, <3>2, OneProvider
      <3>4. n \in Nodes
        BY <2>2 DEF nodes
      <3> QED
        BY <3>3, <3>4
    <2>7. i.vrid = j.vrid /\ i.allIPs = j.allIPs
      BY <2>4, <2>5, <2>6
    <2>8. i.myIP \in j.allIPs \ {j.vip}
      <3>1. PICK my \in MyIface(n, nets(a)) :
                    i.myIP = getIP(my, getIPVersion(i.vip)) /\ i.myIP # 0
        BY <2>4
      <3>2. PICK p \in nets(a) : p[2] = my
        BY DEF MyIface
      <3>3. i.myIP \in i.allIPs
        BY <2>4, <3>1, <3>2
      <3>4. api.status[n] = Mine(n, api) /\ Mine(n, api) \in Network
        BY <2>2, <2>3, NetworkUnique
      <3>5. PICK q \in Mine(n, api) : i.myIP \in q.ips
        BY <2>2, <3>1, <3>4, AddressRegistered
      <3>6. \E r \in Ifaces[n] : q.ips = Usable(r)
        BY <3>5 DEF Mine, getCurrentNodeIfaceIPs
      <3>7. i.myIP # i.vip
        BY <2>6, <3>5, <3>6
      <3> QED
        BY <2>7, <3>3, <3>7
    <2>9. i.priority \in Nat /\ j.priority \in Nat
      BY <2>2, <2>4, <2>5, PriorityType
    <2>10. (n < m => i.priority < j.priority) /\ (m < n => j.priority < i.priority)
      BY <2>2, <2>4, <2>5, PriorityOrder
    <2>11. n # m => i.priority # j.priority
      BY <2>2, <2>9, <2>10
    <2>12. i.state = "MASTER" => j.priority <= i.priority
      <3>1. ASSUME i.state = "MASTER" PROVE j.priority <= i.priority
        <4>1. m <= n
          BY <2>2, <2>4, <3>1, MaxProperties
        <4>2. CASE m = n
          BY <2>4, <2>5, <2>9, <4>2
        <4>3. CASE m # n
          BY <2>2, <2>9, <2>10, <4>1, <4>3
        <4> QED
          BY <4>2, <4>3
      <3> QED
        BY <3>1
    <2> QED
      BY <2>7, <2>8, <2>11, <2>12
  <1> QED
    BY <1>1, TypeInvCorrect, RegistrationInvCorrect, SettledInvCorrect, PTL
=============================================================================
