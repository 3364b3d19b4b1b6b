------------------------------- MODULE Ipvsdr --------------------------------
(***************************************************************************)
(* providers/ipvsdr.Provider.OnUpdate on every node of one load balancer:  *)
(* the nodes register their network in the status of the shared            *)
(* LoadBalancer object with optimistic concurrency, and each configures    *)
(* its own iptables chains and its own keepalived from what all nodes have *)
(* registered.                                                             *)
(*                                                                         *)
(* The lister returns a pointer into the informer's store, and             *)
(* registerNodeNetwork assigns to the object behind it. On one node, equal *)
(* versions therefore mean the same object: the store's, the one OnUpdate  *)
(* works on and the one in Provider.cache change together.                 *)
(*                                                                         *)
(* Simplifications: the generic provider (see GenericProvider) is reduced  *)
(* to a pending flag and a retry counter per node; the network of a node   *)
(* does not change while the provider runs, except for the VIPs keepalived *)
(* adds and removes; the two ConfigMaps are one version number; the router *)
(* id of the status is the default one. See KeepalivedConfig for what is   *)
(* registered and configured, and NodeSetup for the iptables chains.       *)
(***************************************************************************)
EXTENDS KeepalivedConfig

CONSTANTS Specs,          \* the specifications somebody may write
          FirstSpec,      \* the one it is created with
          MaxRetries,     \* syncqueue.maxRetries
          MaxSpecWrites,  \* bound: writes of the specification
          MaxCM,          \* bound: changes of the ConfigMaps, on each node
          MaxFaults,      \* bound: failing calls
          MaxTotal        \* bound: all of these together

\* on: the object has an Ipvsdr provider and no deletion timestamp; nodes:
\* Spec.Nodes.Names; ipvs: Spec.Providers.Ipvsdr; http: Spec.Proxy.HTTPPort.
ASSUME SpecsAssumption ==
    /\ Specs \subseteq [on : BOOLEAN, nodes : SUBSET Nodes, ipvs : Ipvs, http : Nat]
    /\ FirstSpec \in Specs

ASSUME IpvsdrAssumption ==
    /\ MaxRetries \in Nat
    /\ MaxSpecWrites \in Nat
    /\ MaxCM \in Nat
    /\ MaxFaults \in Nat
    /\ MaxTotal \in Nat

VARIABLES api,        \* the LoadBalancer object at the API server
          writes,     \* writes of its specification so far
          store,      \* the object in each node's informer store
          cmStore,    \* version of the ConfigMaps in each node's informer store
          pending,    \* the key is queued on the node, or waits for its retry
          retries,    \* failures counted for the key
          dropped,    \* the last sync gave up
          pc,         \* where OnUpdate is
          obj,        \* the object it works on
          lbChange,   \* its local variables
          ports,
          cache,      \* Provider.cache
          iptables,   \* what the iptables chains were made from
          file,       \* what keepalived.conf was made from
          cfgMD5,     \* what Provider.cfgMD5 is the checksum of
          keepalived, \* what the running keepalived was configured from
          hit         \* kinds of calls that have failed

nodeVars == <<pending, retries, dropped, pc, obj, lbChange, ports, cache, iptables, file, cfgMD5,
              keepalived>>
vars == <<api, writes, store, cmStore, nodeVars, hit>>

-----------------------------------------------------------------------------
(* Data                                                                     *)

\* What a node registers: some of its interfaces.
Network == SUBSET [name : Nat \ {0}, ips : SUBSET Nat]

\* The status has the network of every registered node.
Object == [rv : Nat, spec : Specs, status : [Nodes -> Network \cup {Nil}]]

\* The HTTP port, or its default when it is out of range.
GetHTTPPort(o) == IF o.spec.http > 1 /\ o.spec.http < 65535 THEN o.spec.http ELSE 80

\* Listen ports: the HTTP port and what the ConfigMaps export.
Ports == [http : Nat, cm : 0..MaxCM]
PortsOf(o, c) == [http |-> GetHTTPPort(o), cm |-> c]

\* What node n makes its iptables chains from, nothing when its interface is not
\* found: the VIPs whose traffic is marked, the interface it comes in by, the MAC
\* addresses of the nodes and the ports.
IptablesOf(n, o, p) ==
    LET ipvs == o.spec.ipvs
        nets == getIPs(o.spec.nodes, o.status, ipvs, ipvs.bind)
    IN {[vips |-> IF ipvs.passive THEN {} ELSE {ipvs.vips[k] : k \in getVIPs(ipvs)},
         iface |-> my.name, macs |-> {<<q[1], q[2].name>> : q \in nets}, ports |-> p] :
            my \in MyIface(n, nets)}

\* What UpdateConfig writes on node n.
KeepalivedOf(n, o) ==
    getKeepalivedConfig(n, o.spec.nodes, o.status, o.spec.ipvs, GetHTTPPort(o))

IptablesConf == [vips : SUBSET Nat, iface : Nat, macs : SUBSET (Nodes \X Nat), ports : Ports]
Instance == [name : Nat \X {4, 6}, state : {"MASTER", "BACKUP"}, vrid : Nat, priority : Nat,
             myIP : Nat, allIPs : SUBSET Nat, vip : Nat]
KeepalivedConf == [instances : SUBSET Instance,
                   servers : SUBSET [vip : Nat, realServer : SUBSET Nat], http : Nat]

ASSUME NilAssumption == Nil \notin Object /\ Nil \notin KeepalivedConf

FaultKinds == {"local", "update", "lost", "write", "reload"}

TypeOK ==
    /\ api \in Object
    /\ writes \in 0..MaxSpecWrites
    /\ store \in [Nodes -> Object]
    /\ cmStore \in [Nodes -> 0..MaxCM]
    /\ pending \in [Nodes -> BOOLEAN]
    /\ retries \in [Nodes -> 0..MaxRetries]
    /\ dropped \in [Nodes -> BOOLEAN]
    /\ pc \in [Nodes -> {"idle", "register", "update", "iptables", "keepalived"}]
    /\ obj \in [Nodes -> Object \cup {Nil}]
    /\ lbChange \in [Nodes -> BOOLEAN]
    /\ ports \in [Nodes -> Ports \cup {Nil}]
    /\ cache \in [Nodes -> [lb : Object \cup {Nil}, ports : Ports \cup {Nil}]]
    /\ iptables \in [Nodes -> IptablesConf \cup {Nil}]
    /\ file \in [Nodes -> KeepalivedConf \cup {Nil}]
    /\ cfgMD5 \in [Nodes -> KeepalivedConf \cup {Nil}]
    /\ keepalived \in [Nodes -> KeepalivedConf \cup {Nil}]
    /\ hit \subseteq FaultKinds

\* Every provider has listed the object and its first event is queued.
Init ==
    /\ api = [rv |-> 1, spec |-> FirstSpec, status |-> [n \in Nodes |-> Nil]]
    /\ writes = 0
    /\ store = [n \in Nodes |-> api]
    /\ cmStore = [n \in Nodes |-> 0]
    /\ pending = [n \in Nodes |-> TRUE]
    /\ retries = [n \in Nodes |-> 0]
    /\ dropped = [n \in Nodes |-> FALSE]
    /\ pc = [n \in Nodes |-> "idle"]
    /\ obj = [n \in Nodes |-> Nil]
    /\ lbChange = [n \in Nodes |-> FALSE]
    /\ ports = [n \in Nodes |-> Nil]
    /\ cache = [n \in Nodes |-> [lb |-> Nil, ports |-> Nil]]
    /\ iptables = [n \in Nodes |-> Nil]
    /\ file = [n \in Nodes |-> Nil]
    /\ cfgMD5 = [n \in Nodes |-> Nil]
    /\ keepalived = [n \in Nodes |-> Nil]
    /\ hit = {}

CMChanges == MapThenSumSet(LAMBDA m : cmStore[m], Nodes)
Bounded == writes + CMChanges + Cardinality(hit) < MaxTotal

\* A call of the given kind fails.
Fault(kind) ==
    /\ Bounded
    /\ kind \notin hit
    /\ Cardinality(hit) < MaxFaults
    /\ hit' = hit \cup {kind}

-----------------------------------------------------------------------------
(* The cluster                                                              *)

WriteSpec(s) ==
    /\ Bounded /\ writes < MaxSpecWrites
    /\ s # api.spec
    /\ api' = [rv |-> api.rv + 1, spec |-> s, status |-> api.status]
    /\ writes' = writes + 1
    /\ UNCHANGED <<store, cmStore, nodeVars, hit>>

\* Mutant: an event that comes while the object is being synced is ignored.
WatchUnlessSyncing(n) ==
    /\ store[n].rv < api.rv
    /\ store' = [store EXCEPT ![n] = api]
    /\ pending' = [pending EXCEPT ![n] = @ \/ pc[n] = "idle"]
    /\ UNCHANGED <<api, writes, cmStore, retries, dropped, pc, obj, lbChange, ports, cache,
                   iptables, file, cfgMD5, keepalived, hit>>

\* The watch of a node delivers the newest object.
Watch(n) ==
    /\ store[n].rv < api.rv
    /\ store' = [store EXCEPT ![n] = api]
    /\ pending' = [pending EXCEPT ![n] = TRUE]
    /\ UNCHANGED <<api, writes, cmStore, retries, dropped, pc, obj, lbChange, ports, cache,
                   iptables, file, cfgMD5, keepalived, hit>>

\* Nothing but OnUpdate reads the ConfigMaps: a change is modelled when it
\* reaches the informer of a node.
WatchCM(n) ==
    /\ Bounded /\ cmStore[n] < MaxCM
    /\ cmStore' = [cmStore EXCEPT ![n] = @ + 1]
    /\ pending' = [pending EXCEPT ![n] = TRUE]
    /\ UNCHANGED <<api, writes, store, retries, dropped, pc, obj, lbChange, ports, cache, iptables,
                   file, cfgMD5, keepalived, hit>>

-----------------------------------------------------------------------------
(* OnUpdate                                                                 *)

\* OnUpdate returns to the queue, which forgets, retries or drops the key.
Return(n, ok) ==
    /\ pc' = [pc EXCEPT ![n] = "idle"]
    /\ obj' = [obj EXCEPT ![n] = Nil]
    /\ lbChange' = [lbChange EXCEPT ![n] = FALSE]
    /\ ports' = [ports EXCEPT ![n] = Nil]
    /\ LET retry == ~ok /\ retries[n] < MaxRetries IN
        /\ retries' = [retries EXCEPT ![n] = IF retry THEN @ + 1 ELSE 0]
        /\ pending' = [pending EXCEPT ![n] = @ \/ retry]
        /\ dropped' = [dropped EXCEPT ![n] = ~ok /\ ~retry]

validate(n, o) == o.spec.on /\ n \in o.spec.nodes

\* Mutant: the registered networks are not compared.
isLBSpecChanged(n, o) ==
    LET old == cache[n].lb IN
    ~ /\ old # Nil
      /\ old.spec.nodes = o.spec.nodes
      /\ old.spec.ipvs = o.spec.ipvs
      /\ old.spec.on = o.spec.on

isLBChanged(n, o) ==
    LET old == cache[n].lb IN
    ~ /\ old # Nil
      /\ old.spec.nodes = o.spec.nodes
      /\ old.spec.ipvs = o.spec.ipvs
      /\ old.status = o.status
      /\ old.spec.on = o.spec.on

isListenPortChanged(n, o) == cache[n].ports # PortsOf(o, cmStore[n])

\* The worker takes the key, gets the object from the lister and calls
\* OnUpdate, which ends here for a load balancer that is not this node's or has
\* not changed.
OnUpdate(n) ==
    /\ pc[n] = "idle"
    /\ pending[n]
    /\ LET o == store[n]
           changed == isLBChanged(n, o) \/ isListenPortChanged(n, o)
       IN IF validate(n, o) /\ changed
          THEN /\ pc' = [pc EXCEPT ![n] = "register"]
               /\ obj' = [obj EXCEPT ![n] = o]
               /\ lbChange' = [lbChange EXCEPT ![n] = isLBChanged(n, o)]
               /\ ports' = [ports EXCEPT ![n] = PortsOf(o, cmStore[n])]
               /\ pending' = [pending EXCEPT ![n] = FALSE]
               /\ UNCHANGED <<retries, dropped>>
          ELSE /\ pending' = [pending EXCEPT ![n] = FALSE]
               /\ retries' = [retries EXCEPT ![n] = 0]
               /\ dropped' = [dropped EXCEPT ![n] = FALSE]
               /\ UNCHANGED <<pc, obj, lbChange, ports>>
    /\ UNCHANGED <<api, writes, store, cmStore, cache, iptables, file, cfgMD5, keepalived, hit>>

\* Mutant: the other nodes' registrations are not carried over.
RegisteredAlone(n, o, my) == [m \in Nodes |-> IF m = n THEN my ELSE Nil]

\* Mutant: the interfaces are registered without a name.
RegisteredNameless(n, o, my) ==
    [m \in Nodes |-> IF m = n THEN {[i EXCEPT !.name = 0] : i \in my} ELSE o.status[m]]

\* registerNodeNetwork keeps the registrations of the nodes in the
\* specification and adds its own.
Registered(n, o, my) ==
    [m \in Nodes |-> IF m = n THEN my ELSE IF m \in o.spec.nodes THEN o.status[m] ELSE Nil]

\* The network of node n, whose keepalived may hold the VIPs or not.
CurrentNetworks(n, o) ==
    LET nns == getNodeNetSelector(n, getAllBinds(o.spec.ipvs))
        held == IF keepalived[n] = Nil THEN {}
                ELSE {{WithVIPs(i, keepalived[n]) : i \in Ifaces[n]}}
    IN {getCurrentNodeIfaceIPs(nns, present) : present \in {Ifaces[n]} \cup held}

\* The assignment to lb.Status is seen through every pointer to the object.
Assign(o, rv, status) == IF o # Nil /\ o.rv = rv THEN [o EXCEPT !.status = status] ELSE o

registerNodeNetwork(n) ==
    /\ pc[n] = "register"
    /\ \E my \in CurrentNetworks(n, obj[n]) :
       LET rv == obj[n].rv
           new == Registered(n, obj[n], my)
       IN IF new = obj[n].status
          THEN /\ pc' = [pc EXCEPT ![n] = "iptables"]
               /\ UNCHANGED <<obj, store, cache>>
          ELSE /\ pc' = [pc EXCEPT ![n] = "update"]
               /\ obj' = [obj EXCEPT ![n] = Assign(@, rv, new)]
               /\ store' = [store EXCEPT ![n] = Assign(@, rv, new)]
               /\ cache' = [cache EXCEPT ![n].lb = Assign(@, rv, new)]
    /\ UNCHANGED <<api, writes, cmStore, pending, retries, dropped, lbChange, ports, iptables,
                   file, cfgMD5, keepalived, hit>>

\* A node is not in the lister, or the interfaces cannot be listed.
LocalError(n) ==
    /\ pc[n] \in {"register", "iptables"}
    /\ Fault("local")
    /\ Return(n, FALSE)
    /\ UNCHANGED <<api, writes, store, cmStore, cache, iptables, file, cfgMD5, keepalived>>

\* Update is accepted for the version it is based on; a conflict counts as
\* success, because another event is on the way.
UpdateLB(n) ==
    /\ pc[n] = "update"
    /\ IF obj[n].rv = api.rv
       THEN api' = [rv |-> api.rv + 1, spec |-> obj[n].spec, status |-> obj[n].status]
       ELSE UNCHANGED api
    /\ Return(n, TRUE)
    /\ UNCHANGED <<writes, store, cmStore, cache, iptables, file, cfgMD5, keepalived, hit>>

\* Update does not reach the server.
UpdateError(n) ==
    /\ pc[n] = "update"
    /\ Fault("update")
    /\ Return(n, FALSE)
    /\ UNCHANGED <<api, writes, store, cmStore, cache, iptables, file, cfgMD5, keepalived>>

\* The answer to an Update that was accepted is lost.
UpdateLost(n) ==
    /\ pc[n] = "update"
    /\ Fault("lost")
    /\ obj[n].rv = api.rv
    /\ api' = [rv |-> api.rv + 1, spec |-> obj[n].spec, status |-> obj[n].status]
    /\ Return(n, FALSE)
    /\ UNCHANGED <<writes, store, cmStore, cache, iptables, file, cfgMD5, keepalived>>

\* The interface of the node is not among the registered ones.
NoSelfIface(n) ==
    /\ pc[n] = "iptables"
    /\ IptablesOf(n, obj[n], ports[n]) = {}
    /\ Return(n, FALSE)
    /\ UNCHANGED <<api, writes, store, cmStore, cache, iptables, file, cfgMD5, keepalived, hit>>

\* onUpdateIPtables flushes the chains and fills them again.
onUpdateIPtables(n) ==
    /\ pc[n] = "iptables"
    /\ \E new \in IptablesOf(n, obj[n], ports[n]) : iptables' = [iptables EXCEPT ![n] = new]
    /\ IF lbChange[n]
       THEN /\ pc' = [pc EXCEPT ![n] = "keepalived"]
            /\ UNCHANGED <<cache, pending, retries, dropped, obj, lbChange, ports>>
       ELSE /\ cache' = [cache EXCEPT ![n] = [lb |-> obj[n], ports |-> ports[n]]]
            /\ Return(n, TRUE)
    /\ UNCHANGED <<api, writes, store, cmStore, file, cfgMD5, keepalived, hit>>

\* onUpdateKeepalived: the checksum is remembered before the reload, which may
\* fail; errors of writing the file are ignored.
onUpdateKeepalived(n) ==
    /\ pc[n] = "keepalived"
    /\ \E conf \in {KeepalivedOf(n, obj[n])} :
        \/ file' = [file EXCEPT ![n] = conf] /\ UNCHANGED hit
        \/ Fault("write") /\ UNCHANGED file
    /\ cfgMD5' = [cfgMD5 EXCEPT ![n] = file'[n]]
    /\ keepalived' = [keepalived EXCEPT ![n] = IF file'[n] = cfgMD5[n] THEN @ ELSE file'[n]]
    /\ cache' = [cache EXCEPT ![n] = [lb |-> obj[n], ports |-> ports[n]]]
    /\ Return(n, TRUE)
    /\ UNCHANGED <<api, writes, store, cmStore, iptables>>

ReloadError(n) ==
    /\ pc[n] = "keepalived"
    /\ Fault("reload")
    /\ \E conf \in {KeepalivedOf(n, obj[n])} :
        /\ conf # cfgMD5[n]
        /\ file' = [file EXCEPT ![n] = conf]
        /\ cfgMD5' = [cfgMD5 EXCEPT ![n] = conf]
    /\ Return(n, FALSE)
    /\ UNCHANGED <<api, writes, store, cmStore, cache, iptables, keepalived>>

-----------------------------------------------------------------------------
Sync(n) ==
    \/ OnUpdate(n)
    \/ registerNodeNetwork(n)
    \/ UpdateLB(n)
    \/ NoSelfIface(n)
    \/ onUpdateIPtables(n)
    \/ onUpdateKeepalived(n)

Failure(n) ==
    \/ LocalError(n)
    \/ UpdateError(n)
    \/ UpdateLost(n)
    \/ ReloadError(n)

Next ==
    \/ \E s \in Specs : WriteSpec(s)
    \/ \E n \in Nodes : Watch(n)
    \/ \E n \in Nodes : WatchCM(n)
    \/ \E n \in Nodes : Sync(n)
    \/ \E n \in Nodes : Failure(n)

Spec == Init /\ [][Next]_vars

\* As long as a watch has something to deliver or a worker something to do, one of
\* them goes on: less than the fairness to each of them that the code gives, and
\* enough. Nothing makes anybody write the specification or a call fail.
Fairness == WF_vars(\E n \in Nodes : Watch(n) \/ Sync(n))

FairSpec == Spec /\ Fairness

-----------------------------------------------------------------------------
(* Properties                                                               *)

\* A node's Update never touches what is not the node's own, whether it is accepted,
\* refused or its answer lost: neither the specification nor the registration of any
\* other node of the load balancer, however the nodes' updates and the writes of the
\* specification interleave.
OthersUntouched ==
    [][\A n \in Nodes :
         (pc[n] = "update" /\ pc'[n] # "update") =>
            /\ api'.spec = api.spec
            /\ \A m \in api.spec.nodes \ {n} : api'.status[m] = api.status[m]]_vars

\* No failure of these kinds has happened.
None(kinds) == hit \cap kinds = {}

\* Nothing is on its way to the node.
Quiet(n) ==
    /\ pc[n] = "idle" /\ ~pending[n] /\ ~dropped[n]
    /\ store[n].rv = api.rv

\* A node at rest has configured its iptables chains and its keepalived from
\* the newest object, although isLBChanged compares it with a cached object
\* that registerNodeNetwork may have changed. (The port of keepalived's health
\* check is left out: isLBChanged does not compare it.)
ConfigCurrent ==
    \A n \in Nodes :
        (Quiet(n) /\ None({"update", "write", "reload"}) /\ validate(n, store[n])) =>
            /\ iptables[n] \in IptablesOf(n, api, PortsOf(api, cmStore[n]))
            /\ keepalived[n] # Nil
            /\ [keepalived[n] EXCEPT !.http = 0] = [KeepalivedOf(n, api) EXCEPT !.http = 0]

\* What whoever writes the specifications has to see to, for nothing in the code
\* does: no two providers of a load balancer have a VIP in common, and no VIP is the
\* address of a node.
VIPsApart ==
    \A s \in Specs :
        LET vips == [k \in {0} \cup DOMAIN s.ipvs.slaves |->
                        IF k = 0 THEN Range(s.ipvs.vips) ELSE Range(s.ipvs.slaves[k].vips)]
        IN \A k \in DOMAIN vips :
            /\ \A j \in DOMAIN vips : j # k => vips[j] \cap vips[k] \subseteq {0}
            /\ \A n \in Nodes : \A i \in Ifaces[n] : vips[k] \cap Usable(i) = {}

\* When all nodes of the load balancer are at rest their keepaliveds form one VRRP
\* router for each VIP: same router id, same addresses of all nodes, among them
\* everybody's own source address and never the VIP, which the node that holds it
\* has on the same interface; different priorities, and only the highest one starts
\* as master.
PeersAgree ==
    ((\A n \in api.spec.nodes : Quiet(n)) /\ None({"update", "write", "reload"}) /\ api.spec.on) =>
        \A n, m \in api.spec.nodes :
            \A i \in keepalived[n].instances, j \in keepalived[m].instances :
                i.vip = j.vip =>
                    /\ i.vrid = j.vrid
                    /\ i.allIPs = j.allIPs
                    /\ i.myIP \in j.allIPs \ {j.vip}
                    /\ n # m => i.priority # j.priority
                    /\ i.state = "MASTER" => j.priority <= i.priority

\* Two instances of one keepalived never share router id and IP version: each would
\* take the other's advertisements for its own. A provider with more VIPs than the
\* two the code considers (ipvsdr.go:377) is excepted: each VIP is only compared
\* with the one before.
DistinctRouters ==
    \A n \in Nodes : keepalived[n] # Nil =>
        \A i, j \in keepalived[n].instances :
            (i.vip # j.vip /\ i.vrid = j.vrid) =>
                \/ getIPVersion(i.vip) # getIPVersion(j.vip)
                \/ \E s \in Specs : \E kl \in {s.ipvs} \cup Range(s.ipvs.slaves) :
                       Len(kl.vips) > 2 /\ {i.vip, j.vip} \subseteq Range(kl.vips)

\* "consider current handler finishes successfully, because another change event
\* is on the way": giving up on a conflict still registers every node of the
\* load balancer in the end.
AllRegistered ==
    <>[](None({"update"}) /\ api.spec.on =>
            \A n \in api.spec.nodes : api.status[n] # Nil \/ dropped[n])

\* "handles error when sync obj error and retry n times" (syncqueue): a
\* registration whose Update failed is tried again until it is made or dropped.
RegistrationRetried ==
    <>[](api.spec.on => \A n \in api.spec.nodes : api.status[n] # Nil \/ dropped[n])

=============================================================================
