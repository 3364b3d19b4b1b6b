# A verification project for loadbalancer-provider

TLA+ models of the providers in this repository, TLC configurations that check
them on small instances, and TLAPS proofs of the properties that matter most.
Every definition is translated from the Go source; `PROJECT.json` maps each one
to its lines.

## The system

A *provider* is a process that watches one `LoadBalancer` object of a
Kubernetes cluster and makes the world agree with it. Three programs
(`cmd/ipvsdr`, `cmd/azure`, `cmd/ingress`) plug a backend into one generic
provider.

| Part | State it keeps | Operations | Talks to |
|---|---|---|---|
| generic provider (`core/provider`) | informer stores, work queue, names of the two ConfigMaps, `stopCh`, `shutdown` | event handlers, `syncLoadBalancer`, `Start`, `Stop` | API server (watch), backend (`OnUpdate`, `Start`, `WaitForStart`, `Stop`) |
| work queue (vendored `syncqueue`, `workqueue`) | `queue`, `dirty`, `processing`, delayed keys, failure counters | `Enqueue`, `Get`, `Done`, `handleSyncError`, `ShutDown` | handlers and the worker |
| mains (`cmd/*`) | none | read the object, build the provider, `handleSigterm` | generic provider |
| ipvsdr backend (`providers/ipvsdr`) | cached object and ports, checksum of keepalived.conf, original sysctls | `OnUpdate`: register the node's network in the object's status, iptables chains, keepalived.conf and reload; `Start`, `Stop` | API server (`Update`), the other nodes through the object, iptables, keepalived |
| execd (`pkg/execd`) | current command, `stopCh`, `errCh` | `RunForever`, `keepalive`, `reportError`, `Stop` | the keepalived process |
| azure backend (`providers/azure`) | last Azure provider, cached object and rules, `cleanAzure` | `OnUpdate`: create and configure the Azure load balancer, pools and security groups, or clean up; `Stop` | API server (`Patch`), Azure |
| ingress backend (`providers/ingress`) | original sysctls | `Start`, `Stop` (sysctls), empty `OnUpdate` | kernel |
| sysctl (`core/pkg/sysctl`) | none | `BulkModify`, get and set | kernel |
| options, client, node name, version | none | flags and look-ups at start | |

What is hard, and what makes each part correct:

* *generic provider*: informer goroutines, the worker, the delaying queue and
  Stop run concurrently. Correct: no update of what the provider watches is
  lost between the store and the backend; the backend is updated after it was
  started and stopped once; Stop ends.
* *ipvsdr*: every node of a load balancer writes the same object. Correct: a
  node never damages another node's registration or the specification; all
  nodes are registered in the end; a node at rest is configured from the newest
  object, and the nodes together form one VRRP router per VIP. The chains are
  flushed and refilled while traffic passes; at no moment may a node take
  traffic back that a neighbour has already balanced.
* *execd*: a ticker, one `Wait` per process and Stop share `c.cmd` without
  locks. Correct: one daemon at a time, a dead one is replaced, none is left
  after Stop.
* *azure*: several remote calls, each of which can fail, per sync. Correct: the
  Azure load balancer exists while it is wanted and is gone afterwards, the
  security groups allow exactly the exported ports and keep the user's rules.
* *sysctl*: changed one key at a time. Correct: what Stop writes back is what
  was there before the first Start.

`PROJECT.json` lists under `hazards` every place where this can go wrong and a
test would hardly reach it, with the properties that watch it.

## Modules

| Module | Models |
|---|---|
| `SyncQueue` | the methods of the work queue as operators, to be conjoined with a step of their caller |
| `GenericProvider` | extends `SyncQueue`: cluster and informers, handlers, worker, Start, Stop |
| `ProviderContract` | abstract: what the generic provider promises a backend |
| `MCGenericProvider` | its instances for TLC |
| `GenericProviderProofs` | theorems about `GenericProvider` |
| `Execd` | `execd.D` with its goroutines and the processes it starts |
| `ExecdProofs` | theorems about `Execd` |
| `KeepalivedConfig` | pure operators: which network a node registers and uses, the VRRP instances and virtual servers of its keepalived |
| `Ipvsdr` | extends `KeepalivedConfig`: `OnUpdate` of the ipvsdr backend on all nodes of one load balancer |
| `MCIpvsdr` | its instances for TLC |
| `IpvsdrProofs` | theorems about `Ipvsdr` and `KeepalivedConfig` |
| `NodeSetup` | what the ipvsdr and ingress backends change on their node and undo: kernel parameters, iptables chains rule by rule |
| `MCNodeSetup` | its instance for TLC |
| `NodeSetupProofs` | theorems about `NodeSetup` |
| `Azure` | the azure backend's OnUpdate, cleanup and Stop, call by call |
| `MCAzure` | its instances for TLC |
| `AzureProofs`, `AzureCalmProofs`, `AzureSyncProofs` | theorems about `Azure`, each module extending the one before: types and the reserve flag; runs without failures; the synchronisation |
| `AzureSecurityGroups` | the azure backend's synchronisation of security groups |
| `AzureSecurityGroupsProofs` | theorems about `AzureSecurityGroups` |

**SyncQueue / GenericProvider.** A load balancer is its version, whether it is
alive, whether it passes `ValidateLoadBalancer`, and the ConfigMap names of its
status; a ConfigMap is its version and the event that made it. Each goroutine
has a program counter: `spc` for Start, `wpc` for the worker, `tpc[t]` for a
caller of Stop. A step of the worker is what it does between two points where
another goroutine can interfere: it takes a key, reads the lister
(`SyncLookup`), takes over ConfigMap names (`SyncSetConfigMaps`), reads the
ConfigMaps (`OnUpdateRead`), and returns (`OnUpdateOk`, `OnUpdateError`, which
include `handleSyncError` and `Done`). `seenLB`, `seenCM` and `dropped` are
history: what the last successful OnUpdate worked on, and whether the last sync
gave up. `filterConfigMap` reads strings the worker assigns without a lock;
`TornRead` is the fault such a read may cause. The FIFO order of the queue, the
length of delays, and objects without handlers (Nodes, Secrets) are left out.

**ProviderContract.** What a backend may rely on: one Start, at most one Stop,
OnUpdate calls one at a time after Start, each with the load balancer that was
the newest when the call was prepared. `GenericProvider!Contract` is the
refinement mapping: the stored version for `version`, the worker's object
for `handed`, the last successful one for `applied`, and the program counters of
Start and Stop.

**Execd.** Processes are numbered; a dead one stays in /proc as a zombie until
its `Wait` returns. `cur` is the process behind `c.cmd` (0: none). `Shutdown`
is shared by Stop and by keepalive's own call of Stop: the SIGTERM, the grace
period, the two reads of `c.cmd` in `IsRunning` and the SIGKILL are steps of their
own, between which keepalive may replace `c.cmd` by one without a process. A tick's
check and its replacement of `c.cmd` are two steps. `victim` is history: the process
that was current when Stop began.

**KeepalivedConfig / Ipvsdr.** The object at the API server is a version, a
specification and the networks the nodes have registered. Each node has its
informer's copy, the object OnUpdate works on, the cached one, what its iptables
chains were made from, and the contents of keepalived.conf, of the checksum and
of the running keepalived. `OthersUntouched` is about each write by the node that
makes it: the specification and the registrations of the other nodes in the list
are what they were. Objects with one version on one node are one pointer,
so the assignment in `registerNodeNetwork` changes them all (`Assign`). The
interfaces of a node are constants, but its keepalived may hold its VIPs or not
whenever they are listed (`CurrentNetworks`). Addresses and names are numbers,
for their order matters: `getIP` takes the first address, `getNodePriority` the
position of the node. The generic provider is reduced to a pending flag and a
retry counter; `MaxFaults` calls may fail (node look-up, `Update` refused or its
answer lost, writing the file, reload).

**NodeSetup.** One process at a time, either backend, with its threads: Start,
the worker's OnUpdate, Stop. `BulkModify` sets one parameter per step and may
fail at each; ensureChain, flushChain and deleteChain are sequences of iptables
commands, one per step, that may fail each; OnUpdate makes one rule per step.
The process may be killed and started again. `lost` and `messy` are history:
which backends cannot know the original parameters any more, and what has
interfered with the chains.

**Azure.** An object is its specification (Azure provider or not, reserve flag,
frontend, nodes), whether the name, the finalizer and the status are set; the
balancer in Azure is its frontend, rules, pool members; `open` are the ports the
provider's rules open in the security group of each node. `l` is the Provider:
oldAzureProvider, whether it is the Azure provider of `l.lb` itself or a copy,
`l.lb` as far as `isLBChanged` compares it, the rules, `cleanAzure`. One step
per call that changes something in Azure or at the API server, with the Get before
it; each may be refused, or done and reported as failed. Two parts of the cleanup
are coarser, and may leave any part of their work done when they fail: closing the
groups (`cleanUpSecurityGroup`), and the attempts of a minute to recover a balancer
(`recoverDefaultAzureLoadBalancer`). A sync handles the groups one by one, in any
order: those of detached nodes lose their rules, then each other group gets the
ports left in `job.want`, the maps tcp and udp, and what it had already is deleted
from them. So, with several nodes, a second sync takes ports from all groups but
one; `Synced` asks for what the code keeps to, that the groups of the nodes open no
other ports than the balancer's and one of them all of those (`GroupsOpen`). With
one node that is its group exactly. The stopping thread's cleanup interleaves with
the worker's, and the process may be killed, panic and be restarted with an empty
memory. `Exit` ends a stopped process whatever its worker does, while the code
waits for OnUpdate to return: the model has more behaviours than the code there.

**AzureSecurityGroups.** A group is a set of rules; of a rule its prefix (tcp,
udp, or none: the owner's), port, priority, and whether the other settings are
the default ones. `Call` is `syncSecurityGroupRules` with the groups that
`getSuitableSecurityGroup` finds (`cleanUpSecurityGroup` is a call with no group
to synchronise); `DeleteGet` and `SyncGet` read a group and compute what
`Put` writes back, so that the owner can edit it in between (all rules are inbound:
Azure's priorities are unique for each direction); `want` is the pair
of maps that the loop over the groups shares. Go's random order of maps is a
choice: of the group, of the deleted priority that is reused, of the rule that
remains when two name one port. `raced` and `owners` are history.

## Runs

Bounds are constants of the modules, named in their comments.

| Run | Checks | Bounds and why they suffice |
|---|---|---|
| `gp_sync` | `TypeOK`, `QueueConsistent`, `NoLostLBUpdate`, `NoLostCMUpdate` | own and foreign load balancer, two ConfigMap names, two versions of each, two undelivered events, one retry: an update can overtake a sync at every point, a name can be taken over, a retry can meet a new event |
| `gp_stop` | `UpdateAfterStart`, `StopOnce`, `StopTerminates`, `EventuallySynced`, `ImplementsContract` | two callers of Stop at any moment of Start, two versions, one retry |
| `gp_rename` | violates `RightConfigMaps` | three versions of the load balancer |
| `execd_keep` | `TypeOK`, `OneDaemon`, `StopKillsCurrent`, `DaemonRestarted`, `KeepaliveEnds` | three processes, two tolerated failures, one failing look-up: a process dies before, while and after Stop looks at it |
| `execd_final` | violates `StopIsFinal` | same, no failing look-up |
| `ipvsdr_sync` | `TypeOK`, `ConfigCurrent`, `PeersAgree`, `DistinctRouters`, `OthersUntouched`, `AllRegistered` | two nodes with two interfaces each; at most two of: a change of the specification (a node leaves and the HTTP port changes, the provider is bound to an interface and gets three slaves, or to an address only one node has and gets three VIPs), a change of the ConfigMaps as a node sees it, a failing call; one retry. Two nodes are enough for every conflict of two updates; one change and one failure for each combination the properties exempt or not |
| `ipvsdr_retry` | violates `RegistrationRetried` | two nodes, one failing call |
| `sg_sync` | `TypeOK`, `UniquePriorities`, `OwnerRulesKept`, `SingleGroupSynced` | two groups, two calls, one edit by the owner, any call to Azure may fail; three priorities are free and up to four rules wanted, so that they are used up |
| `sg_all` | violates `AllGroupsSynced` | the same without edits |
| `azure_life` | `TypeOK`, `AtRestSynced`, `ReleasedClean`, `GroupsClosed`, `ReserveRespected`, `EventuallyInSync`, `EventuallyRemoved`, `EventuallyReleased`, `NoCrashLoop` | three nodes; five specifications: the first one with two nodes, the balancer to be kept, the same with one node replaced or a private frontend, no Azure provider; two changes (of the specification, deletion, ConfigMaps), one failing call, kill or stop, one retry: a change can meet a sync, a cleanup or a retry at every call, and a second sync finds the groups of both nodes open |
| `azure_sync` | violates `InSyncAtRest` | no change, one failing call |
| `node_setup` | `TypeOK`, `Restored`, `Traceless`, `NeighborsOverride`, `NeighborsReset` | two parameters of ipvsdr and one of the sidecar, two neighbours, two ports, two runs of a provider, two of OnUpdate, one failing call or kill; symmetric in neighbours, ports and ipvsdr's parameters |

Deadlock is checked only in `gp_stop`, where the process ends with `exited`;
everywhere else a provider that has nothing to do rests.

**What the violations show** (`findings` in `PROJECT.json` quotes the lines):

1. A ConfigMap name is taken over once. After the status names another
   ConfigMap, updates of the new one are filtered out.
2. A keepalive tick that saw the daemon dead can start a new one after Stop.
3. `registerNodeNetwork` changes the lister's object before `Update`. If
   `Update` fails, the retry sees its own change, reports success, and the
   node stays unregistered.
4. The wanted ports are kept in maps that the first security group consumes:
   with two groups, a second sync deletes the rules of one of them.
5. `updateCacheData` makes oldAzureProvider a part of `l.lb`. A sync that starts
   from a copy of the object from before the name patch creates the balancer
   again, empty, and writes the name into `l.lb`; when one of its later calls
   fails, the retry finds nothing changed and the balancer stays without rules
   and members.

Two more behaviours are in the models, without a run of their own: a Stop during
`WaitForCacheSync` lets Start go on, so that the backend is started after it was
stopped (`GenericProvider`, and `NodeSetup`, where `Traceless` exempts it); and
giving up on a daemon that cannot be started panics when a grace period is set
(`Execd`, `panicked`).

**Exemptions.** Properties name the failures after which the code does not keep
them: `ConfigCurrent` a failed `Update`, file write or reload, and the port of
keepalived's health check, which `isLBChanged` does not compare; `AllRegistered`
a failed `Update`; `OneDaemon` and `StopKillsCurrent` a failed look-up in /proc;
the `NoLost` properties a sync that was dropped after its last retry, and (for
ConfigMaps) creation and deletion, which have no handler; `OwnerRulesKept` edits
of a group between its Get and its CreateOrUpdate. `DistinctRouters` excepts
providers with more than two VIPs. `PeersAgree` speaks of the nodes in the list:
one that leaves it keeps its keepalived and its chains, because OnUpdate ignores
the object from then on. In `Azure`, `AtRestSynced` and `EventuallyInSync` except
objects or rules that return to an earlier value, but for the flag ReserveAzure,
and a copy of the object from before the name patch (`Forgiven`); the properties
of the cleanup except runs with a failing call or an end of the process (`Calm`),
since the cleanup is not repeated and a restarted provider does not know the
balancer, objects that a name patch has made invalid, and objects that get an
Azure provider after a cleanup (`past.spent`), whose next cleanup is skipped; `GroupsClosed` also private frontends;
`ReserveRespected` is about the worker only. `Restored` excepts a provider that
was killed, stopped inside `changeSysctl` or whose reset failed; `Traceless` and
`NeighborsReset` failing commands, and Stop overlapping OnUpdate or Start. Each
is a hazard.

**Fairness.** Weak fairness of each goroutine: the Go scheduler is fair to
goroutines that can run, reflectors retry until they succeed, timers expire,
and the modelled external calls return. Strong fairness only for the `stopCh`
case of a `select`, which Go chooses at random among the ready cases. Nothing
makes the cluster change, a SIGTERM arrive, a process die or a call fail. In
`Ipvsdr` less is assumed: some watch or worker that can go on does. In `Azure`
the worker, the stopping thread and the watch are fair, and so is the
restart of an ended process, which Kubernetes does.

## Proofs

Each theorem holds for every value of the constants that the named assumptions
of its module allow: any number of keys, nodes, processes, ports, retries,
changes and failures. The bounds of the runs are constants too, so a theorem
also covers every larger bound. The assumptions are types, and:

* finite sets where the code counts or takes a first element (`Nodes` in
  `NetworkAssumption`, `Groups` and `Exported` in `SecurityGroupsAssumption`);
* `PriorityStart <= PriorityMax` (1000 and 4096 in the code);
* `NilAssumption`: the constant that stands for a nil pointer is no object;
* the two backends adjust different kernel parameters (`NodeAssumption`), and a
  specification has a frontend exactly when it has an Azure provider
  (`AzureAssumption`);
* for `PeersAgree` only, the hypothesis `VIPsApart`: no two providers of a load
  balancer share a VIP, and no VIP is the address of a node. Nothing in the code
  sees to it; whoever writes the object must. TLC evaluates it for the instance.

### GenericProviderProofs

| Theorem | Property | Argument |
|---|---|---|
| `TypeCorrect` | `TypeOK` | inductive by itself; one step per action; `QueueTyping` covers the queue's methods |
| `QueueCorrect` | `QueueConsistent` | inductive with `TypeOK`: every step is one of the queue's steps on the own key (`NextIsQueueStep`), and those keep it (`QueueStepConsistent`); the third conjunct, which ties `processing` to the worker's program counter, is what makes `Done` safe |
| `StartOrderCorrect`, `UpdateAfterStartCorrect` | `UpdateAfterStart` | `StartOrder`: a worker exists only after Start has passed `Backend.Start` |
| `StopOnceCorrect` | `StopOnce` | `StopLocked`: a caller past the lock holds it, and the backend was stopped only if `shutdown` is set and the caller that set it is past that point |
| `ContractImplemented` | `ImplementsContract` | each action is one of the contract's or stutters, given that the worker holds a load balancer exactly from its look-up to the return of OnUpdate (`HandedCorrect`), that one caller stops the backend (`StopLocked`), that the worker exists only after Start (`StartOrder`), and that it holds one key at a time (`QueueConsistent`) |
| `NeverOlderCorrect` | | OnUpdate never gets an older load balancer than it applied before, nor one newer than is stored; from the same invariant |
| `NoLostLBUpdateCorrect` | `NoLostLBUpdate` | `LBAnnounced`: `NoLostLBUpdate` alone is not inductive, because a worker between reading the lister and returning holds a version that may be overtaken; the strengthening says that then the newer one is announced by an event or the dirty set |
| `NoLostCMUpdateCorrect` | `NoLostCMUpdate` | `CMAnnounced` says the same of what OnUpdate has read of each ConfigMap. It needs `Ready` (a worker runs only after both informers have listed, unless the provider is stopping): a ConfigMap written before the list makes no event |

### ExecdProofs

| Theorem | Property | Argument |
|---|---|---|
| `TypeCorrect` | `TypeOK` | inductive by itself |
| `OneDaemonCorrect` | `OneDaemon` | with `Bookkeeping`: a tick about to start a process has let go of the old one, RunForever starts the first before keepalive exists, and a tick about to replace `c.cmd` has seen its process gone, which stays so. `IsRunningAnswer` turns a look-up in /proc into a fact about the process |
| `StopKillsCurrentCorrect` | `StopKillsCurrent` | with `Victimised`: the process current when Stop began runs only as long as Stop has still to kill it; `ShutdownStep` covers the five steps of shutdown for both its callers |

### IpvsdrProofs

| Theorem | Property | Argument |
|---|---|---|
| `TypeCorrect` | `TypeOK` | with `Working` (OnUpdate has an object while it runs), on lemmas that every operator of `KeepalivedConfig` returns what its name says |
| `OthersUntouchedCorrect` | `OthersUntouched` | `VersionInv`: an object in a node's memory that has the server's version differs from the server's in that node's own registration at most; and on one node equal versions are one pointer, so that the assignment in `registerNodeNetwork` cannot tear them apart |
| `ConfigCurrentCorrect` | `ConfigCurrent` | `RegistrationInv`, which holds whatever fails (an object reaches the cache only once the node is registered in it), and `SettledInv`, for runs without the excepted failures (the cache has what is configured; a node with nothing to do has the informer's object in its cache) |
| `DistinctRoutersCorrect` | `DistinctRouters` | `MadeInv`: every configuration in use was made from an object; then a statement about `KeepalivedConfig` alone, for any number of slaves |
| `PeersAgreeCorrect` | `PeersAgree` | from `SettledInv` and `RegistrationInv`: all nodes at rest are configured from one object in which all are registered; `VIPsApart` makes the VIP identify the instance, and no VIP a node holds is mistaken for its address |

### NodeSetupProofs

| Theorem | Property | Argument |
|---|---|---|
| `TypeCorrect` | `TypeOK` | on the lists of iptables commands, position by position (`Programs`) |
| `RestoredCorrect` | `Restored` | `SysInv`: at each moment of Start and Stop the original value of a parameter is in the kernel or where the next step looks for it (`todo`, `saved` or `default`), and a process touches its own parameters only |
| `TracelessCorrect` | `Traceless` | `ChainInv`: how far Stop is, by the number of commands it has left, and what is gone by then |
| `NeighborsOverrideCorrect` | `NeighborsOverride` | inductive with the types: every command keeps the order of the mangle chain (`MangleStep`), whichever thread runs it |
| `NeighborsResetCorrect` | `NeighborsReset` | `MarkInv`: there is a chain to fill, it was flushed, and all neighbours are in it before the first port |

All but the first rest on `Where`, which ties the threads' positions together.

### AzureSecurityGroupsProofs

| Theorem | Property | Argument |
|---|---|---|
| `TypeCorrect` | `TypeOK` | `Writes` states what `SyncGet` does; priorities given out are in range |
| `UniquePrioritiesCorrect` | `UniquePriorities` | for the groups and for the update in hand: a new priority is free, or that of a rule that is gone, and no two new rules get the same |
| `OwnerRulesKeptCorrect` | `OwnerRulesKept` | `OwnerInv`: the update in hand carries the owner's rules unless he edits the group before it is written |
| `SingleGroupSyncedCorrect` | `SingleGroupSynced` | `SyncInv`: until the group is read the wanted ports are those of the call (the shared maps are not consumed yet); then the update in hand, and after it the group, is `Synced`; the cardinalities follow from finiteness |

### AzureProofs, AzureCalmProofs, AzureSyncProofs

| Theorem | Property | Argument |
|---|---|---|
| `TypeCorrect` | `TypeOK` | `TypeInv`, with `Working`: OnUpdate has its object while it syncs, and Azure's answer once there is one |
| `ReserveRespectedCorrect` | `ReserveRespected` | `ReserveInv`: the remembered flag is that of the last Azure provider given to OnUpdate (`Remembers`), so is the one being synced (`Syncs`) and the one the worker's cleanup decides by (`Cleans`), also while the other thread cleans up; `StoreInv` for an object that is being deleted |
| `ReleasedCleanCorrect` | `ReleasedClean` | `CleanInv`: the finalizer keeps the object until the cleanup has ended (`Guarded`), a sync remembers the name of what it has made (`Completing`), so the worker knows the balancer that is not cleaned up (`Knowing`), and the finalizer goes last (`Releasing`) |
| `GroupsClosedCorrect` | `GroupsClosed` | `GroupsInv`: the groups that are open are those of the pool Azure answered with, and what is detached from it is closed in the same sync (`Pooling`), group by group (`Closing`); a balancer is made without a name only when there was none (`Naming`) |
| `AtRestSyncedCorrect` | `AtRestSynced` | `SyncedInv`: what is remembered as synced is what Azure has, or is not asked for any more (`Faithful`); what the store, the sync or the memory has passed by does not come back (`Lagging`, which is where `Forgiven` is needed, and `HistoryInv`, that whatever the worker holds was there once); the sync's picture of the balancer is true at each call (`Progress`), and so is what it has made of the groups, whichever of them has used up the shared maps (`Opening`, `GroupProgress`); nothing new goes unnoticed (`Attentive`) |

Two attempts failed for good reasons, and corrected what the properties claim:

* `ReleasedClean` and the two properties of eventual removal did not exempt an
  object that gets an Azure provider again after a cleanup. Two changes, the bound
  of the run, are too few to reach it: cleanup, return, second removal. The code
  skips the second cleanup, because `cleanAzure` is never reset. The history
  `past.spent` records it.
* `AtRestSynced` let an object come back only as a whole. But after
  `updateCacheData` oldAzureProvider is the Azure provider of `l.lb`, and
  `setCacheReserveStatus` writes to it before the sync starts. With A synced, C
  (other nodes, ReserveAzure) fails half-way; A with ReserveAzure is then equal to
  `l.lb`, OnUpdate returns early, and Azure keeps the nodes of C. `ComesBack`
  compares specifications but for that flag.

**Only model-checked.** Liveness (`StopTerminates`, `EventuallySynced`,
`DaemonRestarted`, `KeepaliveEnds`, `AllRegistered`, `EventuallyInSync`,
`EventuallyRemoved`, `EventuallyReleased`, `NoCrashLoop`): the prover does not
reason about fairness. Every invariant and every action property of a passing
run is a theorem.

## Not modelled

Flag parsing, client construction, version and node look-up: no state. The
Azure client wrappers forward to an SDK: `Azure` has the outcome of each call.
The fields of Azure rules, probes and frontends, the layout of keepalived.conf
and the words of log messages carry no property. The `gracefulShutDown` callback
of execd is never installed. Two load balancers that share a security group or a
node, and a node with several network interfaces in Azure, are left out. In
`Ipvsdr`, interfaces that come and go while the provider runs or whose addresses
cannot be read, and a router id in the object's status.

## Plan

Left to do, in this order:

1. An abstract specification of a backend as level-triggered synchronisation
   (the newest wanted state is applied unless its key is dropped), and `Ipvsdr`
   shown to implement it for one node.
2. Theorems about `KeepalivedConfig` alone: priorities of any number of nodes, and
   from which position on they leave one byte.
3. Security groups shared by two load balancers, and Azure nodes with several
   interfaces.
