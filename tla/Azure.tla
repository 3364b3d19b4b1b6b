-------------------------------- MODULE Azure --------------------------------
(***************************************************************************)
(* providers/azure.Provider: OnUpdate brings a load balancer of the Azure  *)
(* cloud into the state a LoadBalancer object asks for, or cleans it up    *)
(* when the object is deleted or loses its Azure provider; Stop cleans up  *)
(* too, while the worker still runs. A call that changes something in      *)
(* Azure or at the API server may be refused, or done and reported as      *)
(* failed. It is a step, together with the Get of the object it changes.   *)
(* Two parts of the cleanup are one step each, and leave any part of their *)
(* work done when they fail: the calls that close the groups, and those    *)
(* that recover a balancer. What the provider remembers is lost when its   *)
(* process ends.                                                           *)
(*                                                                         *)
(* Simplifications: the generic provider (see GenericProvider) is reduced  *)
(* to a queued key with a retry counter and a watch that delivers the      *)
(* newest object; the two ConfigMaps are one set of rules; a node has one  *)
(* network interface and that one a security group of its own (see         *)
(* AzureSecurityGroups for shared groups and their rules); an accepted     *)
(* deletion is done at once or never.                                      *)
(***************************************************************************)
EXTENDS Integers, FiniteSets

CONSTANTS Nodes,       \* nodes that may be behind the load balancer
          Specs,       \* the specifications somebody may write
          FirstSpec,   \* the one the object is created with
          Defaults,    \* the rules every Azure load balancer has (tcp-80, tcp-443)
          Rules,       \* the rules the ConfigMaps may ask for
          Nil,         \* nil, and an Azure load balancer that is not there
          MaxRetries,  \* syncqueue.maxRetries
          MaxChanges,  \* bound: writes and deletion of the object, ConfigMap changes
          MaxFailures  \* bound: failing calls, kills and stops of the process

\* Frontend configurations. An object whose Azure provider has none does not
\* pass ValidateLoadBalancer.
Fronts == {"public", "private", "none"}

\* azure: Spec.Providers.Azure is not nil; reserve: its ReserveAzure; front: its
\* IPAddressProperties; nodes: Spec.Nodes.Names.
LBSpec == [azure : BOOLEAN, reserve : BOOLEAN, front : Fronts, nodes : SUBSET Nodes]

ASSUME AzureAssumption ==
    /\ Specs \subseteq {s \in LBSpec : s.azure <=> s.front # "none"}
    /\ FirstSpec \in Specs
    /\ Defaults \cap Rules = {}
    /\ {MaxRetries, MaxChanges, MaxFailures} \subseteq Nat

VARIABLES api,     \* the LoadBalancer object at the API server
          event,   \* the watch has an event for the provider
          store,   \* the object in the informer's store
          cm,      \* the rules of the ConfigMaps in the informer's store
          queue,   \* the key in the queue
          l,       \* the Provider
          pc,      \* where the worker and the stopping thread are
          job,     \* local variables of the worker's OnUpdate
          arg,     \* arguments of each thread's cleanupAzureLB
          az,      \* the load balancer in Azure
          open,    \* the ports the provider's rules open in the group of each node
          used,    \* how much of each bound is used
          past     \* what the properties must know of the past

vars == <<api, event, store, cm, queue, l, pc, job, arg, az, open, used, past>>

-----------------------------------------------------------------------------
(* Data                                                                     *)

Threads == {"worker", "stopper"}

\* named: Spec.Providers.Azure.Name is set; fin: the provider's finalizer is
\* there; blank: the status has been emptied.
Object == [live : BOOLEAN, spec : LBSpec, named : BOOLEAN, deleting : BOOLEAN, fin : BOOLEAN,
           blank : BOOLEAN]

\* A rule of the balancer and the port a security group opens for it are one value.
Ports == Defaults \cup Rules

\* The ports each group may open for the provider.
Openings == [Nodes -> SUBSET Ports]

\* conf: probes and a backend pool are defined; nics: nodes in that pool.
Balancer == [front : Fronts, conf : BOOLEAN, rules : SUBSET (Defaults \cup Rules),
             nics : SUBSET Nodes]

\* The part of an object isLBChanged compares.
View == [spec : LBSpec, named : BOOLEAN, deleting : BOOLEAN, fin : BOOLEAN]
ViewOf(o) == [spec |-> o.spec, named |-> o.named, deleting |-> o.deleting, fin |-> o.fin]

\* The part of an Azure provider the cleanup reads.
Provider == [named : BOOLEAN, reserve : BOOLEAN]

\* old: oldAzureProvider; same: it is the Azure provider of l.lb, not a copy.
Memory == [old : Provider \cup {Nil}, lb : View \cup {Nil}, same : BOOLEAN,
           ruleMap : SUBSET Rules, clean : BOOLEAN]
NewProvider == [old |-> Nil, lb |-> Nil, same |-> FALSE, ruleMap |-> {}, clean |-> FALSE]

\* reserve: ReserveAzure of the last Azure provider given to OnUpdate; guarded: the
\* object had the finalizer; specs, cms: the specifications and rules there have
\* been; reverted: one of them has come back; unnamed: OnUpdate got a copy of the
\* object without the name its balancer has; spent: it got an Azure provider after a
\* cleanup, whose flag cleanAzure is never reset.
Past == [reserve : BOOLEAN, guarded : BOOLEAN, specs : SUBSET Specs, cms : SUBSET SUBSET Rules,
         reverted : BOOLEAN, unnamed : BOOLEAN, spent : BOOLEAN]

\* obj: the copy of the object that is synced; snap: the last answer of Azure;
\* todo: nodes whose network interface, or then whose group, is still to be changed;
\* want: the maps tcp and udp of the ports the groups are to open.
Job == [obj : Object \cup {Nil}, data : SUBSET Rules, snap : Balancer \cup {Nil},
        todo : SUBSET Nodes, want : SUBSET Ports]
NoJob == [obj |-> Nil, data |-> {}, snap |-> Nil, todo |-> {}, want |-> {}]

\* full: the cleanup knows a balancer, and forgets it when it succeeds.
Arg == [lb : Object \cup {Nil}, deleteLB : BOOLEAN, full : BOOLEAN]
NoArg == [lb |-> Nil, deleteLB |-> FALSE, full |-> FALSE]

Work == [pending : BOOLEAN, retries : 0..MaxRetries, dropped : BOOLEAN]
NoWork == [pending |-> FALSE, retries |-> 0, dropped |-> FALSE]

Used == [changes : 0..MaxChanges, faults : 0..MaxFailures, crashes : 0..MaxFailures]

ASSUME NilAssumption == Nil \notin Object \cup View \cup Balancer \cup Provider

TypeOK ==
    /\ api \in Object
    /\ event \in BOOLEAN
    /\ store \in Object
    /\ cm \in SUBSET Rules
    /\ queue \in Work
    /\ l \in Memory
    /\ pc["worker"] \in {"down", "idle", "check", "updating", "get", "create", "name", "config",
                         "defaults", "rules", "pool", "groups", "done", "fail",
                         "cleanup", "sg", "recover", "delete", "release", "cleanfail"}
    /\ pc["stopper"] \in {"off", "cleanup", "sg", "recover", "delete", "release", "cleanfail",
                          "exit"}
    /\ job \in Job
    /\ arg \in [Threads -> Arg]
    /\ az \in Balancer \cup {Nil}
    /\ open \in Openings
    /\ used \in Used
    /\ past \in Past

Up == pc["worker"] # "down"

\* A load balancer with a frontend and nothing else.
Bare(front) == [front |-> front, conf |-> FALSE, rules |-> {}, nics |-> {}]

\* The object is new; its Azure load balancer is to be created, or it names one
\* that exists. The finalizer is somebody else's to add.
Init ==
    /\ \E named, fin \in BOOLEAN :
        api = [live |-> TRUE, spec |-> FirstSpec, named |-> named /\ FirstSpec.azure,
               deleting |-> FALSE, fin |-> fin, blank |-> FALSE]
    /\ event = FALSE
    /\ store = api
    /\ cm = {}
    /\ queue = [NoWork EXCEPT !.pending = TRUE]
    /\ l = NewProvider
    /\ pc = [t \in Threads |-> IF t = "worker" THEN "idle" ELSE "off"]
    /\ job = NoJob
    /\ arg = [t \in Threads |-> NoArg]
    /\ az = IF api.named THEN Bare("private") ELSE Nil
    /\ open = [n \in Nodes |-> {}]
    /\ used = [changes |-> 0, faults |-> 0, crashes |-> 0]
    /\ past = [reserve |-> FALSE, guarded |-> api.fin, specs |-> {FirstSpec}, cms |-> {{}},
               reverted |-> FALSE, unnamed |-> FALSE, spent |-> FALSE]

\* Somebody changes the object or a ConfigMap.
Change == used.changes < MaxChanges /\ used' = [used EXCEPT !.changes = @ + 1]

\* A call fails; the process is killed or told to stop.
MayFail == used.faults + used.crashes < MaxFailures
Fault == MayFail /\ used' = [used EXCEPT !.faults = @ + 1]
Crash == MayFail /\ used' = [used EXCEPT !.crashes = @ + 1]

-----------------------------------------------------------------------------
(* The cluster                                                              *)

\* The object becomes o at the API server; one that is being deleted goes with
\* its last finalizer. The watch has an event when the object has changed.
Put(o) ==
    /\ api' = [o EXCEPT !.live = ~(o.deleting /\ ~o.fin)]
    /\ event' = (event \/ api' # api)

\* But for the flag ReserveAzure, s is a specification before the present one.
ComesBack(s) == \E r \in past.specs : r # api.spec /\ [r EXCEPT !.reserve = s.reserve] = s

WriteSpec(s) ==
    /\ api.live /\ ~api.deleting /\ s # api.spec
    /\ Change
    /\ Put([api EXCEPT !.spec = s, !.named = @ /\ s.azure])
    /\ past' = [past EXCEPT !.specs = @ \cup {s}, !.reverted = @ \/ ComesBack(s)]
    /\ UNCHANGED <<store, cm, queue, l, pc, job, arg, az, open>>

DeleteObject ==
    /\ api.live /\ ~api.deleting
    /\ Change
    /\ Put([api EXCEPT !.deleting = TRUE])
    /\ UNCHANGED <<store, cm, queue, l, pc, job, arg, az, open, past>>

\* Stop closes the informers' channel before it stops the backend.
Watching == Up /\ pc["stopper"] = "off"

Watch ==
    /\ Watching /\ event
    /\ store' = api
    /\ event' = FALSE
    /\ queue' = [queue EXCEPT !.pending = TRUE]
    /\ UNCHANGED <<api, cm, l, pc, job, arg, az, open, used, past>>

WatchCM(rules) ==
    /\ Watching /\ rules # cm
    /\ Change
    /\ cm' = rules
    /\ queue' = [queue EXCEPT !.pending = TRUE]
    /\ past' = [past EXCEPT !.cms = @ \cup {rules}, !.reverted = @ \/ rules \in past.cms]
    /\ UNCHANGED <<api, event, store, l, pc, job, arg, az, open>>

\* The process ends, with everything it holds in memory.
Down ==
    /\ pc' = [t \in Threads |-> IF t = "worker" THEN "down" ELSE "off"]
    /\ l' = NewProvider
    /\ job' = NoJob
    /\ arg' = [t \in Threads |-> NoArg]
    /\ queue' = NoWork
    /\ UNCHANGED <<store, cm>>

Kill ==
    /\ Up
    /\ Crash
    /\ Down
    /\ UNCHANGED <<api, event, az, open, past>>

\* A nil pointer is dereferenced; HandleCrash panics again.
Panic == Down /\ UNCHANGED <<api, event, az, open, used, past>>

\* The main program looks the object up and exits when it is not there. The
\* informers list the objects, and the first event queues the key.
Restart ==
    /\ ~Up /\ api.live
    /\ store' = api
    /\ event' = FALSE
    /\ queue' = [NoWork EXCEPT !.pending = TRUE]
    /\ pc' = [pc EXCEPT !["worker"] = "idle"]
    /\ UNCHANGED <<api, cm, l, job, arg, az, open, used, past>>

-----------------------------------------------------------------------------
(* The queue, and OnUpdate up to its decision what to do                    *)

Goto(t, step) == pc' = [pc EXCEPT ![t] = step]

\* Mutant: a key is retried once more than maxRetries says.
ReturnedOnceMore(pending, ok) ==
    LET retry == ~ok /\ queue.retries <= MaxRetries IN
    [pending |-> pending \/ retry, retries |-> IF retry THEN queue.retries + 1 ELSE 0,
     dropped |-> ~ok /\ ~retry]

\* The key after a sync: forgotten, queued for a retry or dropped.
Returned(pending, ok) ==
    LET retry == ~ok /\ queue.retries < MaxRetries IN
    [pending |-> pending \/ retry, retries |-> IF retry THEN queue.retries + 1 ELSE 0,
     dropped |-> ~ok /\ ~retry]

\* OnUpdate returns.
Return(ok) ==
    /\ queue' = Returned(queue.pending, ok)
    /\ Goto("worker", "idle")
    /\ job' = NoJob
    /\ arg' = [arg EXCEPT !["worker"] = NoArg]

\* The worker takes the key.
Take == pc["worker"] = "idle" /\ queue.pending

Valid(o) == o.spec.azure => o.spec.front # "none"

\* The object is not in the store, which is no error, or it is not valid.
syncLoadBalancer ==
    /\ Take
    /\ ~store.live \/ ~Valid(store)
    /\ queue' = Returned(FALSE, ~store.live)
    /\ UNCHANGED <<api, event, store, cm, l, pc, job, arg, az, open, used, past>>

\* OnUpdate is called with the store's object.
Given == Take /\ store.live /\ Valid(store)

\* Mutant: the deletion timestamp is not compared.
isLBChangedAlive(o) ==
    IF l.lb = Nil THEN TRUE ELSE [l.lb EXCEPT !.deleting = o.deleting] # ViewOf(o)

isLBChanged(o) == l.lb # ViewOf(o)

\* Mutant: setCacheReserveStatus is left out.
CachedNameOnly(named, reserve) ==
    LET kept == IF l.old = Nil THEN FALSE ELSE l.old.reserve IN
    [l EXCEPT !.old = [named |-> named, reserve |-> kept],
              !.lb = IF l.same THEN [l.lb EXCEPT !.named = named] ELSE l.lb]

\* The Provider after setCacheAzureLoadbalancer and setCacheReserveStatus: l.lb
\* changes with oldAzureProvider when they share the Azure provider.
Cached(named, reserve) ==
    [l EXCEPT !.old = [named |-> named, reserve |-> reserve],
              !.lb = IF l.same
                     THEN [l.lb EXCEPT !.named = named, !.spec.reserve = reserve]
                     ELSE l.lb]

\* OnUpdate is told of the Azure provider of o.
Told(o) ==
    past' = [past EXCEPT !.reserve = o.spec.reserve,
                         !.unnamed = @ \/ (l.lb # Nil /\ l.lb.named /\ ~o.named),
                         !.spent = @ \/ l.clean]

\* Thread t calls cleanupAzureLB(lb, deleteLB).
Cleanup(t, lb, deleteLB) ==
    /\ Goto(t, "cleanup")
    /\ arg' = [arg EXCEPT ![t] = [lb |-> lb, deleteLB |-> deleteLB, full |-> FALSE]]

\* The object has lost its Azure provider, or is being deleted.
OnUpdateRemoved ==
    /\ Given
    /\ isLBChanged(store)
    /\ \/ ~store.spec.azure /\ Cleanup("worker", Nil, FALSE) /\ UNCHANGED past
       \/ /\ store.spec.azure /\ store.deleting
          /\ Cleanup("worker", store, TRUE)
          /\ Told(store)
    /\ l' = [l EXCEPT !.lb = ViewOf(store), !.same = FALSE]
    /\ queue' = [queue EXCEPT !.pending = FALSE]
    /\ UNCHANGED <<api, event, store, cm, job, az, open, used>>

\* The object has no Azure provider and has not changed.
OnUpdateNil ==
    /\ Given
    /\ ~isLBChanged(store) /\ ~store.spec.azure
    /\ Panic

\* The object is to be synced unless neither it nor the rules have changed.
OnUpdateWanted ==
    /\ Given
    /\ store.spec.azure
    /\ isLBChanged(store) => ~store.deleting
    /\ l' = Cached(store.named, store.spec.reserve)
    /\ Told(store)
    /\ IF isLBChanged(store) \/ l.ruleMap # cm
       THEN /\ Goto("worker", "check")
            /\ job' = [NoJob EXCEPT !.obj = store, !.data = cm]
            /\ queue' = [queue EXCEPT !.pending = FALSE]
       ELSE /\ queue' = Returned(FALSE, TRUE)
            /\ UNCHANGED <<pc, job>>
    /\ UNCHANGED <<api, event, store, cm, arg, az, open, used>>

\* A ConfigMap is not in the store.
OnUpdateNoConfigMap ==
    /\ Given
    /\ store.spec.azure
    /\ isLBChanged(store) => ~store.deleting
    /\ l' = Cached(store.named, store.spec.reserve)
    /\ Told(store)
    /\ Fault
    /\ queue' = Returned(FALSE, FALSE)
    /\ UNCHANGED <<api, event, store, cm, pc, job, arg, az, open>>

\* The object is looked up once more.
CheckExists ==
    /\ pc["worker"] = "check"
    /\ IF store.live
       THEN Goto("worker", "updating") /\ UNCHANGED arg
       ELSE Cleanup("worker", job.obj, TRUE)
    /\ UNCHANGED <<api, event, store, cm, queue, l, job, az, open, used, past>>

-----------------------------------------------------------------------------
(* ensureSync                                                               *)

\* The ways a call that changes something can end: done, refused, done but
\* reported as failed.
Outcomes == [done : BOOLEAN, ok : BOOLEAN] \ {[done |-> FALSE, ok |-> TRUE]}
Charge(out) == IF out.done /\ out.ok THEN UNCHANGED used ELSE Fault

\* A patch of the object: it fails for an object that is not there.
Patch(o, out) ==
    IF api.live
    THEN /\ Charge(out)
         /\ IF out.done THEN Put(o) ELSE UNCHANGED <<api, event>>
    ELSE ~out.done /\ ~out.ok /\ UNCHANGED <<api, event, used>>

\* patchLoadBalancerAzureStatus: a new phase, state or message counts as a change
\* of the object.
PatchStatus(out) ==
    /\ UNCHANGED api
    /\ IF api.live
       THEN Charge(out) /\ event' = (event \/ out.done)
       ELSE ~out.done /\ ~out.ok /\ UNCHANGED <<event, used>>

patchUpdating ==
    /\ pc["worker"] = "updating"
    /\ \E out \in Outcomes :
        /\ PatchStatus(out)
        /\ Goto("worker", IF out.ok THEN "get" ELSE "fail")
    /\ UNCHANGED <<store, cm, queue, l, job, arg, az, open, past>>

\* A call that only reads fails.
ReadError ==
    /\ pc["worker"] \in {"get", "rules", "pool"}
    /\ Fault
    /\ Goto("worker", "fail")
    /\ UNCHANGED <<api, event, store, cm, queue, l, job, arg, az, open, past>>

getAzureLoadbalancer ==
    /\ pc["worker"] = "get"
    /\ IF job.obj.named /\ az # Nil
       THEN Goto("worker", "config") /\ job' = [job EXCEPT !.snap = az]
       ELSE Goto("worker", "create") /\ UNCHANGED job
    /\ UNCHANGED <<api, event, store, cm, queue, l, arg, az, open, used, past>>

\* Azure stores balancer b. The members of a backend pool are kept with their
\* network interfaces; without a pool there are none.
Stored(b) == [b EXCEPT !.nics = IF b.conf /\ az # Nil THEN az.nics ELSE {}]

\* CreateOrUpdate of balancer b, and its answer, by the worker, which goes on
\* with step next.
CreateOrUpdate(b, next) ==
    \E out \in Outcomes :
        /\ Charge(out)
        /\ az' = IF out.done THEN Stored(b) ELSE az
        /\ job' = IF out.ok THEN [job EXCEPT !.snap = Stored(b)] ELSE job
        /\ Goto("worker", IF out.ok THEN next ELSE "fail")

\* A balancer without a name gets the one made from the names of the object and
\* of the cluster, and what is there under that name is overwritten.
createAzureLoadBalancer ==
    /\ pc["worker"] = "create"
    /\ CreateOrUpdate(Bare(job.obj.spec.front), IF job.obj.named THEN "config" ELSE "name")
    /\ UNCHANGED <<api, event, store, cm, queue, l, arg, open, past>>

\* A merge patch: it makes an Azure provider of nothing but a name when the
\* object has none any more.
pathLoadBalancerName ==
    /\ pc["worker"] = "name"
    /\ l' = Cached(TRUE, IF l.old = Nil THEN FALSE ELSE l.old.reserve)
    /\ job' = [job EXCEPT !.obj.named = TRUE]
    /\ \E out \in Outcomes :
        /\ Patch([api EXCEPT !.spec.azure = TRUE, !.named = TRUE], out)
        /\ Goto("worker", IF out.ok THEN "config" ELSE "fail")
    /\ UNCHANGED <<store, cm, queue, arg, az, open, past>>

\* ensureSyncDefaultConfigExceptRules finds another frontend, or no probes.
ConfigChanged == ~job.snap.conf \/ job.snap.front # job.obj.spec.front

ensureSyncDefaultAzureLBConfig ==
    /\ pc["worker"] = "config"
    /\ IF ConfigChanged
       THEN CreateOrUpdate([job.snap EXCEPT !.front = job.obj.spec.front, !.conf = TRUE,
                                            !.rules = {}],
                           "defaults")
       ELSE Goto("worker", "defaults") /\ UNCHANGED <<job, az, used>>
    /\ UNCHANGED <<api, event, store, cm, queue, l, arg, open, past>>

ensureSyncDefaultRules ==
    /\ pc["worker"] = "defaults"
    /\ IF Defaults \subseteq job.snap.rules
       THEN Goto("worker", "rules") /\ UNCHANGED <<job, az, used>>
       ELSE CreateOrUpdate([job.snap EXCEPT !.rules = @ \cup Defaults], "rules")
    /\ UNCHANGED <<api, event, store, cm, queue, l, arg, open, past>>

\* remainConstantRules and the rules makeUpRules adds.
makeUpRules(old, data) == (old \cap (data \cup Defaults)) \cup data

Detachs == job.snap.nics \ job.obj.spec.nodes
Attachs == job.obj.spec.nodes \ job.snap.nics

\* The answer is thrown away, and the backend pools are synced from the one
\* before it: the network interfaces to detach and to attach are known here.
syncRules ==
    /\ pc["worker"] = "rules"
    /\ LET new == makeUpRules(job.snap.rules, job.data) IN
       /\ job' = [job EXCEPT !.snap.rules = new, !.todo = Detachs \cup Attachs]
       /\ IF new = job.snap.rules
          THEN Goto("worker", "pool") /\ UNCHANGED <<az, used>>
          ELSE \E out \in Outcomes :
                /\ Charge(out)
                /\ az' = IF out.done THEN Stored([job.snap EXCEPT !.rules = new]) ELSE az
                /\ Goto("worker", IF out.ok THEN "pool" ELSE "fail")
    /\ UNCHANGED <<api, event, store, cm, queue, l, arg, open, past>>

\* The members of the balancer's pool become nics.
SetPool(nics) == az' = [az EXCEPT !.nics = nics]

detachNetworkInterfacesAndLoadBalancer(n) ==
    /\ pc["worker"] = "pool"
    /\ n \in job.todo \cap Detachs
    /\ IF az = Nil
       THEN job' = [job EXCEPT !.todo = @ \ {n}] /\ UNCHANGED <<pc, az, used>>
       ELSE \E out \in Outcomes :
             /\ Charge(out)
             /\ IF out.done THEN SetPool(az.nics \ {n}) ELSE UNCHANGED az
             /\ job' = IF out.ok THEN [job EXCEPT !.todo = @ \ {n}] ELSE job
             /\ IF out.ok THEN UNCHANGED pc ELSE Goto("worker", "fail")
    /\ UNCHANGED <<api, event, store, cm, queue, l, arg, open, past>>

\* Mutant: the error of an attachment is logged and the loop goes on.
attachErrorIgnored(n) ==
    /\ pc["worker"] = "pool"
    /\ job.todo \cap Detachs = {}
    /\ n \in job.todo
    /\ IF az = Nil
       THEN UNCHANGED <<az, used>>
       ELSE \E out \in Outcomes :
             /\ Charge(out)
             /\ IF out.done THEN SetPool(az.nics \cup {n}) ELSE UNCHANGED az
    /\ job' = [job EXCEPT !.todo = @ \ {n}]
    /\ UNCHANGED <<api, event, store, cm, queue, l, pc, arg, open, past>>

\* It fails when the pool is not there any more.
attachNetworkInterfacesAndLoadBalancer(n) ==
    /\ pc["worker"] = "pool"
    /\ job.todo \cap Detachs = {}
    /\ n \in job.todo
    /\ IF az = Nil
       THEN Goto("worker", "fail") /\ UNCHANGED <<job, az, used>>
       ELSE \E out \in Outcomes :
             /\ Charge(out)
             /\ IF out.done THEN SetPool(az.nics \cup {n}) ELSE UNCHANGED az
             /\ job' = IF out.ok THEN [job EXCEPT !.todo = @ \ {n}] ELSE job
             /\ IF out.ok THEN UNCHANGED pc ELSE Goto("worker", "fail")
    /\ UNCHANGED <<api, event, store, cm, queue, l, arg, open, past>>

usePublicAddress(o) == o.spec.front = "public"

\* Every port of the balancer is to be opened in the groups of its nodes.
syncBackendPoolsDone ==
    /\ pc["worker"] = "pool"
    /\ job.todo = {}
    /\ IF usePublicAddress(job.obj)
       THEN /\ job' = [job EXCEPT !.todo = Detachs \cup job.obj.spec.nodes,
                                  !.want = Defaults \cup job.data]
            /\ Goto("worker", "groups")
       ELSE UNCHANGED job /\ Goto("worker", "done")
    /\ UNCHANGED <<api, event, store, cm, queue, l, arg, az, open, used, past>>

\* Mutant: a change of the list of rules is not noticed.
deleteNothing(n) ==
    /\ pc["worker"] = "groups"
    /\ n \in job.todo \cap Detachs
    /\ job' = [job EXCEPT !.todo = @ \ {n}]
    /\ UNCHANGED <<api, event, store, cm, queue, l, pc, arg, az, open, used, past>>

\* The group of a detached node loses the provider's rules.
deleteUselessSecurityRules(n) ==
    /\ pc["worker"] = "groups"
    /\ n \in job.todo \cap Detachs
    /\ \E out \in Outcomes :
        /\ Charge(out)
        /\ open' = IF out.done THEN [open EXCEPT ![n] = {}] ELSE open
        /\ job' = IF out.ok THEN [job EXCEPT !.todo = @ \ {n}] ELSE job
        /\ IF out.ok THEN UNCHANGED pc ELSE Goto("worker", "fail")
    /\ UNCHANGED <<api, event, store, cm, queue, l, arg, az, past>>

\* Then one group after the other gets the ports of the maps. The ports it has
\* already are deleted from the maps, which all groups share: the groups after it
\* lose them.
ensureSyncRulesToSecurityGroups(n) ==
    /\ pc["worker"] = "groups"
    /\ job.todo \cap Detachs = {}
    /\ n \in job.todo
    /\ \E out \in Outcomes :
        /\ Charge(out)
        /\ open' = IF out.done THEN [open EXCEPT ![n] = job.want] ELSE open
        /\ job' = IF out.ok
                  THEN [job EXCEPT !.todo = @ \ {n}, !.want = @ \ open[n]]
                  ELSE job
        /\ IF out.ok THEN UNCHANGED pc ELSE Goto("worker", "fail")
    /\ UNCHANGED <<api, event, store, cm, queue, l, arg, az, past>>

syncSecurityGroupRulesDone ==
    /\ pc["worker"] = "groups"
    /\ job.todo = {}
    /\ Goto("worker", "done")
    /\ UNCHANGED <<api, event, store, cm, queue, l, job, arg, az, open, used, past>>

syncSecurityGroupRules ==
    \/ \E n \in Nodes : \/ deleteUselessSecurityRules(n)
                        \/ ensureSyncRulesToSecurityGroups(n)
    \/ syncSecurityGroupRulesDone

\* The status is patched, whether that works or not, and what was synced is
\* remembered. oldAzureProvider is now the Azure provider of l.lb.
updateCacheData ==
    /\ pc["worker"] = "done"
    /\ \E out \in Outcomes : PatchStatus(out)
    /\ l' = [old |-> [named |-> job.obj.named, reserve |-> job.obj.spec.reserve],
             lb |-> ViewOf(job.obj), same |-> TRUE, ruleMap |-> job.data, clean |-> l.clean]
    /\ Return(TRUE)
    /\ UNCHANGED <<store, cm, az, open, past>>

\* Mutant: what was to be synced is remembered although the sync failed.
SyncFailedCached ==
    /\ pc["worker"] = "fail"
    /\ \E out \in Outcomes : PatchStatus(out)
    /\ l' = [l EXCEPT !.lb = ViewOf(job.obj), !.same = FALSE, !.ruleMap = job.data]
    /\ Return(FALSE)
    /\ UNCHANGED <<store, cm, az, open, past>>

SyncFailed ==
    /\ pc["worker"] = "fail"
    /\ \E out \in Outcomes : PatchStatus(out)
    /\ Return(FALSE)
    /\ UNCHANGED <<store, cm, l, az, open, past>>

-----------------------------------------------------------------------------
(* cleanupAzureLB and Stop                                                  *)

\* Thread t returns from cleanupAzureLB.
CleanupReturn(t, ok) ==
    IF t = "worker"
    THEN Return(ok)
    ELSE /\ Goto(t, "exit")
         /\ arg' = [arg EXCEPT ![t] = NoArg]
         /\ UNCHANGED <<queue, job>>

\* There is nothing to clean up, or nothing is known of what there is.
cleanupAzureLB(t) ==
    /\ pc[t] = "cleanup"
    /\ IF l.clean
       THEN CleanupReturn(t, TRUE)
       ELSE /\ Goto(t, IF l.old = Nil \/ ~l.old.named THEN "release" ELSE "sg")
            /\ arg' = [arg EXCEPT ![t].full = l.old # Nil /\ l.old.named]
            /\ UNCHANGED <<queue, job>>
    /\ UNCHANGED <<api, event, store, cm, l, az, open, used, past>>

\* The other thread has set oldAzureProvider to nil.
CleanupNil(t) ==
    /\ pc[t] \in {"sg", "recover", "delete"}
    /\ l.old = Nil
    /\ Panic

Pooled == IF az = Nil THEN {} ELSE az.nics

\* Then the balancer is kept or deleted as the object, or else the last sync,
\* asks for.
cleanUpSecurityGroup(t) ==
    /\ pc[t] = "sg" /\ l.old # Nil
    /\ \E closed \in SUBSET Pooled :
        /\ open' = [n \in Nodes |-> IF n \in closed THEN {} ELSE open[n]]
        /\ \/ /\ closed = Pooled
              /\ LET reserve == IF arg[t].lb # Nil THEN arg[t].lb.spec.reserve ELSE l.old.reserve
                 IN Goto(t, IF reserve THEN "recover" ELSE "delete")
              /\ UNCHANGED <<queue, job, arg, used>>
           \/ Fault /\ CleanupReturn(t, FALSE)
    /\ UNCHANGED <<api, event, store, cm, l, az, past>>

\* Mutant: the rules are not removed.
recoverKeepsRules(t) ==
    /\ pc[t] = "recover" /\ l.old # Nil
    /\ az' = IF az = Nil THEN Nil ELSE [az EXCEPT !.conf = FALSE, !.nics = {}]
    /\ Goto(t, "release")
    /\ UNCHANGED <<api, event, store, cm, queue, l, job, arg, open, used, past>>

\* All attempts of a minute count as one. Failing ones may have detached some
\* network interfaces, or done everything.
recoverDefaultAzureLoadBalancer(t) ==
    /\ pc[t] = "recover" /\ l.old # Nil
    /\ \/ /\ az' = IF az = Nil THEN Nil ELSE Bare(az.front)
          /\ Goto(t, "release")
          /\ UNCHANGED used
       \/ /\ IF az = Nil
             THEN UNCHANGED az
             ELSE \/ \E detached \in SUBSET Pooled : SetPool(Pooled \ detached)
                  \/ az' = Bare(az.front)
          /\ Fault
          /\ Goto(t, "cleanfail")
    /\ UNCHANGED <<api, event, store, cm, queue, l, job, arg, open, past>>

CleanupFailed(t) ==
    /\ pc[t] = "cleanfail"
    /\ \E out \in Outcomes : PatchStatus(out)
    /\ CleanupReturn(t, FALSE)
    /\ UNCHANGED <<store, cm, l, az, open, past>>

\* Nobody waits for the deletion Azure has accepted: it may fail later.
DeleteBalancer(t) ==
    /\ pc[t] = "delete" /\ l.old # Nil
    /\ \E out \in [done : BOOLEAN, ok : BOOLEAN] :
        /\ Charge(out)
        /\ az' = IF out.done THEN Nil ELSE az
        /\ IF out.ok
           THEN Goto(t, "release") /\ UNCHANGED <<queue, job, arg>>
           ELSE CleanupReturn(t, FALSE)
    /\ UNCHANGED <<api, event, store, cm, l, open, past>>

\* Mutant: the list of finalizers is patched when it has not changed.
DropsFinalizerInverted(t) == arg[t].lb # Nil /\ ~arg[t].lb.fin

\* What patachFinalizersAndStatus patches: the finalizer of an object that has
\* it, the status of an object that stays.
DropsFinalizer(t) == arg[t].lb # Nil /\ arg[t].lb.fin

\* Mutant: the status gets a new phase instead of being emptied.
patachFinalizersAndPhase(t) ==
    /\ pc[t] = "release"
    /\ \E out \in Outcomes :
        /\ IF ~arg[t].deleteLB
           THEN PatchStatus(out)
           ELSE IF DropsFinalizer(t)
                THEN Patch([api EXCEPT !.fin = FALSE], out)
                ELSE out.done /\ out.ok /\ UNCHANGED <<api, event, used>>
        /\ l' = IF out.ok
                THEN [l EXCEPT !.clean = TRUE, !.old = IF arg[t].full THEN Nil ELSE @,
                               !.same = @ /\ ~arg[t].full]
                ELSE l
        /\ CleanupReturn(t, out.ok)
    /\ UNCHANGED <<store, cm, az, open, past>>

patachFinalizersAndStatus(t) ==
    /\ pc[t] = "release"
    /\ \E out \in Outcomes :
        /\ IF DropsFinalizer(t) \/ ~arg[t].deleteLB
           THEN Patch([api EXCEPT !.fin = @ /\ ~DropsFinalizer(t),
                                  !.blank = @ \/ ~arg[t].deleteLB], out)
           ELSE out.done /\ out.ok /\ UNCHANGED <<api, event, used>>
        /\ l' = IF out.ok
                THEN [l EXCEPT !.clean = TRUE, !.old = IF arg[t].full THEN Nil ELSE @,
                               !.same = @ /\ ~arg[t].full]
                ELSE l
        /\ CleanupReturn(t, out.ok)
    /\ UNCHANGED <<store, cm, az, open, past>>

\* The provider is told to stop. It cleans up when the object is not there.
Stop ==
    /\ Watching
    /\ Crash
    /\ IF store.live
       THEN Goto("stopper", "exit") /\ UNCHANGED arg
       ELSE Cleanup("stopper", Nil, TRUE)
    /\ UNCHANGED <<api, event, store, cm, queue, l, job, az, open, past>>

\* The process ends whatever the worker is doing: more than the code does, which waits
\* for OnUpdate to return unless it is killed.
Exit ==
    /\ pc["stopper"] = "exit"
    /\ Down
    /\ UNCHANGED <<api, event, az, open, used, past>>

-----------------------------------------------------------------------------
Sync ==
    \/ syncLoadBalancer
    \/ OnUpdateRemoved
    \/ OnUpdateNil
    \/ OnUpdateWanted
    \/ OnUpdateNoConfigMap
    \/ CheckExists
    \/ patchUpdating
    \/ ReadError
    \/ getAzureLoadbalancer
    \/ createAzureLoadBalancer
    \/ pathLoadBalancerName
    \/ ensureSyncDefaultAzureLBConfig
    \/ ensureSyncDefaultRules
    \/ syncRules
    \/ \E n \in Nodes : \/ detachNetworkInterfacesAndLoadBalancer(n)
                        \/ attachNetworkInterfacesAndLoadBalancer(n)
    \/ syncBackendPoolsDone
    \/ syncSecurityGroupRules
    \/ updateCacheData
    \/ SyncFailed

CleanupStep(t) ==
    \/ cleanupAzureLB(t)
    \/ CleanupNil(t)
    \/ cleanUpSecurityGroup(t)
    \/ recoverDefaultAzureLoadBalancer(t)
    \/ CleanupFailed(t)
    \/ DeleteBalancer(t)
    \/ patachFinalizersAndStatus(t)

Environment ==
    \/ \E s \in Specs : WriteSpec(s)
    \/ DeleteObject
    \/ \E rules \in SUBSET Rules : WatchCM(rules)
    \/ Kill
    \/ Stop

Next ==
    \/ Sync
    \/ \E t \in Threads : CleanupStep(t)
    \/ Watch
    \/ Restart
    \/ Exit
    \/ Environment

Spec == Init /\ [][Next]_vars

\* The worker and the watch never pause for ever, the process is restarted,
\* and a stopping one ends.
FairSpec ==
    /\ Spec
    /\ WF_vars(Sync \/ CleanupStep("worker"))
    /\ WF_vars(CleanupStep("stopper") \/ Exit)
    /\ WF_vars(Watch)
    /\ WF_vars(Restart)

-----------------------------------------------------------------------------
(* Properties                                                               *)

\* Nothing is left to do: the provider has seen the newest object, and its last
\* sync has not been given up.
Quiet ==
    /\ pc["worker"] = "idle" /\ pc["stopper"] = "off"
    /\ ~event /\ ~queue.pending /\ ~queue.dropped

Wanted == api.live /\ api.spec.azure /\ Valid(api) /\ ~api.deleting

\* The security groups of the nodes open no other ports than the balancer's, and one
\* of them opens all. That is all there is with several nodes: the maps the groups
\* share are used up by the first ones (see AllGroupsSynced of AzureSecurityGroups).
GroupsOpen(nodes, ports) ==
    /\ \A n \in nodes : open[n] \subseteq ports
    /\ nodes # {} => \E n \in nodes : open[n] = ports

\* The balancer in Azure is the one the object and the ConfigMaps ask for.
Synced ==
    /\ az = [front |-> api.spec.front, conf |-> TRUE, rules |-> Defaults \cup cm,
             nics |-> api.spec.nodes]
    /\ api.named
    /\ usePublicAddress(api) => GroupsOpen(api.spec.nodes, Defaults \cup cm)

\* When the provider has nothing left to do, the balancer in Azure is the one
\* the object asks for: what the comment on ensureSync says ("make sure azure lb
\* config stay in same with compass lb").
InSyncAtRest == Quiet /\ Wanted => Synced

\* A failed sync is not repeated when OnUpdate finds the object equal to the one
\* synced before: because it is that one again, or because oldAzureProvider and
\* l.lb are the same and the name, or the flag ReserveAzure, was set in both.
Forgiven == past.reverted \/ past.unnamed

\* The same for objects and rules that do not return to what they were, whatever
\* call fails and whenever the process is killed: a failed sync is repeated until
\* it is done, and what was left half done is completed.
AtRestSynced == Quiet /\ Wanted => Synced \/ Forgiven

\* A load balancer that stays wanted gets its balancer in Azure, unless its key
\* is dropped.
EventuallyInSync == <>[](Wanted /\ Up) => []<>(Synced \/ queue.dropped \/ Forgiven)

\* The worker does not delete a balancer when the last Azure provider it was
\* given asks to keep it, even if the sync of that one failed (setCacheReserveStatus
\* comes first). Stop, which reads the remembered flag, may.
ReserveRespected ==
    [][az # Nil /\ az' = Nil /\ past.reserve => pc["worker"] # "delete"]_vars

Calm == used.faults = 0 /\ used.crashes = 0

\* The balancer is deleted, or recovered to one without rules and members.
Gone == az = Nil \/ (az.rules = {} /\ az.nics = {})

\* The finalizer is the last thing to go: an object that had it is not gone
\* before its balancer, as long as no call has failed and the process was not
\* stopped (it knows the balancer from memory only). An object that gets an Azure
\* provider again after a cleanup is exempt: cleanAzure stays set, the next cleanup
\* is skipped, and a process that panics after it forgets the balancer.
ReleasedClean == ~api.live /\ past.guarded /\ Calm /\ ~past.spent => Gone

Removed == api.live /\ (api.deleting \/ ~api.spec.azure)

\* When the Azure provider of an object is removed, or the object deleted, its
\* balancer is cleaned up - also when that happens in the middle of a sync. The
\* exceptions: a failing call, since the cleanup is not repeated; the name patch of
\* a running sync, which gives the object an invalid Azure provider; and a second
\* cleanup, which cleanAzure, never reset, makes OnUpdate skip.
EventuallyRemoved == <>[](Removed /\ Valid(api) /\ Calm /\ ~past.spent) => []<>Gone

\* A deleted object with an Azure provider does not stay for ever, with the same
\* exceptions.
EventuallyReleased ==
    ~<>[](Removed /\ api.deleting /\ api.spec.azure /\ Valid(api) /\ Calm /\ ~past.spent)

\* Nodes whose group has rules of the provider.
Opened == {n \in Nodes : open[n] # {}}

AlwaysPublic == \A s \in past.specs : s.front = "public"

\* At rest only nodes of the pool have their security group open: the group of a
\* node that is replaced is closed. A crash or failure between the detachment
\* and the groups leaves it open for good, as does a private frontend.
GroupsClosed ==
    Quiet /\ Wanted /\ AlwaysPublic /\ Calm /\ ~past.unnamed => Opened \subseteq Pooled

\* An object without an Azure provider makes OnUpdate panic on every event that
\* changes nothing, its own status patch among them; the restarted process does
\* not, so it stays up while nothing else happens.
NoCrashLoop == <>[]api.live => <>[]Up
=============================================================================
