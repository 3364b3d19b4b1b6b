--------------------------- MODULE AzureSyncProofs ---------------------------
(* Proof of AtRestSynced: whatever calls fail and whenever the process ends,  *)
(* at rest the balancer in Azure is the one the object asks for.              *)
EXTENDS AzureCalmProofs

-----------------------------------------------------------------------------
(* What the worker has been given                                           *)

\* The same balancer is asked for: ReserveAzure is not a part of it.
Alike(s, u) == s.front = u.front /\ s.nodes = u.nodes

Seen(s) == \E r \in past.specs : Alike(r, s)

\* A specification with a frontend is one somebody has written.
Written(s) == (s.azure \/ s.front = "none") /\ (s.front = "none" \/ Seen(s))

Proper(s) == s.front # "none" /\ Seen(s)

\* The store is behind the API server only as long as there is an event, and whatever
\* the worker has was there once.
HistoryInv ==
    /\ event \/ store = api
    /\ Written(api.spec) /\ Written(store.spec)
    /\ {{}, cm, job.data, l.ruleMap} \subseteq past.cms
    /\ pc["worker"] \in Syncing => Proper(job.obj.spec)
    /\ l.same => Proper(l.lb.spec)

-----------------------------------------------------------------------------
(* What AtRestSynced needs                                                  *)

\* The balancer in Azure is the one s and rules ask for.
Made(s, rules) ==
    /\ az = [front |-> s.front, conf |-> TRUE, rules |-> Defaults \cup rules, nics |-> s.nodes]
    /\ s.front = "public" => GroupsOpen(s.nodes, Defaults \cup rules)

\* The runs AtRestSynced is about, until the object is deleted or the process stops.
Concerned == ~Forgiven /\ pc["stopper"] = "off" /\ api.live /\ ~api.deleting

\* What was synced last is not asked for any more, and will not be again.
Left == ~Alike(api.spec, l.lb.spec) \/ cm # l.ruleMap

\* What the store, the job or the memory has passed by does not come back.
Lagging ==
    /\ pc["worker"] \in Syncing /\ ~Alike(store.spec, job.obj.spec) =>
         ~Alike(api.spec, job.obj.spec)
    /\ l.same /\ ~Alike(store.spec, l.lb.spec) => ~Alike(api.spec, l.lb.spec)
    /\ l.same /\ pc["worker"] \in Syncing =>
         \/ Alike(job.obj.spec, l.lb.spec) /\ job.data = l.ruleMap
         \/ Left

\* What is remembered as synced is what Azure has, or is not asked for any more.
Faithful ==
    /\ l.same => /\ l.lb.named
                 /\ Made(l.lb.spec, l.ruleMap) \/ Left
                 /\ pc["worker"] \notin Cleaning
                 /\ pc["worker"] \in Syncing => job.obj.named
    /\ ~l.same /\ l.lb # Nil => ~l.lb.spec.azure

\* The members of the pool are exchanged as far as the list says.
Exchanging ==
    /\ job.todo \subseteq Detachs \cup Attachs
    /\ az.nics = (job.snap.nics \ (Detachs \ job.todo)) \cup (Attachs \ job.todo)

\* The groups off the list open no other ports than those asked for. The first of
\* them opens all, and until then the maps are complete.
Opening ==
    LET nodes == job.obj.spec.nodes
        ports == Defaults \cup job.data
    IN /\ az.nics = nodes /\ job.todo \subseteq Detachs \cup nodes /\ job.want \subseteq ports
       /\ \A n \in nodes \ job.todo : open[n] \subseteq ports
       /\ \/ nodes \subseteq job.todo /\ job.want = ports
          \/ job.todo \cap Detachs = {} /\ \E n \in nodes \ job.todo : open[n] = ports

\* How far ensureSync has come: its picture of the balancer is true.
Progress ==
    /\ pc["worker"] \in Answered => az # Nil
    /\ pc["worker"] \in Answered \ {"name"} => job.obj.named
    /\ pc["worker"] = "create" => ~job.obj.named \/ az = Nil
    /\ pc["worker"] \in {"name", "config", "defaults", "rules"} => job.snap = az
    /\ pc["worker"] \in {"defaults", "rules", "pool", "groups", "done"} =>
         az.conf /\ az.front = job.obj.spec.front
    /\ pc["worker"] = "rules" => Defaults \subseteq az.rules
    /\ pc["worker"] \in {"pool", "groups", "done"} => az.rules = Defaults \cup job.data
    /\ pc["worker"] = "pool" => Exchanging
    /\ pc["worker"] = "groups" => Opening
    /\ pc["worker"] = "done" => Made(job.obj.spec, job.data)

\* Nothing new goes unnoticed: what is synced is the newest, unless the key is queued
\* or an event is to come, and a worker that has nothing to do has synced it.
Attentive ==
    /\ pc["worker"] \in Syncing /\ ~queue.pending =>
         \/ event
         \/ /\ store.spec = job.obj.spec /\ cm = job.data
            /\ job.obj.named => store.named
    /\ pc["worker"] \in Cleaning /\ ~queue.pending => ~store.spec.azure
    /\ pc["worker"] = "idle" /\ ~queue.pending /\ ~queue.dropped =>
         \/ event
         \/ ~store.spec.azure \/ ~Valid(store)
         \/ Made(store.spec, cm) /\ store.named

SyncedInv == Concerned => Lagging /\ Faithful /\ Progress /\ Attentive
-----------------------------------------------------------------------------
(* Steps                                                                    *)

\* A specification that asks for what was asked for before the present one makes it
\* come back.
LEMMA ReturnComesBack ==
    ASSUME TypeInv, NEW s \in Specs, NEW u, Seen(u), ~Alike(api.spec, u), Alike(s, u)
    PROVE  ComesBack(s)
  <1>1. PICK r \in past.specs : Alike(r, u)
    BY DEF Seen
  <1>2. r \in Specs
    BY Typed DEF Past
  <1>3. /\ r \in LBSpec /\ (r.azure <=> r.front # "none")
        /\ s \in LBSpec /\ (s.azure <=> s.front # "none")
    BY <1>2, AzureAssumption
  <1>4. r.front = s.front /\ r.nodes = s.nodes
    BY <1>1 DEF Alike
  <1>5. r.azure = s.azure
    BY <1>3, <1>4 DEF LBSpec
  <1>6. [r EXCEPT !.reserve = s.reserve] = s
    BY <1>3, <1>4, <1>5 DEF LBSpec
  <1>7. r # api.spec
    BY <1>1
  <1> QED
    BY <1>6, <1>7 DEF ComesBack

\* The object with the name pathLoadBalancerName patches.
LEMMA NamedObject ==
    ASSUME NEW o \in Object
    PROVE  /\ [o EXCEPT !.spec.azure = TRUE, !.named = TRUE] \in Object
           /\ [o EXCEPT !.spec.azure = TRUE, !.named = TRUE].named
           /\ [o EXCEPT !.spec.azure = TRUE, !.named = TRUE].deleting = o.deleting
           /\ [o EXCEPT !.spec.azure = TRUE, !.named = TRUE].spec.azure
           /\ Alike([o EXCEPT !.spec.azure = TRUE, !.named = TRUE].spec, o.spec)
  <1> DEFINE spec == [o.spec EXCEPT !.azure = TRUE]
  <1>1. spec \in LBSpec /\ spec.azure /\ Alike(spec, o.spec)
    BY ObjectFields DEF LBSpec, Alike
  <1> HIDE DEF spec
  <1>2. [o EXCEPT !.spec.azure = TRUE, !.named = TRUE] = [o EXCEPT !.spec = spec, !.named = TRUE]
    BY DEF spec, Object
  <1> QED
    BY <1>1, <1>2 DEF Object

\* Who changes the specification.
LEMMA SpecStep ==
    ASSUME TypeInv, [Next]_vars
    PROVE  \/ api'.spec = api.spec
           \/ \E s \in Specs : WriteSpec(s) /\ api'.spec = s
           \/ pathLoadBalancerName /\ api'.spec.azure /\ Alike(api'.spec, api.spec)
  <1> USE Typed
  <1>1. ASSUME NEW s \in Specs, WriteSpec(s)
        PROVE  api'.spec = s
    <2> DEFINE o == [api EXCEPT !.spec = s, !.named = @ /\ s.azure]
    <2>1. s \in LBSpec /\ (api.named /\ s.azure) \in BOOLEAN
      BY <1>1, AzureAssumption
    <2>2. o \in Object /\ o.spec = s
      BY <2>1 DEF Object
    <2>3. Put(o)
      BY <1>1 DEF WriteSpec
    <2> HIDE DEF o
    <2> QED
      BY <2>2, <2>3, PutStep
  <1>2. CASE DeleteObject
    <2> DEFINE o == [api EXCEPT !.deleting = TRUE]
    <2>1. o \in Object /\ o.spec = api.spec
      BY DEF Object
    <2>2. Put(o)
      BY <1>2 DEF DeleteObject
    <2> HIDE DEF o
    <2> QED
      BY <2>1, <2>2, PutStep
  <1>3. CASE pathLoadBalancerName
    <2> DEFINE o == [api EXCEPT !.spec.azure = TRUE, !.named = TRUE]
    <2>1. PICK out \in Outcomes : Patch(o, out)
      BY <1>3 DEF pathLoadBalancerName
    <2>2. o \in Object /\ o.spec.azure /\ Alike(o.spec, api.spec)
      BY NamedObject
    <2> HIDE DEF o
    <2>3. CASE Put(o)
      BY <1>3, <2>2, <2>3, PutStep
    <2>4. CASE UNCHANGED api
      BY <2>4
    <2> QED
      BY <2>1, <2>3, <2>4 DEF Patch
  <1>4. ASSUME NEW t \in Threads, patachFinalizersAndStatus(t)
        PROVE  api'.spec = api.spec
    <2> DEFINE o == [api EXCEPT !.fin = @ /\ ~DropsFinalizer(t),
                                !.blank = @ \/ ~arg[t].deleteLB]
    <2>1. (api.fin /\ ~DropsFinalizer(t)) \in BOOLEAN
          /\ (api.blank \/ ~arg[t].deleteLB) \in BOOLEAN
      OBVIOUS
    <2>2. o \in Object /\ o.spec = api.spec
      BY <2>1 DEF Object
    <2>3. PICK out \in Outcomes : Patch(o, out) \/ UNCHANGED api
      BY <1>4 DEF patachFinalizersAndStatus
    <2> HIDE DEF o
    <2> QED
      BY <2>2, <2>3, PutStep DEF Patch
  <1>5. CASE Sync /\ ~pathLoadBalancerName
    <2>1. UNCHANGED api
      BY <1>5 DEF Sync, syncLoadBalancer, OnUpdateRemoved, OnUpdateNil, Panic, OnUpdateWanted,
               OnUpdateNoConfigMap, CheckExists, patchUpdating, PatchStatus, ReadError,
               getAzureLoadbalancer, createAzureLoadBalancer, ensureSyncDefaultAzureLBConfig,
               ensureSyncDefaultRules, syncRules, detachNetworkInterfacesAndLoadBalancer,
               attachNetworkInterfacesAndLoadBalancer, syncBackendPoolsDone,
               syncSecurityGroupRules, deleteUselessSecurityRules,
               ensureSyncRulesToSecurityGroups, syncSecurityGroupRulesDone,
               updateCacheData, SyncFailed
    <2> QED
      BY <2>1
  <1>6. ASSUME NEW t \in Threads, CleanupStep(t), ~patachFinalizersAndStatus(t)
        PROVE  UNCHANGED api
    BY <1>6 DEF CleanupStep, cleanupAzureLB, CleanupNil, Panic, cleanUpSecurityGroup,
               recoverDefaultAzureLoadBalancer, CleanupFailed, PatchStatus, DeleteBalancer
  <1>7. CASE \/ Watch \/ Restart \/ Exit \/ Kill \/ Stop \/ UNCHANGED vars
             \/ \E rules \in SUBSET Rules : WatchCM(rules)
    BY <1>7 DEF Watch, Restart, Exit, Kill, Stop, WatchCM, vars
  <1>8. CASE \E t \in Threads : CleanupStep(t)
    BY <1>4, <1>6, <1>8
  <1> QED
    BY <1>1, <1>2, <1>3, <1>5, <1>7, <1>8 DEF Next, Environment

\* The store changes with an event only, and every change of the object is one.
LEMMA NewsStep ==
    ASSUME TypeInv, [Next]_vars
    PROVE  \/ Watch \/ Restart
           \/ UNCHANGED store /\ (event => event') /\ (event' \/ UNCHANGED api)
  <1>1. CASE Sync
    BY <1>1 DEF Sync, syncLoadBalancer, OnUpdateRemoved, OnUpdateNil, Panic, Down, OnUpdateWanted,
               OnUpdateNoConfigMap, CheckExists, patchUpdating, ReadError,
               getAzureLoadbalancer, createAzureLoadBalancer, ensureSyncDefaultAzureLBConfig,
               ensureSyncDefaultRules, syncRules, detachNetworkInterfacesAndLoadBalancer,
               attachNetworkInterfacesAndLoadBalancer, syncBackendPoolsDone,
               syncSecurityGroupRules, deleteUselessSecurityRules,
               ensureSyncRulesToSecurityGroups, syncSecurityGroupRulesDone,
               updateCacheData, SyncFailed, pathLoadBalancerName,
               PatchStatus, Patch, Put
  <1>2. CASE \E t \in Threads : CleanupStep(t)
    BY <1>2 DEF CleanupStep, cleanupAzureLB, CleanupNil, Panic, Down, cleanUpSecurityGroup,
               recoverDefaultAzureLoadBalancer, CleanupFailed, DeleteBalancer,
               patachFinalizersAndStatus, PatchStatus, Patch, Put
  <1>3. CASE Watch \/ Restart \/ Exit \/ Environment \/ UNCHANGED vars
    BY <1>3 DEF Exit, Environment, WriteSpec, DeleteObject, WatchCM, Kill, Stop, Down, vars, Put
  <1> QED
    BY <1>1, <1>2, <1>3 DEF Next

\* Only a ConfigMap event changes the rules asked for.
LEMMA RulesStep ==
    ASSUME TypeInv, [Next]_vars
    PROVE  UNCHANGED cm \/ \E rules \in SUBSET Rules : WatchCM(rules)
  <1>1. CASE Sync
    BY <1>1 DEF Sync, syncLoadBalancer, OnUpdateRemoved, OnUpdateNil, Panic, Down, OnUpdateWanted,
               OnUpdateNoConfigMap, CheckExists, patchUpdating, ReadError,
               getAzureLoadbalancer, createAzureLoadBalancer, ensureSyncDefaultAzureLBConfig,
               ensureSyncDefaultRules, syncRules, detachNetworkInterfacesAndLoadBalancer,
               attachNetworkInterfacesAndLoadBalancer, syncBackendPoolsDone,
               syncSecurityGroupRules, deleteUselessSecurityRules,
               ensureSyncRulesToSecurityGroups, syncSecurityGroupRulesDone,
               updateCacheData, SyncFailed, pathLoadBalancerName
  <1>2. CASE \E t \in Threads : CleanupStep(t)
    BY <1>2 DEF CleanupStep, cleanupAzureLB, CleanupNil, Panic, Down, cleanUpSecurityGroup,
               recoverDefaultAzureLoadBalancer, CleanupFailed, DeleteBalancer,
               patachFinalizersAndStatus
  <1>3. CASE Watch \/ Restart \/ Exit \/ Environment \/ UNCHANGED vars
    BY <1>3 DEF Watch, Restart, Exit, Environment, WriteSpec, DeleteObject, Kill, Stop, Down, vars
  <1> QED
    BY <1>1, <1>2, <1>3 DEF Next

\* What is left behind stays behind, or it has come back.
LEMMA BehindStep ==
    ASSUME TypeInv, [Next]_vars, ~past'.reverted
    PROVE  /\ \A u : Seen(u) /\ ~Alike(api.spec, u) => ~Alike(api'.spec, u)
           /\ \A rules \in past.cms : cm # rules => cm' # rules
  <1> USE Typed
  <1>1. ASSUME NEW u, Seen(u), ~Alike(api.spec, u)
        PROVE  ~Alike(api'.spec, u)
    <2>1. ASSUME NEW s \in Specs, WriteSpec(s), api'.spec = s, Alike(s, u)
          PROVE  FALSE
      <3>1. ComesBack(s)
        BY <1>1, <2>1, ReturnComesBack
      <3>2. past' = [past EXCEPT !.specs = @ \cup {s}, !.reverted = @ \/ ComesBack(s)]
        BY <2>1 DEF WriteSpec
      <3> QED
        BY <3>1, <3>2 DEF Past
    <2>2. CASE Alike(api'.spec, api.spec)
      BY <1>1, <2>2 DEF Alike
    <2>3. CASE api'.spec = api.spec
      BY <1>1, <2>3
    <2> QED
      BY <2>1, <2>2, <2>3, SpecStep
  <1>2. ASSUME NEW rules \in past.cms, cm # rules
        PROVE  cm' # rules
    <2>1. ASSUME WatchCM(rules)
          PROVE  FALSE
      <3>1. past' = [past EXCEPT !.cms = @ \cup {rules}, !.reverted = @ \/ rules \in past.cms]
        BY <2>1 DEF WatchCM
      <3> QED
        BY <1>2, <3>1 DEF Past
    <2> QED
      BY <1>2, <2>1, RulesStep DEF WatchCM
  <1> QED
    BY <1>1, <1>2
\* What is remembered as synced when oldAzureProvider changes.
LEMMA CachedAlike ==
    ASSUME TypeInv, NEW named \in BOOLEAN, NEW reserve \in BOOLEAN, l' = Cached(named, reserve)
    PROVE  /\ l'.same <=> l.same
           /\ l'.ruleMap = l.ruleMap
           /\ l.same => Alike(l'.lb.spec, l.lb.spec) /\ (l'.lb.named <=> named)
           /\ ~l.same => l'.lb = l.lb
  <1> USE Typed
  <1>1. (l'.same <=> l.same) /\ l'.ruleMap = l.ruleMap
    BY CachedType DEF Cached, Memory
  <1>2. CASE l.same
    <2>1. l.lb \in View
      BY <1>2
    <2> DEFINE spec == [l.lb.spec EXCEPT !.reserve = reserve]
               lb == [l.lb EXCEPT !.named = named, !.spec = spec]
    <2>2. spec \in LBSpec /\ Alike(spec, l.lb.spec)
      BY <2>1 DEF View, LBSpec, Alike
    <2>3. l'.lb = [l.lb EXCEPT !.named = named, !.spec.reserve = reserve]
      BY <1>2 DEF Cached, Memory
    <2>4. l'.lb = lb
      BY <2>1, <2>3 DEF View
    <2> HIDE DEF spec
    <2>5. lb.spec = spec /\ (lb.named <=> named)
      BY <2>1 DEF View
    <2> QED
      BY <1>1, <1>2, <2>2, <2>4, <2>5
  <1>3. CASE ~l.same
    BY <1>1, <1>3 DEF Cached, Memory
  <1> QED
    BY <1>2, <1>3

\* What is remembered as synced is kept, but for the flag ReserveAzure, or forgotten.
Keeps ==
    /\ l'.same => l.same /\ Alike(l'.lb.spec, l.lb.spec) /\ l'.ruleMap = l.ruleMap
    /\ l'.ruleMap \in {l.ruleMap, {}}

\* So is what is being synced.
GoesOn ==
    /\ pc'["worker"] \in Syncing =>
         /\ pc["worker"] \in Syncing
         /\ job'.obj.spec = job.obj.spec /\ job'.data = job.data
    /\ job'.data \in {job.data, {}}

LEMMA DownKeeps ==
    ASSUME Down
    PROVE  Keeps /\ GoesOn
  <1>1. pc'["worker"] = "down" /\ l' = NewProvider /\ job' = NoJob
    BY DownStep
  <1>2. ~l'.same /\ l'.ruleMap = {} /\ job'.data = {}
    BY <1>1 DEF NewProvider, NoJob
  <1> QED
    BY <1>1, <1>2 DEF Keeps, GoesOn, Syncing

LEMMA CleanupKeeps ==
    ASSUME TypeInv, NEW t \in Threads, CleanupStep(t)
    PROVE  Keeps /\ GoesOn
  <1> USE Typed
  <1>1. CASE Down
    BY <1>1, DownKeeps
  <1>2. CASE ~Down
    <2>1. UNCHANGED l \/ \E old, same : l' = [l EXCEPT !.clean = TRUE, !.old = old,
                                                       !.same = @ /\ same]
      BY <1>2 DEF CleanupStep, cleanupAzureLB, CleanupNil, Panic, cleanUpSecurityGroup,
             recoverDefaultAzureLoadBalancer, CleanupFailed, DeleteBalancer,
             patachFinalizersAndStatus
    <2>2. Keeps
      BY <2>1 DEF Keeps, Alike, Memory
    <2>3. UNCHANGED job \/ job' = NoJob
      BY <1>2 DEF CleanupStep, cleanupAzureLB, CleanupNil, Panic, cleanUpSecurityGroup,
             recoverDefaultAzureLoadBalancer, CleanupFailed, DeleteBalancer,
             patachFinalizersAndStatus, CleanupReturn, Return
    <2>4. /\ pc[t] \in Cleaning /\ pc'[t] \in Cleaning \cup {"idle", "exit"}
          /\ \A u \in Threads \ {t} : pc'[u] = pc[u]
          /\ t = "stopper" => UNCHANGED job
      BY <1>2, CleanupStepKeeps
    <2>5. GoesOn
      BY <2>3, <2>4 DEF GoesOn, NoJob, Threads, Cleaning, Syncing
    <2> QED
      BY <2>2, <2>5
  <1> QED
    BY <1>1, <1>2

\* The worker starts to sync what is in the store.
Starts ==
    /\ OnUpdateWanted
    /\ pc["worker"] = "idle" /\ pc'["worker"] = "check" /\ pc'["stopper"] = pc["stopper"]
    /\ job'.obj = store /\ job'.data = cm
    /\ Valid(store) /\ store.spec.azure

\* It remembers what it has synced.
Ends ==
    /\ updateCacheData
    /\ pc["worker"] = "done" /\ pc'["worker"] = "idle" /\ pc'["stopper"] = pc["stopper"]
    /\ l'.same /\ l'.lb = ViewOf(job.obj) /\ l'.ruleMap = job.data
    /\ job'.data = {}

LEMMA OnUpdateKeeps ==
    ASSUME TypeInv,
           \/ syncLoadBalancer \/ OnUpdateRemoved \/ OnUpdateNil \/ OnUpdateWanted
           \/ OnUpdateNoConfigMap \/ CheckExists
    PROVE  Keeps /\ (GoesOn \/ Starts)
  <1> USE Typed
  <1>0. "worker" \in Threads /\ store.named \in BOOLEAN /\ store.spec.reserve \in BOOLEAN
    BY ObjectFields DEF Threads
  <1>1. CASE syncLoadBalancer
    BY <1>1 DEF syncLoadBalancer, Keeps, GoesOn, Alike
  <1>2. CASE OnUpdateRemoved
    <2>1. /\ l' = [l EXCEPT !.lb = ViewOf(store), !.same = FALSE] /\ UNCHANGED job
          /\ Goto("worker", "cleanup")
      BY <1>2 DEF OnUpdateRemoved, Cleanup
    <2>2. pc'["worker"] = "cleanup"
      BY <1>0, <2>1 DEF Goto
    <2> QED
      BY <2>1, <2>2 DEF Keeps, GoesOn, Memory, Syncing
  <1>3. CASE OnUpdateNil
    BY <1>3, DownKeeps DEF OnUpdateNil, Panic
  <1>4. CASE OnUpdateWanted
    <2>1. l' = Cached(store.named, store.spec.reserve) /\ pc["worker"] = "idle"
      BY <1>4 DEF OnUpdateWanted, Given, Take
    <2>2. Keeps
      BY <1>0, <2>1, CachedAlike DEF Keeps
    <2>3. CASE UNCHANGED <<pc, job>>
      BY <2>1, <2>2, <2>3 DEF GoesOn, Syncing
    <2>4. CASE Goto("worker", "check") /\ job' = [NoJob EXCEPT !.obj = store, !.data = cm]
      <3>1. pc'["worker"] = "check" /\ pc'["stopper"] = pc["stopper"]
        BY <1>0, <2>4 DEF Goto
      <3>2. job'.obj = store /\ job'.data = cm
        BY <2>4 DEF NoJob
      <3>3. Valid(store) /\ store.spec.azure
        BY <1>4 DEF OnUpdateWanted, Given
      <3> QED
        BY <1>4, <2>1, <2>2, <3>1, <3>2, <3>3 DEF Starts
    <2> QED
      BY <1>4, <2>3, <2>4 DEF OnUpdateWanted
  <1>5. CASE OnUpdateNoConfigMap
    <2>1. /\ l' = Cached(store.named, store.spec.reserve) /\ UNCHANGED <<pc, job>>
      BY <1>5 DEF OnUpdateNoConfigMap
    <2> QED
      BY <1>0, <2>1, CachedAlike DEF Keeps, GoesOn
  <1>6. CASE CheckExists
    <2>1. pc["worker"] = "check" /\ UNCHANGED <<l, job>>
      BY <1>6 DEF CheckExists
    <2> QED
      BY <2>1 DEF Keeps, GoesOn, Alike, Syncing
  <1> QED
    BY <1>1, <1>2, <1>3, <1>4, <1>5, <1>6

LEMMA SyncKeeps ==
    ASSUME TypeInv, Middle \/ pathLoadBalancerName \/ updateCacheData \/ SyncFailed
    PROVE  GoesOn /\ (Keeps \/ Ends)
  <1> USE Typed
  <1>1. CASE Middle
    BY <1>1, MiddleStep DEF Keeps, GoesOn, Alike
  <1>2. CASE pathLoadBalancerName
    <2> DEFINE reserve == IF l.old = Nil THEN FALSE ELSE l.old.reserve
    <2>1. /\ pc["worker"] = "name" /\ job.obj \in Object
          /\ l' = Cached(TRUE, reserve) /\ job' = [job EXCEPT !.obj.named = TRUE]
      BY <1>2 DEF pathLoadBalancerName, Syncing
    <2>2. reserve \in BOOLEAN
      BY DEF Memory, Provider
    <2> HIDE DEF reserve
    <2>3. Keeps
      BY <2>1, <2>2, CachedAlike DEF Keeps
    <2>4. job'.obj.spec = job.obj.spec /\ job'.data = job.data
      BY <2>1 DEF Job, Object
    <2> QED
      BY <2>1, <2>3, <2>4 DEF GoesOn, Syncing
  <1>3. CASE updateCacheData
    <2>1. /\ pc["worker"] = "done" /\ Return(TRUE)
          /\ l' = [old |-> [named |-> job.obj.named, reserve |-> job.obj.spec.reserve],
                   lb |-> ViewOf(job.obj), same |-> TRUE, ruleMap |-> job.data,
                   clean |-> l.clean]
      BY <1>3 DEF updateCacheData
    <2>2. pc'["worker"] = "idle" /\ pc'["stopper"] = pc["stopper"] /\ job'.data = {}
      BY <2>1, ReturnType DEF Return, NoJob
    <2>3. l'.same /\ l'.lb = ViewOf(job.obj) /\ l'.ruleMap = job.data
      BY <2>1
    <2> QED
      BY <1>3, <2>1, <2>2, <2>3 DEF Ends, GoesOn, Syncing
  <1>4. CASE SyncFailed
    <2>1. UNCHANGED l /\ Return(FALSE)
      BY <1>4 DEF SyncFailed
    <2>2. pc'["worker"] = "idle" /\ job'.data = {}
      BY <2>1, ReturnType DEF Return, NoJob
    <2> QED
      BY <2>1, <2>2 DEF Keeps, GoesOn, Alike, Syncing
  <1> QED
    BY <1>1, <1>2, <1>3, <1>4

LEMMA KeepsStep ==
    ASSUME TypeInv, [Next]_vars
    PROVE  \/ Keeps /\ GoesOn
           \/ Keeps /\ Starts
           \/ GoesOn /\ Ends
  <1>1. CASE Sync
    BY <1>1, OnUpdateKeeps, SyncKeeps DEF Sync, Middle
  <1>2. CASE \E t \in Threads : CleanupStep(t)
    BY <1>2, CleanupKeeps
  <1>3. CASE Kill \/ Exit
    BY <1>3, DownKeeps DEF Kill, Exit
  <1>4. CASE Restart
    <2>1. UNCHANGED <<l, job>> /\ pc'["worker"] = "idle"
      BY <1>4, Typed DEF Restart, Threads
    <2> QED
      BY <2>1 DEF Keeps, GoesOn, Alike, Syncing
  <1>5. CASE Stop
    <2>1. UNCHANGED <<l, job>> /\ pc'["worker"] = pc["worker"]
      BY <1>5, Typed DEF Stop, Goto, Cleanup, Threads
    <2> QED
      BY <2>1 DEF Keeps, GoesOn, Alike
  <1>6. CASE \/ Watch \/ DeleteObject \/ UNCHANGED vars
             \/ \E s \in Specs : WriteSpec(s)
             \/ \E rules \in SUBSET Rules : WatchCM(rules)
    <2>1. UNCHANGED <<l, job, pc>>
      BY <1>6 DEF Watch, DeleteObject, WriteSpec, WatchCM, vars
    <2> QED
      BY <2>1 DEF Keeps, GoesOn, Alike
  <1> QED
    BY <1>1, <1>2, <1>3, <1>4, <1>5, <1>6 DEF Next, Environment

-----------------------------------------------------------------------------
(* History                                                                  *)

LEMMA HistoryInvariant == Spec => []HistoryInv
  <1>1. Init => HistoryInv
    <2> SUFFICES ASSUME Init PROVE HistoryInv
      OBVIOUS
    <2>1. /\ store = api /\ api.spec = FirstSpec /\ past.specs = {FirstSpec} /\ past.cms = {{}}
          /\ cm = {} /\ job.data = {} /\ l.ruleMap = {} /\ ~l.same /\ pc["worker"] = "idle"
      BY DEF Init, Threads, NewProvider, NoJob
    <2>2. FirstSpec.azure \/ FirstSpec.front = "none"
      BY AzureAssumption
    <2>3. Written(api.spec)
      BY <2>1, <2>2 DEF Written, Seen, Alike
    <2> QED
      BY <2>1, <2>3 DEF HistoryInv, Syncing
  <1>2. TypeInv /\ HistoryInv /\ [Next]_vars => HistoryInv'
    <2> SUFFICES ASSUME TypeInv, HistoryInv, [Next]_vars
                 PROVE  HistoryInv'
      OBVIOUS
    <2> USE Typed
    <2>0. past.specs \subseteq past'.specs /\ past.cms \subseteq past'.cms
      BY PastStep
    <2>2. \A s : (Seen(s) => Seen(s)') /\ (Written(s) => Written(s)')
      BY <2>0 DEF Seen, Written
    <2>3. event' \/ store' = api'
      BY NewsStep DEF HistoryInv, Watch, Restart
    <2>4. Written(api.spec)'
      <3>1. CASE api'.spec = api.spec
        BY <2>2, <3>1 DEF HistoryInv, Written, Seen
      <3>2. ASSUME NEW s \in Specs, WriteSpec(s), api'.spec = s
            PROVE  Written(api.spec)'
        <4>1. s \in past'.specs
          BY <3>2 DEF WriteSpec, Past
        <4>2. s.azure \/ s.front = "none"
          BY <3>2, AzureAssumption
        <4> QED
          BY <3>2, <4>1, <4>2 DEF Written, Seen, Alike
      <3>3. CASE api'.spec.azure /\ Alike(api'.spec, api.spec)
        <4>1. Seen(api.spec) \/ api.spec.front = "none"
          BY DEF HistoryInv, Written
        <4> QED
          BY <2>0, <3>3, <4>1 DEF Seen, Written, Alike
      <3> QED
        BY <3>1, <3>2, <3>3, SpecStep
    <2>5. Written(store.spec)'
      <3>1. store'.spec = store.spec \/ store'.spec = api.spec
        BY StoreStep
      <3> QED
        BY <2>0, <3>1 DEF HistoryInv, Written, Seen
    <2>6. cm' \in past'.cms
      <3>1. CASE UNCHANGED cm
        BY <2>0, <3>1 DEF HistoryInv
      <3>2. ASSUME NEW rules \in SUBSET Rules, WatchCM(rules)
            PROVE  cm' \in past'.cms
        BY <3>2 DEF WatchCM, Past
      <3> QED
        BY <3>1, <3>2, RulesStep
    <2>7. {{}, job'.data, l'.ruleMap} \subseteq past'.cms
      <3>1. {{}, cm, job.data, l.ruleMap} \subseteq past'.cms
        BY <2>0 DEF HistoryInv
      <3>2. job'.data \in {job.data, {}, cm} /\ l'.ruleMap \in {l.ruleMap, {}, job.data}
        BY KeepsStep DEF Keeps, GoesOn, Starts, Ends
      <3> QED
        BY <3>1, <3>2
    <2>8. pc'["worker"] \in Syncing => Proper(job.obj.spec)'
      <3>1. CASE GoesOn
        BY <2>0, <3>1 DEF GoesOn, HistoryInv, Proper, Seen
      <3>2. CASE Starts
        <4>1. store.spec.front # "none" /\ Seen(store.spec)
          BY <3>2 DEF HistoryInv, Starts, Valid, Written
        <4> QED
          BY <2>0, <3>2, <4>1 DEF Starts, Proper, Seen
      <3> QED
        BY <3>1, <3>2, KeepsStep
    <2>9. l'.same => Proper(l.lb.spec)'
      <3>1. CASE Keeps
        BY <2>0, <3>1 DEF Keeps, HistoryInv, Proper, Seen, Alike
      <3>2. CASE Ends
        <4>1. l'.lb.spec = job.obj.spec /\ Proper(job.obj.spec)
          BY <3>2 DEF Ends, ViewOf, HistoryInv, Syncing
        <4> QED
          BY <2>0, <4>1 DEF Proper, Seen
      <3> QED
        BY <3>1, <3>2, KeepsStep
    <2> QED
      BY <2>3, <2>4, <2>5, <2>6, <2>7, <2>8, <2>9 DEF HistoryInv
  <1> QED
    BY <1>1, <1>2, TypeInvariant, PTL DEF Spec
-----------------------------------------------------------------------------
(* Lagging                                                                  *)

LEMMA LeftStep ==
    ASSUME TypeInv, HistoryInv, [Next]_vars, ~past'.reverted, Keeps, l'.same, Left
    PROVE  Left'
  <1>1. l.same /\ Alike(l'.lb.spec, l.lb.spec) /\ l'.ruleMap = l.ruleMap
    BY DEF Keeps
  <1>2. Seen(l.lb.spec) /\ l.ruleMap \in past.cms
    BY <1>1 DEF HistoryInv, Proper
  <1>3. CASE ~Alike(api.spec, l.lb.spec)
    <2>1. ~Alike(api'.spec, l.lb.spec)
      BY <1>2, <1>3, BehindStep
    <2> QED
      BY <1>1, <2>1 DEF Left, Alike
  <1>4. CASE cm # l.ruleMap
    BY <1>1, <1>2, <1>4, BehindStep DEF Left
  <1> QED
    BY <1>3, <1>4 DEF Left

LEMMA LaggingStep ==
    ASSUME TypeInv, HistoryInv, [Next]_vars, ~past'.reverted, Lagging
    PROVE  Lagging'
  <1>1. store' = store \/ (store' = api /\ api' = api)
    BY StoreStep
  <1>2. \A u : Seen(u) /\ ~Alike(api.spec, u) => ~Alike(api'.spec, u)
    BY BehindStep
  <1>3. ASSUME NEW u, Seen(u), ~Alike(store.spec, u) => ~Alike(api.spec, u)
        PROVE  ~Alike(store'.spec, u) => ~Alike(api'.spec, u)
    BY <1>1, <1>2, <1>3
  <1>4. pc["worker"] \in Syncing => Seen(job.obj.spec)
    BY DEF HistoryInv, Proper
  <1>5. l.same => Seen(l.lb.spec)
    BY DEF HistoryInv, Proper
  <1>6. GoesOn \/ Starts =>
          (pc'["worker"] \in Syncing /\ ~Alike(store'.spec, job'.obj.spec) =>
             ~Alike(api'.spec, job'.obj.spec))
    <2>1. CASE GoesOn
      BY <1>3, <1>4, <2>1 DEF GoesOn, Lagging
    <2>2. CASE Starts
      <3>1. job'.obj = store /\ UNCHANGED store
        BY <2>2 DEF Starts, OnUpdateWanted
      <3> QED
        BY <3>1 DEF Alike
    <2> QED
      BY <2>1, <2>2
  <1>7. Keeps \/ Ends =>
          (l'.same /\ ~Alike(store'.spec, l'.lb.spec) => ~Alike(api'.spec, l'.lb.spec))
    <2>1. CASE Keeps
      <3>1. ASSUME l'.same
            PROVE  ~Alike(store'.spec, l.lb.spec) => ~Alike(api'.spec, l.lb.spec)
        BY <1>3, <1>5, <2>1, <3>1 DEF Keeps, Lagging
      <3> QED
        BY <2>1, <3>1 DEF Keeps, Alike
    <2>2. CASE Ends
      <3>1. l'.lb.spec = job.obj.spec /\ pc["worker"] \in Syncing
        BY <2>2 DEF Ends, ViewOf, Syncing
      <3> QED
        BY <1>3, <1>4, <3>1 DEF Lagging
    <2> QED
      BY <2>1, <2>2
  <1>8. l'.same /\ pc'["worker"] \in Syncing =>
          (Alike(job'.obj.spec, l'.lb.spec) /\ job'.data = l'.ruleMap) \/ Left'
    <2> SUFFICES ASSUME l'.same, pc'["worker"] \in Syncing
                 PROVE  (Alike(job'.obj.spec, l'.lb.spec) /\ job'.data = l'.ruleMap) \/ Left'
      OBVIOUS
    <2>1. CASE Keeps /\ GoesOn
      BY <2>1, LeftStep DEF Lagging, Keeps, GoesOn, Alike
    <2>2. CASE Keeps /\ Starts
      <3>1. l.same /\ job'.obj = store /\ job'.data = cm
        BY <2>2 DEF Keeps, Starts
      <3>2. (Alike(store.spec, l.lb.spec) /\ cm = l.ruleMap) \/ Left
        BY <3>1 DEF Lagging, Left
      <3> QED
        BY <2>2, <3>1, <3>2, LeftStep DEF Keeps, Alike
    <2>3. CASE Ends
      BY <2>3 DEF Ends, Syncing
    <2> QED
      BY <2>1, <2>2, <2>3, KeepsStep
  <1> QED
    BY <1>6, <1>7, <1>8, KeepsStep DEF Lagging

-----------------------------------------------------------------------------
(* Progress                                                                 *)

\* The balancer that is asked for, field by field.
LEMMA MadeFields ==
    ASSUME TypeInv, NEW s \in LBSpec, NEW rules \in SUBSET Rules
    PROVE  Made(s, rules) <=>
             /\ az \in Balancer /\ az # Nil
             /\ az.front = s.front /\ az.conf /\ az.rules = Defaults \cup rules
             /\ az.nics = s.nodes
             /\ s.front = "public" => GroupsOpen(s.nodes, Defaults \cup rules)
  <1> DEFINE b == [front |-> s.front, conf |-> TRUE, rules |-> Defaults \cup rules,
                   nics |-> s.nodes]
  <1>1. b \in Balancer
    BY DEF Balancer, LBSpec
  <1>2. b # Nil
    BY <1>1, NilAssumption
  <1>3. /\ b.front = s.front /\ b.conf /\ b.rules = Defaults \cup rules /\ b.nics = s.nodes
    OBVIOUS
  <1>4. ASSUME az \in Balancer, az.front = s.front, az.conf, az.rules = Defaults \cup rules,
               az.nics = s.nodes
        PROVE  az = b
    <2>1. /\ az = [front |-> az.front, conf |-> az.conf, rules |-> az.rules, nics |-> az.nics]
          /\ az.conf \in BOOLEAN
      BY <1>4, BalancerFields
    <2>2. az.conf = TRUE
      BY <1>4, <2>1
    <2> QED
      BY <1>4, <2>1, <2>2
  <1>5. Made(s, rules) <=>
          az = b /\ (s.front = "public" => GroupsOpen(s.nodes, Defaults \cup rules))
    BY DEF Made
  <1> HIDE DEF b
  <1> QED
    BY <1>1, <1>2, <1>3, <1>4, <1>5

\* A sync of what is there already changes nothing.
Undisturbed ==
    job.obj.named /\ Made(job.obj.spec, job.data) => Made(job.obj.spec, job.data)'

\* Up to Azure's answer nothing is claimed.
LEMMA EarlyProgress ==
    ASSUME pc'["worker"] \notin Answered \cup {"create"}
    PROVE  Progress'
  BY DEF Progress, Answered

LEMMA FailProgress ==
    ASSUME pc'["worker"] = "fail"
    PROVE  Progress'
  BY EarlyProgress DEF Answered

LEMMA ConfigProgress ==
    ASSUME TypeInv, Progress, Middle,
           \/ patchUpdating \/ ReadError \/ getAzureLoadbalancer \/ createAzureLoadBalancer
           \/ ensureSyncDefaultAzureLBConfig \/ ensureSyncDefaultRules
    PROVE  Progress' /\ Undisturbed
  <1> USE Typed
  <1>0. /\ "worker" \in Threads /\ job.obj \in Object /\ job.data \in SUBSET Rules
        /\ job'.obj = job.obj /\ job'.data = job.data
    BY MiddleStep DEF Threads, Job
  <1>a. job.obj.spec \in LBSpec /\ job.obj.spec.front \in Fronts
    BY <1>0, ObjectFields
  <1>b. Made(job.obj.spec, job.data) =>
          /\ az # Nil /\ az.front = job.obj.spec.front /\ az.conf
          /\ az.rules = Defaults \cup job.data
    BY <1>0, <1>a, MadeFields
  <1>c. ASSUME UNCHANGED <<az, open>>
        PROVE  Undisturbed
    BY <1>0, <1>c DEF Undisturbed, Made, GroupsOpen
  <1>1. CASE patchUpdating \/ ReadError
    <2>1. UNCHANGED <<az, open>> /\ \E step \in {"get", "fail"} : Goto("worker", step)
      BY <1>1 DEF patchUpdating, ReadError
    <2>2. pc'["worker"] \in {"get", "fail"}
      BY <1>0, <2>1 DEF Goto
    <2> QED
      BY <1>c, <2>1, <2>2, EarlyProgress DEF Answered
  <1>2. CASE getAzureLoadbalancer
    <2>1. UNCHANGED <<az, open>>
      BY <1>2 DEF getAzureLoadbalancer
    <2>2. CASE job.obj.named /\ az # Nil
      <3>1. pc'["worker"] = "config" /\ job'.snap = az
        BY <1>0, <1>2, <2>2 DEF getAzureLoadbalancer, Goto, Job
      <3>2. Progress'
        BY <1>0, <2>1, <2>2, <3>1 DEF Progress
      <3> QED
        BY <1>c, <2>1, <3>2
    <2>3. CASE ~(job.obj.named /\ az # Nil)
      <3>1. pc'["worker"] = "create"
        BY <1>0, <1>2, <2>3 DEF getAzureLoadbalancer, Goto
      <3>2. Progress'
        BY <1>0, <2>1, <2>3, <3>1 DEF Progress, Answered
      <3> QED
        BY <1>c, <2>1, <3>2
    <2> QED
      BY <2>2, <2>3
  <1>3. CASE createAzureLoadBalancer
    <2> DEFINE b == Bare(job.obj.spec.front)
               step == IF job.obj.named THEN "config" ELSE "name"
    <2>1. pc["worker"] = "create" /\ CreateOrUpdate(b, step)
      BY <1>3 DEF createAzureLoadBalancer
    <2>2. b \in Balancer
      BY <1>a, BareType
    <2>3. Undisturbed
      BY <1>b, <2>1 DEF Progress, Undisturbed
    <2> HIDE DEF b
    <2>4. CASE Creates(b, step)
      <3>1. az' # Nil /\ job'.snap = az' /\ pc'["worker"] = step
        BY <2>4 DEF Creates, Job
      <3>2. CASE job.obj.named
        BY <1>0, <3>1, <3>2, <2>3 DEF Progress
      <3>3. CASE ~job.obj.named
        BY <1>0, <3>1, <3>3, <2>3 DEF Progress
      <3> QED
        BY <3>2, <3>3
    <2>5. CASE pc'["worker"] = "fail"
      BY <2>3, <2>5, FailProgress
    <2> HIDE DEF step
    <2> QED
      BY <2>1, <2>2, <2>4, <2>5, CreateOrUpdateStep
  <1>4. CASE ensureSyncDefaultAzureLBConfig
    <2>1. pc["worker"] = "config" /\ UNCHANGED open /\ job.snap \in Balancer
      BY <1>4 DEF ensureSyncDefaultAzureLBConfig, Answered
    <2>2. job.snap = az /\ az # Nil /\ job.obj.named
      BY <2>1 DEF Progress, Answered
    <2>3. CASE ConfigChanged
      <3> DEFINE b == [job.snap EXCEPT !.front = job.obj.spec.front, !.conf = TRUE, !.rules = {}]
      <3>1. CreateOrUpdate(b, "defaults")
        BY <1>4, <2>3 DEF ensureSyncDefaultAzureLBConfig
      <3>2. b \in Balancer /\ b.conf /\ b.front = job.obj.spec.front
        <4>1. b \in Balancer
          BY <1>a, <2>1, BalancerWith
        <4> QED
          BY <2>1, <4>1 DEF Balancer
      <3>3. Undisturbed
        BY <1>b, <2>2, <2>3 DEF Undisturbed, ConfigChanged
      <3> HIDE DEF b
      <3>4. CASE Creates(b, "defaults")
        <4>1. az' = Stored(b) /\ az' # Nil /\ job'.snap = az' /\ pc'["worker"] = "defaults"
          BY <3>4 DEF Creates, Job
        <4>2. az'.conf /\ az'.front = job.obj.spec.front
          BY <3>2, <4>1, StoredNics
        <4> QED
          BY <1>0, <2>2, <3>3, <4>1, <4>2 DEF Progress
      <3>5. CASE pc'["worker"] = "fail"
        BY <3>3, <3>5, FailProgress
      <3> QED
        BY <3>1, <3>2, <3>4, <3>5, CreateOrUpdateStep
    <2>4. CASE ~ConfigChanged
      <3>1. Goto("worker", "defaults") /\ UNCHANGED <<job, az>>
        BY <1>4, <2>4 DEF ensureSyncDefaultAzureLBConfig
      <3>2. pc'["worker"] = "defaults"
        BY <1>0, <3>1 DEF Goto
      <3>3. Progress'
        BY <2>2, <2>4, <3>1, <3>2 DEF Progress, ConfigChanged
      <3> QED
        BY <1>c, <2>1, <3>1, <3>3
    <2> QED
      BY <2>3, <2>4
  <1>5. CASE ensureSyncDefaultRules
    <2>1. pc["worker"] = "defaults" /\ UNCHANGED open /\ job.snap \in Balancer
      BY <1>5 DEF ensureSyncDefaultRules, Answered
    <2>2. /\ job.snap = az /\ az # Nil /\ job.obj.named
          /\ az.conf /\ az.front = job.obj.spec.front
      BY <2>1 DEF Progress, Answered
    <2>3. CASE ~(Defaults \subseteq job.snap.rules)
      <3> DEFINE b == [job.snap EXCEPT !.rules = @ \cup Defaults]
      <3>1. CreateOrUpdate(b, "rules")
        BY <1>5, <2>3 DEF ensureSyncDefaultRules
      <3>2. /\ b \in Balancer /\ b.conf /\ b.front = job.obj.spec.front
            /\ Defaults \subseteq b.rules
        <4>1. job.snap.rules \subseteq Defaults \cup Rules
          BY <2>1, BalancerFields
        <4>2. job.snap.rules \cup Defaults \in SUBSET (Defaults \cup Rules)
          BY <4>1
        <4>3. b \in Balancer
          BY <2>1, <4>2, BalancerWith
        <4>4. b.conf = az.conf /\ b.front = az.front /\ b.rules = job.snap.rules \cup Defaults
          BY <2>1, <2>2, <4>3 DEF Balancer
        <4> QED
          BY <2>2, <4>3, <4>4
      <3>3. Undisturbed
        BY <1>b, <2>2, <2>3 DEF Undisturbed
      <3> HIDE DEF b
      <3>4. CASE Creates(b, "rules")
        <4>1. az' = Stored(b) /\ az' # Nil /\ job'.snap = az' /\ pc'["worker"] = "rules"
          BY <3>4 DEF Creates, Job
        <4>2. az'.conf /\ az'.front = job.obj.spec.front /\ Defaults \subseteq az'.rules
          BY <3>2, <4>1, StoredNics
        <4> QED
          BY <1>0, <2>2, <3>3, <4>1, <4>2 DEF Progress
      <3>5. CASE pc'["worker"] = "fail"
        BY <3>3, <3>5, FailProgress
      <3> QED
        BY <3>1, <3>2, <3>4, <3>5, CreateOrUpdateStep
    <2>4. CASE Defaults \subseteq job.snap.rules
      <3>1. Goto("worker", "rules") /\ UNCHANGED <<job, az>>
        BY <1>5, <2>4 DEF ensureSyncDefaultRules
      <3>2. pc'["worker"] = "rules"
        BY <1>0, <3>1 DEF Goto
      <3>3. Progress'
        BY <2>2, <2>4, <3>1, <3>2 DEF Progress
      <3> QED
        BY <1>c, <2>1, <3>1, <3>3
    <2> QED
      BY <2>3, <2>4
  <1> QED
    BY <1>1, <1>2, <1>3, <1>4, <1>5
LEMMA PoolProgress ==
    ASSUME TypeInv, Progress, Middle,
           \/ syncRules
           \/ \E n \in Nodes : \/ detachNetworkInterfacesAndLoadBalancer(n)
                               \/ attachNetworkInterfacesAndLoadBalancer(n)
           \/ syncBackendPoolsDone
    PROVE  Progress' /\ Undisturbed
  <1> USE Typed
  <1>0. /\ "worker" \in Threads /\ job.obj \in Object /\ job.data \in SUBSET Rules
        /\ job'.obj = job.obj /\ job'.data = job.data
    BY MiddleStep DEF Threads, Job
  <1>a. job.obj.spec \in LBSpec
    BY <1>0, ObjectFields
  <1>b. Made(job.obj.spec, job.data) =>
          az.rules = Defaults \cup job.data /\ az.nics = job.obj.spec.nodes
    BY <1>0, <1>a, MadeFields
  <1>c. ASSUME UNCHANGED <<az, open>>
        PROVE  Undisturbed
    BY <1>0, <1>c DEF Undisturbed, Made, GroupsOpen
  <1>1. CASE syncRules
    <2>1. pc["worker"] = "rules" /\ UNCHANGED open /\ job.snap \in Balancer
      BY <1>1 DEF syncRules, Answered
    <2>2. /\ job.snap = az /\ az # Nil /\ job.obj.named
          /\ az.conf /\ az.front = job.obj.spec.front /\ Defaults \subseteq az.rules
      BY <2>1 DEF Progress, Answered
    <2> DEFINE new == makeUpRules(job.snap.rules, job.data)
    <2>3. new = Defaults \cup job.data
      BY <2>2 DEF makeUpRules
    <2>4. Undisturbed
      <3>1. new = job.snap.rules => UNCHANGED az
        BY <1>1 DEF syncRules
      <3> HIDE DEF new
      <3> QED
        BY <1>0, <1>b, <2>1, <2>2, <2>3, <3>1 DEF Undisturbed, Made, GroupsOpen
    <2>5. CASE RulesAsked
      <3>1. /\ job'.snap \in Balancer /\ job'.snap = [job.snap EXCEPT !.rules = new]
            /\ job'.todo = Detachs \cup Attachs /\ pc'["worker"] = "pool"
            /\ \/ az' = az /\ job'.snap = job.snap
               \/ az' = Stored(job'.snap) /\ az' # Nil
        BY <2>5 DEF RulesAsked
      <3> HIDE DEF new
      <3>2. /\ job'.snap.conf = az.conf /\ job'.snap.front = az.front
            /\ job'.snap.rules = Defaults \cup job.data /\ job'.snap.nics = az.nics
        BY <2>1, <2>2, <2>3, <3>1 DEF Balancer
      <3>3. /\ az' # Nil /\ az'.conf /\ az'.front = job.obj.spec.front
            /\ az'.rules = Defaults \cup job.data /\ az'.nics = job'.snap.nics
        <4>1. CASE az' = az /\ job'.snap = job.snap
          BY <2>2, <3>2, <4>1
        <4>2. CASE az' = Stored(job'.snap) /\ az' # Nil
          BY <2>2, <3>1, <3>2, <4>2, StoredNics
        <4> QED
          BY <3>1, <4>1, <4>2
      <3>4. Detachs' = Detachs /\ Attachs' = Attachs
        BY <1>0, <2>2, <3>2 DEF Detachs, Attachs
      <3>5. Exchanging'
        BY <3>1, <3>3, <3>4 DEF Exchanging
      <3>6. Progress'
        BY <1>0, <2>2, <3>1, <3>3, <3>5 DEF Progress
      <3> QED
        BY <2>4, <3>6
    <2>6. CASE pc'["worker"] = "fail"
      BY <2>4, <2>6, FailProgress
    <2> QED
      BY <1>1, <2>5, <2>6, RulesAskedStep
  <1>2. ASSUME NEW n \in Nodes,
               \/ detachNetworkInterfacesAndLoadBalancer(n)
               \/ attachNetworkInterfacesAndLoadBalancer(n)
        PROVE  Progress' /\ Undisturbed
    <2>1. pc["worker"] = "pool" /\ UNCHANGED open /\ n \in job.todo
      BY <1>2 DEF detachNetworkInterfacesAndLoadBalancer, attachNetworkInterfacesAndLoadBalancer
    <2>2. /\ az # Nil /\ job.obj.named /\ az.conf /\ az.front = job.obj.spec.front
          /\ az.rules = Defaults \cup job.data /\ Exchanging
      BY <2>1 DEF Progress, Answered
    <2>3. Undisturbed
      <3>1. az.nics # job.obj.spec.nodes
        BY <2>1, <2>2 DEF Exchanging, Detachs, Attachs
      <3> QED
        BY <1>b, <3>1 DEF Undisturbed
    <2>4. CASE PoolChanged(n)
      <3>1. /\ pc'["worker"] = "pool" /\ az' # Nil
            /\ job'.todo = job.todo \ {n} /\ job'.snap = job.snap
            /\ az'.conf /\ az'.front = job.obj.spec.front /\ az'.rules = Defaults \cup job.data
        BY <2>2, <2>4 DEF PoolChanged
      <3>2. Detachs' = Detachs /\ Attachs' = Attachs /\ Detachs \cap Attachs = {}
        BY <1>0, <3>1 DEF Detachs, Attachs
      <3>3. az'.nics = (job.snap.nics \ (Detachs \ job'.todo)) \cup (Attachs \ job'.todo)
        <4>1. az.nics = (job.snap.nics \ (Detachs \ job.todo)) \cup (Attachs \ job.todo)
          BY <2>2 DEF Exchanging
        <4>2. CASE n \in job.todo \cap Detachs /\ az'.nics = az.nics \ {n}
          BY <3>1, <3>2, <4>1, <4>2
        <4>3. CASE /\ job.todo \cap Detachs = {} /\ n \in job.todo
                   /\ az'.nics = az.nics \cup {n}
          <5>1. n \in Attachs
            BY <2>2, <4>3 DEF Exchanging
          <5> QED
            BY <3>1, <3>2, <4>1, <4>3, <5>1
        <4> QED
          BY <2>4, <4>2, <4>3 DEF PoolChanged
      <3>4. Exchanging'
        BY <2>2, <3>1, <3>2, <3>3 DEF Exchanging
      <3>5. Progress'
        BY <1>0, <2>2, <3>1, <3>4 DEF Progress
      <3> QED
        BY <2>3, <3>5
    <2>5. CASE pc'["worker"] = "fail"
      BY <2>3, <2>5, FailProgress
    <2> QED
      BY <1>2, <2>2, <2>4, <2>5, PoolChangedStep
  <1>3. CASE syncBackendPoolsDone
    <2>1. pc["worker"] = "pool" /\ job.todo = {} /\ UNCHANGED <<az, open>>
      BY <1>3 DEF syncBackendPoolsDone
    <2>2. /\ az # Nil /\ job.obj.named /\ az.conf /\ az.front = job.obj.spec.front
          /\ az.rules = Defaults \cup job.data /\ Exchanging
      BY <2>1 DEF Progress, Answered
    <2>3. az.nics = job.obj.spec.nodes
      BY <2>1, <2>2 DEF Exchanging, Detachs, Attachs
    <2>4. CASE usePublicAddress(job.obj)
      <3>1. /\ pc'["worker"] = "groups"
            /\ job' = [job EXCEPT !.todo = Detachs \cup job.obj.spec.nodes,
                                  !.want = Defaults \cup job.data]
        BY <1>0, <1>3, <2>4 DEF syncBackendPoolsDone, Goto
      <3>2. /\ job'.snap = job.snap /\ job'.want = Defaults \cup job.data
            /\ job'.todo = Detachs \cup job.obj.spec.nodes
        BY <3>1 DEF Job
      <3>3. Detachs' = Detachs
        BY <1>0, <3>2 DEF Detachs
      <3>4. Opening'
        BY <1>0, <2>1, <2>3, <3>2, <3>3 DEF Opening
      <3>5. Progress'
        BY <1>0, <2>1, <2>2, <3>1, <3>4 DEF Progress
      <3> QED
        BY <1>c, <2>1, <3>5
    <2>5. CASE ~usePublicAddress(job.obj)
      <3>1. pc'["worker"] = "done" /\ UNCHANGED job
        BY <1>0, <1>3, <2>5 DEF syncBackendPoolsDone, Goto
      <3>2. Made(job.obj.spec, job.data)
        BY <1>0, <1>a, <2>2, <2>3, <2>5, MadeFields DEF usePublicAddress
      <3>3. Made(job.obj.spec, job.data)'
        BY <2>1, <3>1, <3>2 DEF Made, GroupsOpen
      <3>4. Progress'
        BY <2>1, <2>2, <3>1, <3>3 DEF Progress
      <3> QED
        BY <1>c, <2>1, <3>4
    <2> QED
      BY <2>4, <2>5
  <1> QED
    BY <1>1, <1>2, <1>3

\* The groups: the first one gets all ports, and what is opened already stays enough.
LEMMA GroupProgress ==
    ASSUME TypeInv, Progress, syncSecurityGroupRules
    PROVE  Progress' /\ Undisturbed
  <1> USE Typed
  <1>0. /\ "worker" \in Threads /\ job.obj \in Object /\ job.data \in SUBSET Rules
        /\ job'.obj = job.obj /\ job'.data = job.data
    BY MiddleStep DEF Middle, Threads, Job, Syncing, syncSecurityGroupRules,
                      deleteUselessSecurityRules, ensureSyncRulesToSecurityGroups,
                      syncSecurityGroupRulesDone
  <1>a. job.obj.spec \in LBSpec
    BY <1>0, ObjectFields
  <1> DEFINE nodes == job.obj.spec.nodes
             ports == Defaults \cup job.data
  <1>1. ASSUME NEW n \in Nodes,
               deleteUselessSecurityRules(n) \/ ensureSyncRulesToSecurityGroups(n)
        PROVE  Progress' /\ Undisturbed
    <2>1. PICK given \in SUBSET Ports : GroupStep(n, given)
      BY <1>1, GroupStepTaken
    <2>2. /\ pc["worker"] = "groups" /\ UNCHANGED az
          /\ \/ n \in job.todo \cap Detachs
             \/ job.todo \cap Detachs = {} /\ n \in job.todo /\ given = job.want
          /\ open' = open \/ open' = [open EXCEPT ![n] = given]
      BY <2>1 DEF GroupStep
    <2>3. /\ az # Nil /\ job.obj.named /\ az.conf /\ az.front = job.obj.spec.front
          /\ az.rules = ports /\ Opening
      BY <2>2 DEF Progress, Answered
    <2>4. /\ \A m \in nodes \ job.todo : open[m] \subseteq ports
          /\ job.want \subseteq ports /\ job.todo \subseteq Detachs \cup nodes
          /\ az.nics = nodes
          /\ \/ nodes \subseteq job.todo /\ job.want = ports
             \/ job.todo \cap Detachs = {} /\ \E m \in nodes \ job.todo : open[m] = ports
      BY <2>3 DEF Opening
    <2>5. Detachs \cap nodes = {} /\ nodes \subseteq Nodes
      BY <1>0, ObjectFields DEF Detachs
    <2>6. /\ \A m \in Nodes \ {n} : open'[m] = open[m]
          /\ open'[n] = open[n] \/ open'[n] = given
          /\ open' = [open EXCEPT ![n] = given] => open'[n] = given
      BY <2>2 DEF Openings
    <2>7. Undisturbed
      <3>1. ASSUME GroupsOpen(nodes, ports)
            PROVE  GroupsOpen(nodes, ports)'
        <4>1. /\ \A m \in nodes : open[m] \subseteq ports
              /\ nodes # {} => \E m \in nodes : open[m] = ports
          BY <3>1 DEF GroupsOpen
        <4>2. CASE n \in job.todo \cap Detachs
          <5>1. \A m \in nodes : open'[m] = open[m]
            BY <2>5, <2>6, <4>2
          <5> QED
            BY <1>0, <4>1, <5>1 DEF GroupsOpen
        <4>3. CASE job.todo \cap Detachs = {} /\ n \in job.todo /\ given = job.want
          <5>1. n \in nodes
            BY <2>4, <4>3
          <5>2. \A m \in nodes : open'[m] \subseteq ports
            BY <2>4, <2>5, <2>6, <4>1, <4>3
          <5>3. \E m \in nodes : open'[m] = ports
            <6>1. CASE nodes \subseteq job.todo /\ job.want = ports
              <7>1. CASE open'[n] = given
                BY <4>3, <5>1, <6>1, <7>1
              <7>2. CASE open' = open
                BY <4>1, <5>1, <7>2
              <7> QED
                BY <2>2, <2>6, <7>1, <7>2
            <6>2. CASE \E m \in nodes \ job.todo : open[m] = ports
              BY <2>5, <2>6, <4>3, <6>2
            <6> QED
              BY <2>4, <6>1, <6>2
          <5> QED
            BY <1>0, <5>2, <5>3 DEF GroupsOpen
        <4> QED
          BY <2>2, <4>2, <4>3
      <3> QED
        BY <1>0, <2>2, <3>1 DEF Undisturbed, Made
    <2>8. CASE pc'["worker"] = "fail"
      BY <2>7, <2>8, FailProgress
    <2>9. CASE /\ UNCHANGED pc /\ open' = [open EXCEPT ![n] = given]
               /\ job' = [job EXCEPT !.todo = job'.todo, !.want = job'.want]
               /\ job'.todo = job.todo \ {n} /\ job'.want \subseteq job.want
               /\ job.todo \cap Detachs # {} => job'.want = job.want
      <3>1. job'.snap = job.snap /\ Detachs' = Detachs
        <4>1. job'.snap = job.snap
          BY <2>9 DEF Job
        <4> QED
          BY <1>0, <4>1 DEF Detachs
      <3>2. /\ job'.want \subseteq ports /\ job'.todo \subseteq Detachs \cup nodes
        BY <2>4, <2>9
      <3>3. \A m \in nodes \ job'.todo : open'[m] \subseteq ports
        BY <2>2, <2>4, <2>5, <2>6, <2>9
      <3>4. \/ nodes \subseteq job'.todo /\ job'.want = ports
            \/ job'.todo \cap Detachs = {} /\ \E m \in nodes \ job'.todo : open'[m] = ports
        <4>1. CASE n \in job.todo \cap Detachs
          BY <2>4, <2>5, <2>9, <4>1
        <4>2. CASE job.todo \cap Detachs = {} /\ n \in job.todo /\ given = job.want
          <5>1. n \in nodes /\ n \notin job'.todo /\ job'.todo \cap Detachs = {}
            BY <2>4, <2>9, <4>2
          <5>2. CASE nodes \subseteq job.todo /\ job.want = ports
            BY <2>6, <2>9, <4>2, <5>1, <5>2
          <5>3. CASE \E m \in nodes \ job.todo : open[m] = ports
            BY <2>5, <2>6, <2>9, <4>2, <5>1, <5>3
          <5> QED
            BY <2>4, <5>2, <5>3
        <4> QED
          BY <2>2, <4>1, <4>2
      <3>5. Opening'
        BY <1>0, <2>2, <2>4, <3>1, <3>2, <3>3, <3>4 DEF Opening
      <3>6. Progress'
        BY <1>0, <2>2, <2>3, <2>9, <3>5 DEF Progress
      <3> QED
        BY <2>7, <3>6
    <2> QED
      BY <2>1, <2>8, <2>9 DEF GroupStep
  <1>2. CASE syncSecurityGroupRulesDone
    <2>1. /\ pc["worker"] = "groups" /\ job.todo = {} /\ UNCHANGED <<job, az, open>>
          /\ pc'["worker"] = "done"
      BY <1>0, <1>2 DEF syncSecurityGroupRulesDone, Goto
    <2>2. /\ az # Nil /\ job.obj.named /\ az.conf /\ az.front = job.obj.spec.front
          /\ az.rules = ports /\ Opening
      BY <2>1 DEF Progress, Answered
    <2>3. GroupsOpen(nodes, ports) /\ az.nics = nodes
      BY <2>1, <2>2 DEF Opening, GroupsOpen
    <2>4. Made(job.obj.spec, job.data)
      BY <1>0, <1>a, <2>2, <2>3, MadeFields
    <2>5. Made(job.obj.spec, job.data)'
      BY <2>1, <2>4 DEF Made, GroupsOpen
    <2>6. Progress'
      BY <2>1, <2>2, <2>5 DEF Progress
    <2> QED
      BY <2>5, <2>6 DEF Undisturbed
  <1> QED
    BY <1>1, <1>2 DEF syncSecurityGroupRules

LEMMA MiddleProgress ==
    ASSUME TypeInv, Progress, Middle
    PROVE  Progress' /\ Undisturbed
  BY ConfigProgress, PoolProgress, GroupProgress DEF Middle
-----------------------------------------------------------------------------
(* AtRestSynced                                                             *)

\* Once a run is no concern of AtRestSynced, it is again with a new process only.
LEMMA ConcernedStep ==
    ASSUME TypeInv, [Next]_vars, Concerned'
    PROVE  /\ ~past'.reverted /\ ~past'.unnamed
           /\ Concerned \/ Down
  <1> USE Typed
  <1>1. ~past'.reverted /\ ~past'.unnamed /\ ~past.reverted /\ ~past.unnamed
    BY PastStep DEF Concerned, Forgiven
  <1>2. api.live /\ ~api.deleting
    BY ApiStep DEF ApiKept, Concerned
  <1>3. pc'["stopper"] = "off"
    BY DEF Concerned
  <1>4. pc["stopper"] = "off" \/ Down
    <2>1. CASE Sync
      <3>1. CASE Middle
        BY <1>3, <3>1, MiddleStep
      <3>2. CASE ~Middle
        <4>1. Down \/ UNCHANGED pc \/ \E step : Goto("worker", step)
          BY <2>1, <3>2 DEF Sync, Middle, syncLoadBalancer, OnUpdateRemoved, Cleanup, OnUpdateNil,
             Panic, OnUpdateWanted, OnUpdateNoConfigMap, CheckExists, pathLoadBalancerName,
             updateCacheData, SyncFailed, Return
        <4> QED
          BY <1>3, <4>1 DEF Goto, Threads
      <3> QED
        BY <3>1, <3>2
    <2>2. ASSUME NEW t \in Threads, CleanupStep(t), ~Down
          PROVE  pc["stopper"] = "off"
      <3>1. /\ pc'[t] \in Cleaning \cup {"idle", "exit"}
            /\ \A u \in Threads \ {t} : pc'[u] = pc[u]
        BY <2>2, CleanupStepKeeps
      <3> QED
        BY <1>3, <3>1 DEF Cleaning, Threads
    <2>3. CASE Kill \/ Exit
      BY <2>3 DEF Kill, Exit
    <2>4. CASE Restart \/ Stop
      BY <1>3, <2>4 DEF Restart, Stop, Watching, Threads
    <2>5. CASE \/ Watch \/ DeleteObject \/ UNCHANGED vars
               \/ \E s \in Specs : WriteSpec(s)
               \/ \E rules \in SUBSET Rules : WatchCM(rules)
      BY <1>3, <2>5 DEF Watch, DeleteObject, WriteSpec, WatchCM, vars
    <2> QED
      BY <2>1, <2>2, <2>3, <2>4, <2>5 DEF Next, Environment
  <1> QED
    BY <1>1, <1>2, <1>4 DEF Concerned, Forgiven

LEMMA DownSynced ==
    ASSUME Down
    PROVE  (Lagging /\ Faithful /\ Progress /\ Attentive)'
  <1>1. pc'["worker"] = "down" /\ ~l'.same /\ l'.lb = Nil
    BY DownStep DEF NewProvider
  <1> QED
    BY <1>1, EarlyProgress DEF Lagging, Faithful, Attentive, Syncing, Cleaning, Answered

\* A key is queued again or dropped by a failure, and stays queued.
LEMMA ReturnedStep ==
    ASSUME TypeInv, NEW pending \in BOOLEAN, NEW ok \in BOOLEAN, queue' = Returned(pending, ok)
    PROVE  /\ pending => queue'.pending
           /\ ~ok => queue'.pending \/ queue'.dropped
  BY DEF Returned

LEMMA EventStep ==
    ASSUME TypeInv, [Next]_vars, event
    PROVE  event' \/ queue'.pending
  <1>1. queue \in Work
    BY Typed
  <1> QED
    BY <1>1, NewsStep DEF Watch, Restart, Work, NoWork

\* The threads, their memory and Azure are left alone.
LEMMA FaithfulStep ==
    ASSUME TypeInv, HistoryInv, [Next]_vars, ~past'.reverted, Faithful, UNCHANGED <<l, az, open>>,
           pc'["worker"] \in Cleaning => pc["worker"] \in Cleaning,
           pc'["worker"] \in Syncing => pc["worker"] \in Syncing /\ job'.obj = job.obj
    PROVE  Faithful'
  <1>1. Keeps
    BY DEF Keeps, Alike
  <1>2. l.same /\ Left => Left'
    BY <1>1, LeftStep
  <1>3. Made(l.lb.spec, l.ruleMap) => Made(l.lb.spec, l.ruleMap)'
    BY DEF Made, GroupsOpen
  <1> QED
    BY <1>2, <1>3 DEF Faithful

LEMMA OnUpdateSynced ==
    ASSUME TypeInv, StoreInv, HistoryInv, SyncedInv, [Next]_vars, Concerned, Concerned',
           \/ syncLoadBalancer \/ OnUpdateRemoved \/ OnUpdateNil \/ OnUpdateWanted
           \/ OnUpdateNoConfigMap \/ CheckExists
    PROVE  (Faithful /\ Progress /\ Attentive)'
  <1> USE Typed
  <1>0. /\ Lagging /\ Faithful /\ Progress /\ Attentive /\ ~past'.reverted /\ ~past'.unnamed
        /\ store.live /\ ~store.deleting
    BY ConcernedStep DEF SyncedInv, Concerned, StoreInv
  <1>1. /\ "worker" \in Threads /\ store.named \in BOOLEAN /\ store.spec.reserve \in BOOLEAN
        /\ store.spec.azure \in BOOLEAN
    BY ObjectFields DEF Threads
  <1>2. CASE syncLoadBalancer
    <2>1. /\ UNCHANGED <<l, pc, job, az, open, store, cm>> /\ pc["worker"] = "idle"
          /\ queue' = Returned(FALSE, FALSE)
      BY <1>0, <1>2 DEF syncLoadBalancer, Take
    <2>2. queue'.pending \/ queue'.dropped
      BY <2>1, ReturnedStep
    <2>3. Faithful'
      BY <1>0, <2>1, FaithfulStep
    <2>4. Progress'
      BY <2>1, EarlyProgress DEF Answered
    <2> QED
      BY <2>1, <2>2, <2>3, <2>4 DEF Attentive, Syncing, Cleaning
  <1>3. CASE OnUpdateRemoved
    <2>1. /\ ~store.spec.azure /\ Goto("worker", "cleanup")
          /\ l' = [l EXCEPT !.lb = ViewOf(store), !.same = FALSE] /\ UNCHANGED store
      BY <1>0, <1>3 DEF OnUpdateRemoved, Cleanup
    <2>2. pc'["worker"] = "cleanup" /\ ~l'.same /\ l'.lb = ViewOf(store)
      BY <1>1, <2>1 DEF Goto, Memory
    <2>3. Faithful'
      BY <2>1, <2>2 DEF Faithful, ViewOf
    <2>4. Progress'
      BY <2>2, EarlyProgress DEF Answered
    <2> QED
      BY <2>1, <2>2, <2>3, <2>4 DEF Attentive, Syncing
  <1>4. CASE OnUpdateNil
    BY <1>4, DownSynced DEF OnUpdateNil, Panic
  <1>5. CASE OnUpdateWanted \/ OnUpdateNoConfigMap
    <2>1. /\ l' = Cached(store.named, store.spec.reserve) /\ Told(store)
          /\ UNCHANGED <<api, event, store, cm, az, open>> /\ pc["worker"] = "idle"
      BY <1>5 DEF OnUpdateWanted, OnUpdateNoConfigMap, Given, Take
    <2>2. /\ l'.same <=> l.same
          /\ l'.ruleMap = l.ruleMap
          /\ l.same => Alike(l'.lb.spec, l.lb.spec) /\ (l'.lb.named <=> store.named)
          /\ ~l.same => l'.lb = l.lb
      BY <1>1, <2>1, CachedAlike
    <2>3. l.same => store.named
      <3>1. l.same => l.lb # Nil /\ l.lb.named
        BY <1>0, NilAssumption DEF Faithful
      <3> QED
        BY <1>0, <2>1, <3>1, ToldStep
    <2>4. l.same => Made(l.lb.spec, l.ruleMap)' \/ Left'
      <3>1. l.same => Made(l.lb.spec, l.ruleMap) \/ Left
        BY <1>0 DEF Faithful
      <3>2. l.same /\ Made(l.lb.spec, l.ruleMap) => Made(l.lb.spec, l.ruleMap)'
        BY <2>1, <2>2 DEF Made, GroupsOpen, Alike
      <3>3. l.same /\ Left => Left'
        BY <2>1, <2>2 DEF Left, Alike
      <3> QED
        BY <3>1, <3>2, <3>3
    <2>5. CASE UNCHANGED <<pc, job>> /\ (queue'.pending \/ queue'.dropped)
      <3>1. Faithful'
        BY <1>0, <2>1, <2>2, <2>3, <2>4, <2>5 DEF Faithful, Cleaning, Syncing
      <3>2. Progress'
        BY <2>1, <2>5, EarlyProgress DEF Answered
      <3> QED
        BY <2>1, <2>5, <3>1, <3>2 DEF Attentive, Syncing, Cleaning
    <2>6. CASE Goto("worker", "check") /\ job' = [NoJob EXCEPT !.obj = store, !.data = cm]
      <3>1. pc'["worker"] = "check" /\ job'.obj = store /\ job'.data = cm
        BY <1>1, <2>6 DEF Goto, NoJob
      <3>2. Faithful'
        BY <1>0, <2>2, <2>3, <2>4, <3>1 DEF Faithful, Cleaning
      <3>3. Progress'
        BY <3>1, EarlyProgress DEF Answered
      <3> QED
        BY <2>1, <3>1, <3>2, <3>3 DEF Attentive, Cleaning
    <2>7. CASE ~isLBChanged(store) /\ l.ruleMap = cm /\ UNCHANGED <<pc, job>>
      <3>1. l.lb = ViewOf(store) /\ l.lb # Nil /\ l.lb.spec = store.spec
        BY <2>7, ObjectFields, NilAssumption DEF isLBChanged, ViewOf
      <3>2. Faithful'
        BY <1>0, <2>1, <2>2, <2>3, <2>4, <2>7 DEF Faithful, Cleaning, Syncing
      <3>3. Progress'
        BY <2>1, <2>7, EarlyProgress DEF Answered
      <3>4. CASE store.spec.azure
        <4>1. l.same
          BY <1>0, <3>1, <3>4 DEF Faithful
        <4>2. CASE Made(l.lb.spec, l.ruleMap)
          <5>1. Made(store.spec, cm)'
            BY <2>1, <2>7, <3>1, <4>2 DEF Made, GroupsOpen
          <5> QED
            BY <2>1, <2>3, <2>7, <3>2, <3>3, <4>1, <5>1 DEF Attentive, Syncing, Cleaning
        <4>3. CASE Left
          <5>1. ~Alike(api.spec, store.spec)
            BY <2>7, <3>1, <4>3 DEF Left
          <5>2. event
            BY <5>1 DEF HistoryInv, Alike
          <5> QED
            BY <2>1, <2>7, <3>2, <3>3, <5>2 DEF Attentive, Syncing, Cleaning
        <4> QED
          BY <1>0, <4>1, <4>2, <4>3 DEF Faithful
      <3>5. CASE ~store.spec.azure
        BY <2>1, <2>7, <3>2, <3>3, <3>5 DEF Attentive, Syncing, Cleaning
      <3> QED
        BY <3>4, <3>5
    <2>8. CASE OnUpdateNoConfigMap
      <3>1. queue' = Returned(FALSE, FALSE) /\ UNCHANGED <<pc, job>>
        BY <2>8 DEF OnUpdateNoConfigMap
      <3>2. queue'.pending \/ queue'.dropped
        BY <3>1, ReturnedStep
      <3> QED
        BY <2>5, <3>1, <3>2
    <2>9. CASE OnUpdateWanted
      BY <2>6, <2>7, <2>9 DEF OnUpdateWanted
    <2> QED
      BY <1>5, <2>8, <2>9
  <1>6. CASE CheckExists
    <2>1. /\ pc["worker"] = "check" /\ Goto("worker", "updating")
          /\ UNCHANGED <<event, store, cm, queue, l, job, az, open>>
      BY <1>0, <1>6 DEF CheckExists
    <2>2. pc'["worker"] = "updating"
      BY <1>1, <2>1 DEF Goto
    <2>3. Faithful'
      BY <1>0, <2>1, <2>2, FaithfulStep DEF Cleaning, Syncing
    <2>4. Progress'
      BY <2>2, EarlyProgress DEF Answered
    <2> QED
      BY <1>0, <2>1, <2>2, <2>3, <2>4 DEF Attentive, Syncing, Cleaning
  <1> QED
    BY <1>2, <1>3, <1>4, <1>5, <1>6
LEMMA SyncSynced ==
    ASSUME TypeInv, HistoryInv, SyncedInv, [Next]_vars, Concerned, Concerned',
           Middle \/ pathLoadBalancerName \/ updateCacheData \/ SyncFailed
    PROVE  (Faithful /\ Progress /\ Attentive)'
  <1> USE Typed
  <1>0. /\ Lagging /\ Faithful /\ Progress /\ Attentive /\ ~past'.reverted
        /\ api.live /\ ~api.deleting
    BY ConcernedStep DEF SyncedInv, Concerned
  <1>1. CASE Middle
    <2>1. /\ pc["worker"] \in Syncing /\ pc'["worker"] \in Syncing \cup {"fail"}
          /\ job'.obj = job.obj /\ job'.data = job.data
          /\ UNCHANGED <<store, cm, queue, l>>
      BY <1>1, MiddleStep
    <2>2. Progress' /\ Undisturbed
      BY <1>0, <1>1, MiddleProgress
    <2>3. Faithful'
      <3>1. ASSUME l.same
            PROVE  Made(l.lb.spec, l.ruleMap)' \/ Left'
        <4>1. CASE Left
          BY <1>0, <2>1, <3>1, <4>1, LeftStep DEF Keeps, Alike
        <4>2. CASE ~Left
          <5>1. /\ Alike(job.obj.spec, l.lb.spec) /\ job.data = l.ruleMap
                /\ Made(l.lb.spec, l.ruleMap) /\ job.obj.named
            BY <1>0, <2>1, <3>1, <4>2 DEF Lagging, Faithful
          <5>2. Made(job.obj.spec, job.data)
            BY <5>1 DEF Made, GroupsOpen, Alike
          <5>3. Made(job.obj.spec, job.data)'
            BY <2>2, <5>1, <5>2 DEF Undisturbed
          <5> QED
            BY <2>1, <5>1, <5>3 DEF Made, GroupsOpen, Alike
        <4> QED
          BY <4>1, <4>2
      <3>2. pc'["worker"] \notin Cleaning
        BY <2>1 DEF Syncing, Cleaning
      <3> QED
        BY <1>0, <2>1, <3>1, <3>2 DEF Faithful
    <2>4. Attentive'
      BY <1>0, <2>1, EventStep DEF Attentive, Syncing, Cleaning
    <2> QED
      BY <2>2, <2>3, <2>4
  <1>2. CASE pathLoadBalancerName
    <2> DEFINE reserve == IF l.old = Nil THEN FALSE ELSE l.old.reserve
               o == [api EXCEPT !.spec.azure = TRUE, !.named = TRUE]
    <2>1. /\ pc["worker"] = "name" /\ job.obj \in Object
          /\ l' = Cached(TRUE, reserve) /\ job' = [job EXCEPT !.obj.named = TRUE]
          /\ UNCHANGED <<store, cm, queue, az, open>>
      BY <1>2 DEF pathLoadBalancerName, Syncing
    <2>2. PICK out \in Outcomes :
            Patch(o, out) /\ Goto("worker", IF out.ok THEN "config" ELSE "fail")
      BY <1>2 DEF pathLoadBalancerName
    <2>3. reserve \in BOOLEAN
      BY DEF Memory, Provider
    <2>4. o \in Object /\ o.named
      BY NamedObject
    <2> HIDE DEF reserve, o
    <2>5. /\ l'.same <=> l.same
          /\ l'.ruleMap = l.ruleMap
          /\ l.same => Alike(l'.lb.spec, l.lb.spec) /\ l'.lb.named
          /\ ~l.same => l'.lb = l.lb
      BY <2>1, <2>3, CachedAlike
    <2>6. /\ job'.obj.named /\ job'.obj.spec = job.obj.spec /\ job'.snap = job.snap
          /\ job'.data = job.data
      BY <2>1 DEF Job, Object
    <2>7. pc'["worker"] = IF out.ok THEN "config" ELSE "fail"
      BY <2>2 DEF Goto, Threads
    <2>8. Faithful'
      <3>1. ASSUME l.same
            PROVE  Made(l.lb.spec, l.ruleMap)' \/ Left'
        <4>1. CASE Left
          BY <1>0, <2>5, <3>1, <4>1, LeftStep DEF Keeps
        <4>2. CASE Made(l.lb.spec, l.ruleMap)
          BY <2>1, <2>5, <3>1, <4>2 DEF Made, GroupsOpen, Alike
        <4> QED
          BY <1>0, <3>1, <4>1, <4>2 DEF Faithful
      <3> QED
        BY <1>0, <2>5, <2>6, <2>7, <3>1 DEF Faithful, Cleaning
    <2>9. CASE out.ok
      <3>1. Put(o)
        BY <1>0, <2>2, <2>9 DEF Patch, Outcomes
      <3>2. Progress'
        BY <1>0, <2>1, <2>6, <2>7, <2>9 DEF Progress, Answered
      <3>3. ~event /\ ~queue.pending => store.named \/ event'
        <4>1. api'.named
          BY <2>4, <3>1, PutStep
        <4> QED
          BY <3>1, <4>1 DEF HistoryInv, Put
      <3>4. Attentive'
        BY <1>0, <2>1, <2>6, <2>7, <2>9, <3>3, EventStep DEF Attentive, Syncing, Cleaning
      <3> QED
        BY <2>8, <3>2, <3>4
    <2>10. CASE ~out.ok
      <3>1. pc'["worker"] = "fail"
        BY <2>7, <2>10
      <3> QED
        BY <2>8, <3>1, FailProgress DEF Attentive, Syncing, Cleaning
    <2> QED
      BY <2>9, <2>10
  <1>3. CASE updateCacheData
    <2>1. /\ pc["worker"] = "done" /\ job.obj \in Object /\ Return(TRUE)
          /\ UNCHANGED <<store, cm, az, open>>
      BY <1>3 DEF updateCacheData, Syncing
    <2>2. /\ pc'["worker"] = "idle"
          /\ l'.same /\ l'.lb = ViewOf(job.obj) /\ l'.ruleMap = job.data
      BY <1>3, <2>1, SyncKeeps, ReturnType DEF Ends, updateCacheData
    <2>3. job.obj.named /\ Made(job.obj.spec, job.data)
      BY <1>0, <2>1 DEF Progress, Answered
    <2>4. l'.lb.named /\ l'.lb.spec = job.obj.spec
      BY <2>2, <2>3 DEF ViewOf
    <2>5. Made(l.lb.spec, l.ruleMap)'
      BY <2>1, <2>2, <2>3, <2>4 DEF Made, GroupsOpen
    <2>6. Faithful'
      BY <2>2, <2>4, <2>5 DEF Faithful, Cleaning, Syncing
    <2>7. Progress'
      BY <2>2, EarlyProgress DEF Answered
    <2>8. queue.pending => queue'.pending
      <3>1. queue' = Returned(queue.pending, TRUE) /\ queue.pending \in BOOLEAN
        BY <2>1 DEF Return, Work
      <3> QED
        BY <3>1, ReturnedStep
    <2>9. ASSUME ~queue'.pending
          PROVE  event' \/ (Made(store.spec, cm)' /\ store'.named)
      <3>1. CASE event
        BY <2>9, <3>1, EventStep
      <3>2. CASE ~event
        <4>1. store.spec = job.obj.spec /\ cm = job.data /\ store.named
          BY <1>0, <2>1, <2>3, <2>8, <2>9, <3>2 DEF Attentive, Syncing
        <4>2. Made(store.spec, cm)'
          BY <2>1, <2>3, <4>1 DEF Made, GroupsOpen
        <4> QED
          BY <2>1, <4>1, <4>2
      <3> QED
        BY <3>1, <3>2
    <2>10. Attentive'
      BY <2>2, <2>9 DEF Attentive, Syncing, Cleaning
    <2> QED
      BY <2>6, <2>7, <2>10
  <1>4. CASE SyncFailed
    <2>1. UNCHANGED <<l, az, open>> /\ Return(FALSE)
      BY <1>4 DEF SyncFailed
    <2>2. pc'["worker"] = "idle"
      BY <2>1, ReturnType
    <2>3. queue'.pending \/ queue'.dropped
      <3>1. queue' = Returned(queue.pending, FALSE) /\ queue.pending \in BOOLEAN
        BY <2>1 DEF Return, Work
      <3> QED
        BY <3>1, ReturnedStep
    <2>4. Faithful'
      BY <1>0, <2>1, <2>2, FaithfulStep DEF Cleaning, Syncing
    <2>5. Progress'
      BY <2>2, EarlyProgress DEF Answered
    <2> QED
      BY <2>2, <2>3, <2>4, <2>5 DEF Attentive, Syncing, Cleaning
  <1> QED
    BY <1>1, <1>2, <1>3, <1>4

\* A cleanup starts when the object has no Azure provider, and ends before the next
\* sync.
LEMMA CleanupSynced ==
    ASSUME TypeInv, SyncedInv, [Next]_vars, Concerned, NEW t \in Threads, CleanupStep(t)
    PROVE  (Faithful /\ Progress /\ Attentive)'
  <1> USE Typed
  <1>0. Faithful /\ Attentive /\ pc["stopper"] = "off"
    BY DEF SyncedInv, Concerned
  <1>1. CASE Down
    BY <1>1, DownSynced
  <1>2. CASE ~Down
    <2>1. /\ pc[t] \in Cleaning /\ pc'[t] \in Cleaning \cup {"idle", "exit"}
          /\ UNCHANGED store /\ l'.lb = l.lb
      BY <1>2, CleanupStepKeeps
    <2>2. t = "worker"
      BY <1>0, <2>1 DEF Threads, Cleaning
    <2>3. ~l.same /\ ~l'.same
      BY <1>0, <2>1, <2>2, CleanupKeeps DEF Faithful, Keeps
    <2>4. queue.pending => queue'.pending
      <3>1. \/ UNCHANGED queue
            \/ \E ok \in BOOLEAN : queue' = Returned(queue.pending, ok)
        <4>1. UNCHANGED queue \/ \E ok \in BOOLEAN : CleanupReturn(t, ok)
          <5>1. \A out \in Outcomes \cup [done : BOOLEAN, ok : BOOLEAN] : out.ok \in BOOLEAN
            BY DEF Outcomes
          <5> QED
            BY <1>2, <5>1 DEF CleanupStep, cleanupAzureLB, CleanupNil, Panic,
               cleanUpSecurityGroup, recoverDefaultAzureLoadBalancer, CleanupFailed,
               DeleteBalancer, patachFinalizersAndStatus
        <4> QED
          BY <4>1 DEF CleanupReturn, Return
      <3>2. queue.pending \in BOOLEAN
        BY DEF Work
      <3> QED
        BY <3>1, <3>2, ReturnedStep
    <2>5. pc'["worker"] \in Cleaning \cup {"idle", "exit"}
      BY <2>1, <2>2
    <2>6. Faithful'
      BY <1>0, <2>1, <2>3 DEF Faithful
    <2>7. Progress'
      BY <2>5, EarlyProgress DEF Answered, Cleaning
    <2>8. Attentive'
      BY <1>0, <2>1, <2>2, <2>4, <2>5 DEF Attentive, Syncing, Cleaning
    <2> QED
      BY <2>6, <2>7, <2>8
  <1> QED
    BY <1>1, <1>2

LEMMA EnvironmentSynced ==
    ASSUME TypeInv, HistoryInv, SyncedInv, [Next]_vars, Concerned, Concerned',
           Watch \/ Restart \/ Exit \/ Environment \/ UNCHANGED vars
    PROVE  (Faithful /\ Progress /\ Attentive)'
  <1> USE Typed
  <1>0. /\ Faithful /\ Progress /\ Attentive /\ ~past'.reverted /\ ~api'.deleting
        /\ pc'["stopper"] = "off"
    BY ConcernedStep DEF SyncedInv, Concerned
  <1>1. ASSUME UNCHANGED <<l, pc, job, az, open>>
        PROVE  Faithful' /\ Progress'
    <2>1. Faithful'
      BY <1>0, <1>1, FaithfulStep
    <2>2. (Exchanging => Exchanging') /\ (Opening => Opening')
      BY <1>1 DEF Exchanging, Opening, Detachs, Attachs
    <2>3. Made(job.obj.spec, job.data) => Made(job.obj.spec, job.data)'
      BY <1>1 DEF Made, GroupsOpen
    <2> QED
      BY <1>0, <1>1, <2>1, <2>2, <2>3 DEF Progress
  <1>2. CASE Watch \/ \E rules \in SUBSET Rules : WatchCM(rules)
    <2>1. UNCHANGED <<l, pc, job, az, open>> /\ queue'.pending
      BY <1>2 DEF Watch, WatchCM, Work
    <2> QED
      BY <1>1, <2>1 DEF Attentive
  <1>3. CASE UNCHANGED vars \/ \E s \in Specs : WriteSpec(s)
    <2>1. UNCHANGED <<l, pc, job, az, open, store, cm, queue>>
      BY <1>3 DEF WriteSpec, vars
    <2>2. Made(store.spec, cm) => Made(store.spec, cm)'
      BY <2>1 DEF Made, GroupsOpen
    <2>3. Valid(store)' <=> Valid(store)
      BY <2>1 DEF Valid
    <2>4. Attentive'
      BY <1>0, <2>1, <2>2, <2>3, EventStep DEF Attentive
    <2> QED
      BY <1>1, <2>1, <2>4
  <1>4. CASE Kill \/ Exit
    BY <1>4, DownSynced DEF Kill, Exit
  <1>5. CASE Restart
    <2>1. /\ UNCHANGED <<l, az, open>> /\ pc'["worker"] = "idle" /\ queue'.pending
      BY <1>5 DEF Restart, NoWork, Threads
    <2>2. Faithful'
      BY <1>0, <2>1, FaithfulStep DEF Cleaning, Syncing
    <2> QED
      BY <2>1, <2>2, EarlyProgress DEF Attentive, Answered, Syncing, Cleaning
  <1>6. CASE Stop
    <2>1. pc'["stopper"] # "off"
      BY <1>6 DEF Stop, Goto, Cleanup, Threads
    <2> QED
      BY <1>0, <2>1
  <1>7. CASE DeleteObject
    <2>1. Put([api EXCEPT !.deleting = TRUE]) /\ [api EXCEPT !.deleting = TRUE] \in Object
      BY <1>7 DEF DeleteObject, Object
    <2>2. api'.deleting
      BY <2>1 DEF Put, Object
    <2> QED
      BY <1>0, <2>2
  <1> QED
    BY <1>2, <1>3, <1>4, <1>5, <1>6, <1>7 DEF Environment

LEMMA SyncedInvariant == Spec => []SyncedInv
  <1>1. Init => SyncedInv
    <2> SUFFICES ASSUME Init PROVE Lagging /\ Faithful /\ Progress /\ Attentive
      BY DEF SyncedInv
    <2>1. pc["worker"] = "idle" /\ l.lb = Nil /\ ~l.same
      BY DEF Init, Threads, NewProvider
    <2>2. queue.pending
      BY DEF Init, NoWork
    <2> QED
      BY <2>1, <2>2
         DEF Lagging, Faithful, Progress, Attentive, Syncing, Answered, Cleaning
  <1>2. TypeInv /\ StoreInv /\ HistoryInv /\ SyncedInv /\ [Next]_vars => SyncedInv'
    <2> SUFFICES ASSUME TypeInv, StoreInv, HistoryInv, SyncedInv, [Next]_vars, Concerned'
                 PROVE  (Lagging /\ Faithful /\ Progress /\ Attentive)'
      BY DEF SyncedInv
    <2>1. CASE Down
      BY <2>1, DownSynced
    <2>2. CASE ~Down
      <3>1. Concerned /\ ~past'.reverted
        BY <2>2, ConcernedStep
      <3>2. Lagging'
        BY <3>1, LaggingStep DEF SyncedInv
      <3>3. CASE Sync
        BY <3>1, <3>2, <3>3, OnUpdateSynced, SyncSynced DEF Sync, Middle
      <3>4. CASE \E t \in Threads : CleanupStep(t)
        BY <3>1, <3>2, <3>4, CleanupSynced
      <3>5. CASE Watch \/ Restart \/ Exit \/ Environment \/ UNCHANGED vars
        BY <3>1, <3>2, <3>5, EnvironmentSynced
      <3> QED
        BY <3>3, <3>4, <3>5 DEF Next
    <2> QED
      BY <2>1, <2>2
  <1> QED
    BY <1>1, <1>2, TypeInvariant, StoreInvariant, HistoryInvariant, PTL DEF Spec

\* At rest the balancer in Azure is the one the object and the ConfigMaps ask for. The
\* security groups of its nodes open no port that is not asked for, and one of them
\* opens all. That holds whatever calls fail or are done and reported as failed,
\* whenever the process is killed, panics or is stopped, and wherever a change arrives
\* during a sync: unless a specification or a set of rules has come back, or OnUpdate
\* got a copy of the object without the name.
THEOREM AtRestSyncedCorrect == Spec => []AtRestSynced
  <1>1. HistoryInv /\ SyncedInv => AtRestSynced
    <2> SUFFICES ASSUME HistoryInv, SyncedInv, Quiet, Wanted, ~Forgiven
                 PROVE  Synced
      BY DEF AtRestSynced
    <2>1. Concerned /\ store = api
      BY DEF Concerned, Quiet, Wanted, HistoryInv
    <2>2. Made(api.spec, cm) /\ api.named
      BY <2>1 DEF SyncedInv, Attentive, Quiet, Wanted
    <2> QED
      BY <2>2 DEF Synced, Made, usePublicAddress
  <1> QED
    BY <1>1, HistoryInvariant, SyncedInvariant, PTL
=============================================================================
