--------------------------- MODULE AzureCalmProofs ---------------------------
(* Proofs of what Azure promises as long as no call fails and nobody stops   *)
(* the process: ReleasedClean and GroupsClosed.                              *)
EXTENDS AzureProofs

-----------------------------------------------------------------------------
(* Calls that do not fail                                                   *)

LEMMA UsedStep ==
    ASSUME TypeInv, [Next]_vars
    PROVE  Change \/ Fault \/ Crash \/ UNCHANGED used
  <1>1. CASE Sync
    BY <1>1 DEF Sync, syncLoadBalancer, OnUpdateRemoved, OnUpdateNil, Panic, OnUpdateWanted,
               OnUpdateNoConfigMap, CheckExists, patchUpdating, ReadError,
               getAzureLoadbalancer, createAzureLoadBalancer, ensureSyncDefaultAzureLBConfig,
               ensureSyncDefaultRules, syncRules, detachNetworkInterfacesAndLoadBalancer,
               attachNetworkInterfacesAndLoadBalancer, syncBackendPoolsDone,
               syncSecurityGroupRules, deleteUselessSecurityRules,
               ensureSyncRulesToSecurityGroups, syncSecurityGroupRulesDone,
               updateCacheData, SyncFailed, pathLoadBalancerName,
               CreateOrUpdate, Charge, Patch, PatchStatus
  <1>2. CASE \E t \in Threads : CleanupStep(t)
    BY <1>2 DEF CleanupStep, cleanupAzureLB, CleanupNil, Panic, cleanUpSecurityGroup,
               recoverDefaultAzureLoadBalancer, CleanupFailed, DeleteBalancer,
               patachFinalizersAndStatus, Charge, Patch, PatchStatus
  <1>3. CASE Watch \/ Restart \/ Exit \/ Environment \/ UNCHANGED vars
    BY <1>3 DEF Watch, Restart, Exit, Environment, WriteSpec, DeleteObject, WatchCM, Kill, Stop,
                vars
  <1> QED
    BY <1>1, <1>2, <1>3 DEF Next

\* While all is calm nothing has failed, and nothing fails in this step.
LEMMA CalmStep ==
    ASSUME TypeInv, Change \/ Fault \/ Crash \/ UNCHANGED used, Calm'
    PROVE  Calm /\ ~Fault /\ ~Crash
  <1>1. used.faults \in Nat /\ used.crashes \in Nat /\ used \in Used
    BY Typed, AzureAssumption DEF Used
  <1>2. ~Fault /\ ~Crash
    BY <1>1 DEF Fault, Crash, Calm, Used
  <1>3. Change \/ UNCHANGED used
    BY <1>2
  <1>4. used'.faults = used.faults /\ used'.crashes = used.crashes
    BY <1>1, <1>3 DEF Change, Used
  <1> QED
    BY <1>2, <1>4 DEF Calm

LEMMA CalmCharge ==
    ASSUME TypeInv, NEW out, Charge(out), Calm'
    PROVE  out.done /\ out.ok /\ UNCHANGED used
  BY CalmStep DEF Charge

LEMMA CalmPatch ==
    ASSUME TypeInv, NEW o, NEW out, Patch(o, out), Calm', api.live
    PROVE  out.done /\ out.ok /\ Put(o) /\ UNCHANGED used
  BY CalmCharge DEF Patch

LEMMA CalmPatchStatus ==
    ASSUME TypeInv, NEW out, PatchStatus(out), Calm', api.live
    PROVE  out.done /\ out.ok /\ UNCHANGED <<api, used>>
  BY CalmCharge DEF PatchStatus

\* Balancer b is stored and the worker goes on with step next, or it gives up.
Creates(b, next) ==
    /\ az' = Stored(b) /\ az' \in Balancer /\ az' # Nil
    /\ job' = [job EXCEPT !.snap = Stored(b)]
    /\ pc'["worker"] = next /\ pc'["stopper"] = pc["stopper"]

LEMMA CreateOrUpdateStep ==
    ASSUME TypeInv, NEW b \in Balancer, NEW next, CreateOrUpdate(b, next)
    PROVE  Creates(b, next) \/ (Fault /\ pc'["worker"] = "fail")
  <1>1. PICK out \in Outcomes :
          /\ Charge(out)
          /\ az' = IF out.done THEN Stored(b) ELSE az
          /\ job' = IF out.ok THEN [job EXCEPT !.snap = Stored(b)] ELSE job
          /\ Goto("worker", IF out.ok THEN next ELSE "fail")
    BY DEF CreateOrUpdate
  <1>2. CASE out.ok
    <2>1. out.done
      BY <1>2 DEF Outcomes
    <2>2. az' = Stored(b) /\ job' = [job EXCEPT !.snap = Stored(b)] /\ Goto("worker", next)
      BY <1>1, <1>2, <2>1
    <2>3. Stored(b) \in Balancer
      BY StoredType
    <2>4. Stored(b) # Nil
      BY <2>3, NilAssumption
    <2> QED
      BY <2>2, <2>3, <2>4, Typed DEF Goto, Threads, Creates
  <1>3. CASE ~out.ok
    BY <1>1, <1>3, Typed DEF Charge, Goto, Threads
  <1> QED
    BY <1>2, <1>3

LEMMA CalmCreateOrUpdate ==
    ASSUME TypeInv, NEW b \in Balancer, NEW next, CreateOrUpdate(b, next), Calm'
    PROVE  Creates(b, next)
  BY CreateOrUpdateStep, CalmStep

\* The object at the API server after a successful write.
LEMMA PutStep ==
    ASSUME NEW o \in Object, Put(o)
    PROVE  /\ api'.live <=> ~(o.deleting /\ ~o.fin)
           /\ api'.fin <=> o.fin
           /\ api'.deleting <=> o.deleting
           /\ api'.spec = o.spec
           /\ api'.named <=> o.named
  BY DEF Put, Object

\* What is remembered of the object when oldAzureProvider changes.
LEMMA CachedView ==
    ASSUME TypeInv, NEW named \in BOOLEAN, NEW reserve \in BOOLEAN, l' = Cached(named, reserve)
    PROVE  /\ l'.old # Nil /\ (l'.old.named <=> named) /\ (l'.clean <=> l.clean)
           /\ (l'.lb = Nil) <=> (l.lb = Nil)
           /\ l.lb # Nil => /\ l'.lb.spec.azure <=> l.lb.spec.azure
                            /\ l'.lb.named <=> IF l.same THEN named ELSE l.lb.named
  <1> USE Typed
  <1>1. l'.old # Nil /\ (l'.old.named <=> named) /\ (l'.clean <=> l.clean)
    BY CachedType, ProviderFields
  <1>2. CASE l.same
    <2>1. l.lb \in View
      BY <1>2
    <2> DEFINE lb == [l.lb EXCEPT !.named = named, !.spec.reserve = reserve]
    <2>2. l'.lb = lb
      BY <1>2 DEF Cached, Memory
    <2>3. [l.lb.spec EXCEPT !.reserve = reserve] \in LBSpec
          /\ [l.lb.spec EXCEPT !.reserve = reserve].azure = l.lb.spec.azure
      BY <2>1 DEF View, LBSpec
    <2>4. lb \in View /\ lb.spec.azure = l.lb.spec.azure /\ lb.named = named
      BY <2>1, <2>3 DEF View
    <2>5. lb # Nil /\ l.lb # Nil
      BY <2>1, <2>4, NilAssumption
    <2> QED
      BY <1>1, <1>2, <2>2, <2>4, <2>5
  <1>3. CASE ~l.same
    BY <1>1, <1>3 DEF Cached, Memory
  <1> QED
    BY <1>2, <1>3

\* The rules are brought up to date, and the pool is next.
RulesAsked ==
    /\ pc'["worker"] = "pool" /\ pc'["stopper"] = pc["stopper"]
    /\ job'.todo = Detachs \cup Attachs
    /\ job'.snap \in Balancer
    /\ job'.snap = [job.snap EXCEPT !.rules = makeUpRules(job.snap.rules, job.data)]
    /\ \/ az' = az /\ job'.snap = job.snap
       \/ az' = Stored(job'.snap) /\ az' # Nil

LEMMA RulesAskedStep ==
    ASSUME TypeInv, syncRules
    PROVE  RulesAsked \/ (Fault /\ pc'["worker"] = "fail")
  <1> USE Typed
  <1> DEFINE new == makeUpRules(job.snap.rules, job.data)
             b == [job.snap EXCEPT !.rules = new]
             todo == Detachs \cup Attachs
  <1>1. /\ pc["worker"] = "rules" /\ job.snap \in Balancer
        /\ job' = [job EXCEPT !.snap.rules = new, !.todo = todo]
    BY DEF syncRules, Answered
  <1>2. b \in Balancer
    <2>1. job.snap.rules \in SUBSET (Defaults \cup Rules) /\ job.data \in SUBSET Rules
      BY <1>1, BalancerFields DEF Job
    <2>2. new \in SUBSET (Defaults \cup Rules)
      BY <2>1 DEF makeUpRules
    <2> QED
      BY <1>1, <2>2, BalancerWith
  <1>3. job'.snap = b /\ job'.todo = todo
    <2> HIDE DEF new, todo
    <2>1. job' = [obj |-> job.obj, data |-> job.data, snap |-> b, todo |-> todo,
                  want |-> job.want]
      BY <1>1 DEF Job
    <2> QED
      BY <2>1
  <1>4. Stored(b) \in Balancer
    BY <1>2, StoredType
  <1>5. Stored(b) # Nil
    BY <1>4, NilAssumption
  <1>6. \/ Goto("worker", "pool") /\ UNCHANGED az /\ new = job.snap.rules
        \/ \E out \in Outcomes :
             /\ Charge(out)
             /\ az' = IF out.done THEN Stored(b) ELSE az
             /\ Goto("worker", IF out.ok THEN "pool" ELSE "fail")
    BY DEF syncRules
  <1>7. \/ Goto("worker", "pool") /\ UNCHANGED az /\ new = job.snap.rules
        \/ Goto("worker", "pool") /\ az' = Stored(b)
        \/ Goto("worker", "fail") /\ Fault
    BY <1>6 DEF Charge, Outcomes
  <1>8. ASSUME NEW step, Goto("worker", step)
        PROVE  pc'["worker"] = step /\ pc'["stopper"] = pc["stopper"]
    BY <1>8 DEF Goto, Threads
  <1>9. new = job.snap.rules => b = job.snap
    BY <1>1 DEF Balancer
  <1> HIDE DEF todo, new
  <1> QED
    BY <1>2, <1>3, <1>5, <1>7, <1>8, <1>9 DEF RulesAsked, todo, new

LEMMA CalmRules ==
    ASSUME TypeInv, syncRules, Calm'
    PROVE  RulesAsked
  BY RulesAskedStep, CalmStep

\* One network interface is detached or attached.
PoolChanged(n) ==
    /\ pc["worker"] = "pool" /\ UNCHANGED <<api, pc>> /\ az' # Nil
    /\ job'.todo = job.todo \ {n} /\ job'.snap = job.snap
    /\ az'.front = az.front /\ az'.conf = az.conf /\ az'.rules = az.rules
    /\ \/ n \in job.todo \cap Detachs /\ az'.nics = az.nics \ {n}
       \/ /\ job.todo \cap Detachs = {} /\ n \in job.todo
          /\ az'.nics = az.nics \cup {n}

LEMMA PoolChangedStep ==
    ASSUME TypeInv, NEW n \in Nodes, pc["worker"] \in Answered => az # Nil,
           \/ detachNetworkInterfacesAndLoadBalancer(n)
           \/ attachNetworkInterfacesAndLoadBalancer(n)
    PROVE  PoolChanged(n) \/ (Fault /\ pc'["worker"] = "fail")
  <1> USE Typed
  <1>1. pc["worker"] = "pool" /\ UNCHANGED api
    BY DEF detachNetworkInterfacesAndLoadBalancer, attachNetworkInterfacesAndLoadBalancer
  <1>2. az # Nil /\ az \in Balancer
    BY <1>1 DEF Answered
  <1> DEFINE Turns(nics) ==
        /\ UNCHANGED pc /\ az' # Nil /\ az'.nics = nics
        /\ az'.front = az.front /\ az'.conf = az.conf /\ az'.rules = az.rules
        /\ job'.todo = job.todo \ {n} /\ job'.snap = job.snap
  <1>3. ASSUME NEW nics \in SUBSET Nodes, NEW out \in Outcomes, Charge(out),
               IF out.done THEN SetPool(nics) ELSE UNCHANGED az,
               job' = IF out.ok THEN [job EXCEPT !.todo = @ \ {n}] ELSE job,
               IF out.ok THEN UNCHANGED pc ELSE Goto("worker", "fail")
        PROVE  Turns(nics) \/ (Fault /\ pc'["worker"] = "fail")
    <2>1. CASE out.ok
      <3>1. out.done
        BY <2>1 DEF Outcomes
      <3>2. az' = [az EXCEPT !.nics = nics]
        BY <1>3, <3>1 DEF SetPool
      <3>3. az' \in Balancer
        BY <1>2, <3>2, BalancerWith
      <3>4. /\ az' # Nil /\ az'.nics = nics
            /\ az'.front = az.front /\ az'.conf = az.conf /\ az'.rules = az.rules
        BY <1>2, <3>2, <3>3, NilAssumption DEF Balancer
      <3>5. UNCHANGED pc /\ job' = [job EXCEPT !.todo = @ \ {n}]
        BY <1>3, <2>1
      <3>6. job'.todo = job.todo \ {n} /\ job'.snap = job.snap
        BY <3>5 DEF Job
      <3> QED
        BY <3>4, <3>5, <3>6
    <2>2. CASE ~out.ok
      BY <1>3, <2>2 DEF Charge, Goto, Threads
    <2> QED
      BY <2>1, <2>2
  <1>4. az.nics \in SUBSET Nodes
    BY <1>2, BalancerFields
  <1>5. az.nics \ {n} \in SUBSET Nodes /\ az.nics \cup {n} \in SUBSET Nodes
    BY <1>4
  <1>6. CASE detachNetworkInterfacesAndLoadBalancer(n)
    <2>1. n \in job.todo \cap Detachs
      BY <1>6 DEF detachNetworkInterfacesAndLoadBalancer
    <2>2. \E out \in Outcomes :
            /\ Charge(out)
            /\ IF out.done THEN SetPool(az.nics \ {n}) ELSE UNCHANGED az
            /\ job' = IF out.ok THEN [job EXCEPT !.todo = @ \ {n}] ELSE job
            /\ IF out.ok THEN UNCHANGED pc ELSE Goto("worker", "fail")
      BY <1>2, <1>6 DEF detachNetworkInterfacesAndLoadBalancer
    <2> HIDE DEF Turns
    <2>3. Turns(az.nics \ {n}) \/ (Fault /\ pc'["worker"] = "fail")
      BY <1>3, <1>5, <2>2
    <2> QED
      BY <1>1, <2>1, <2>3 DEF PoolChanged, Turns
  <1>7. CASE attachNetworkInterfacesAndLoadBalancer(n)
    <2>1. job.todo \cap Detachs = {} /\ n \in job.todo
      BY <1>7 DEF attachNetworkInterfacesAndLoadBalancer
    <2>2. \E out \in Outcomes :
            /\ Charge(out)
            /\ IF out.done THEN SetPool(az.nics \cup {n}) ELSE UNCHANGED az
            /\ job' = IF out.ok THEN [job EXCEPT !.todo = @ \ {n}] ELSE job
            /\ IF out.ok THEN UNCHANGED pc ELSE Goto("worker", "fail")
      BY <1>2, <1>7 DEF attachNetworkInterfacesAndLoadBalancer
    <2> HIDE DEF Turns
    <2>3. Turns(az.nics \cup {n}) \/ (Fault /\ pc'["worker"] = "fail")
      BY <1>3, <1>5, <2>2
    <2> QED
      BY <1>1, <2>1, <2>3 DEF PoolChanged, Turns
  <1> QED
    BY <1>6, <1>7

LEMMA CalmPool ==
    ASSUME TypeInv, NEW n \in Nodes, Calm', pc["worker"] \in Answered => az # Nil,
           \/ detachNetworkInterfacesAndLoadBalancer(n)
           \/ attachNetworkInterfacesAndLoadBalancer(n)
    PROVE  PoolChanged(n)
  BY PoolChangedStep, CalmStep

\* What the properties know of the past is not forgotten.
LEMMA PastStep ==
    ASSUME TypeInv, [Next]_vars
    PROVE  /\ past'.guarded = past.guarded
           /\ past.spent => past'.spent
           /\ past.unnamed => past'.unnamed
           /\ past.reverted => past'.reverted
           /\ past.specs \subseteq past'.specs
           /\ past.cms \subseteq past'.cms
  <1>1. \/ UNCHANGED past
        \/ Told(store)
        \/ \E s \in Specs : WriteSpec(s)
        \/ \E rules \in SUBSET Rules : WatchCM(rules)
    <2>1. CASE Sync
      BY <2>1 DEF Sync, syncLoadBalancer, OnUpdateRemoved, OnUpdateNil, Panic, OnUpdateWanted,
               OnUpdateNoConfigMap, CheckExists, patchUpdating, ReadError,
               getAzureLoadbalancer, createAzureLoadBalancer, ensureSyncDefaultAzureLBConfig,
               ensureSyncDefaultRules, syncRules, detachNetworkInterfacesAndLoadBalancer,
               attachNetworkInterfacesAndLoadBalancer, syncBackendPoolsDone,
               syncSecurityGroupRules, deleteUselessSecurityRules,
               ensureSyncRulesToSecurityGroups, syncSecurityGroupRulesDone,
               updateCacheData, SyncFailed, pathLoadBalancerName
    <2>2. CASE \E t \in Threads : CleanupStep(t)
      BY <2>2 DEF CleanupStep, cleanupAzureLB, CleanupNil, Panic, cleanUpSecurityGroup,
               recoverDefaultAzureLoadBalancer, CleanupFailed, DeleteBalancer,
               patachFinalizersAndStatus
    <2>3. CASE Watch \/ Restart \/ Exit \/ Kill \/ Stop \/ DeleteObject \/ UNCHANGED vars
      BY <2>3 DEF Watch, Restart, Exit, Kill, Stop, DeleteObject, vars
    <2> QED
      BY <2>1, <2>2, <2>3 DEF Next, Environment
  <1>2. CASE Told(store)
    BY <1>2, Typed, ToldStep
  <1>3. CASE UNCHANGED past
    BY <1>3
  <1>4. CASE \E s \in Specs : WriteSpec(s)
    BY <1>4, Typed DEF WriteSpec, Past
  <1>5. CASE \E rules \in SUBSET Rules : WatchCM(rules)
    BY <1>5, Typed DEF WatchCM, Past
  <1> QED
    BY <1>1, <1>2, <1>3, <1>4, <1>5

-----------------------------------------------------------------------------
(* ReleasedClean                                                            *)

\* The objects ReleasedClean is about.
Watched == Calm /\ past.guarded /\ ~past.spent

\* The finalizer keeps the object until the worker has cleaned up; a process that
\* has, or that is down, has left nothing behind.
Guarded ==
    /\ pc["stopper"] = "off"
    /\ pc["worker"] \notin {"fail", "cleanfail"}
    /\ api.live => api.fin
    /\ ~api.live => l.clean \/ ~Up
    /\ l.clean \/ ~Up => Gone
    /\ ~Up => l.lb = Nil

\* A sync runs to its end, and remembers the name of the balancer it has made.
Completing ==
    /\ pc["worker"] \in Syncing => api.live /\ ~l.clean /\ l.old # Nil /\ job.obj.spec.azure
    /\ pc["worker"] \in {"check", "updating", "get", "create"} =>
         (job.obj.named <=> l.old.named)
    /\ pc["worker"] \in Answered => az # Nil
    /\ pc["worker"] \in Answered \ {"name"} => l.old.named /\ job.obj.named

\* Between two syncs the worker knows the balancer that is not cleaned up, and it
\* has cleaned up when the object has no Azure provider.
Knowing ==
    /\ pc["worker"] \in {"idle", "cleanup"} /\ ~Gone => l.old # Nil /\ l.old.named
    /\ pc["worker"] = "idle" /\ l.lb # Nil /\ ~l.lb.spec.azure => Gone
    /\ pc["worker"] = "idle" /\ l.lb # Nil /\ l.lb.spec.azure /\ ~l.clean => l.lb.named

\* The finalizer goes last, and only that of an object being deleted.
Releasing ==
    /\ pc["worker"] \in {"sg", "recover", "delete"} => l.old # Nil
    /\ pc["worker"] = "release" => Gone
    /\ pc["worker"] \in Cleaning /\ arg["worker"].lb # Nil => api.deleting

CleanInv == Watched => Guarded /\ Completing /\ Knowing /\ Releasing

LEMMA WatchedStep ==
    ASSUME TypeInv, [Next]_vars, Watched'
    PROVE  Watched /\ Calm' /\ ~Fault /\ ~Crash
  BY UsedStep, CalmStep, PastStep DEF Watched

\* The worker's way through ensureSync while nothing fails.
LEMMA CalmMiddle ==
    ASSUME TypeInv, Middle, Calm', ~Fault, api.live, pc["worker"] \in Answered => az # Nil
    PROVE  /\ UNCHANGED api
           /\ pc'["worker"] \in Syncing
           /\ pc["worker"] \in Answered => pc'["worker"] \in Answered \ {"name"}
           /\ pc'["worker"] \in Answered => az' # Nil
           /\ pc'["worker"] = "name" => ~job.obj.named
           /\ pc["worker"] \notin Answered /\ pc'["worker"] \in Answered \ {"name"} =>
                job.obj.named
           /\ pc["worker"] \in {"updating", "get", "create"} \cup (Answered \ {"name"})
  <1> USE Typed
  <1>0. "worker" \in Threads
    BY DEF Threads
  <1>1. CASE patchUpdating
    <2>1. PICK out \in Outcomes :
            PatchStatus(out) /\ Goto("worker", IF out.ok THEN "get" ELSE "fail")
      BY <1>1 DEF patchUpdating
    <2>2. out.ok /\ UNCHANGED api
      BY <2>1, CalmPatchStatus
    <2>3. pc["worker"] = "updating" /\ pc'["worker"] = "get"
      BY <1>0, <1>1, <2>1, <2>2 DEF patchUpdating, Goto
    <2> QED
      BY <2>2, <2>3 DEF Syncing, Answered
  <1>2. CASE ReadError
    BY <1>2 DEF ReadError
  <1>3. CASE getAzureLoadbalancer
    BY <1>0, <1>3 DEF getAzureLoadbalancer, Goto, Syncing, Answered
  <1>4. CASE createAzureLoadBalancer
    <2>1. /\ pc["worker"] = "create" /\ UNCHANGED api
          /\ CreateOrUpdate(Bare(job.obj.spec.front), IF job.obj.named THEN "config" ELSE "name")
      BY <1>4 DEF createAzureLoadBalancer
    <2>2. Bare(job.obj.spec.front) \in Balancer
      BY <2>1, ObjectFields, BareType DEF Syncing
    <2>3. az' # Nil /\ pc'["worker"] = IF job.obj.named THEN "config" ELSE "name"
      BY <2>1, <2>2, CalmCreateOrUpdate DEF Creates
    <2> QED
      BY <2>1, <2>3 DEF Syncing, Answered
  <1>5. CASE ensureSyncDefaultAzureLBConfig
    <2>1. pc["worker"] = "config" /\ UNCHANGED api /\ job.obj \in Object /\ job.snap \in Balancer
      BY <1>5 DEF ensureSyncDefaultAzureLBConfig, Syncing, Answered
    <2> DEFINE b == [job.snap EXCEPT !.front = job.obj.spec.front, !.conf = TRUE, !.rules = {}]
    <2>2. b \in Balancer
      <3>1. job.obj.spec.front \in Fronts
        BY <2>1, ObjectFields
      <3> QED
        BY <2>1, <3>1, BalancerWith
    <2>3. \/ CreateOrUpdate(b, "defaults")
          \/ Goto("worker", "defaults") /\ UNCHANGED az
      BY <1>5 DEF ensureSyncDefaultAzureLBConfig
    <2> HIDE DEF b
    <2>4. az' # Nil /\ pc'["worker"] = "defaults"
      BY <1>0, <2>1, <2>2, <2>3, CalmCreateOrUpdate DEF Creates, Goto, Answered
    <2> QED
      BY <2>1, <2>4 DEF Syncing, Answered
  <1>6. CASE ensureSyncDefaultRules
    <2>1. pc["worker"] = "defaults" /\ UNCHANGED api /\ job.snap \in Balancer
      BY <1>6 DEF ensureSyncDefaultRules, Answered
    <2> DEFINE b == [job.snap EXCEPT !.rules = @ \cup Defaults]
    <2>2. b \in Balancer
      <3>1. job.snap.rules \subseteq Defaults \cup Rules
        BY <2>1, BalancerFields
      <3>2. job.snap.rules \cup Defaults \in SUBSET (Defaults \cup Rules)
        BY <3>1
      <3> QED
        BY <2>1, <3>2, BalancerWith
    <2>3. \/ CreateOrUpdate(b, "rules")
          \/ Goto("worker", "rules") /\ UNCHANGED az
      BY <1>6 DEF ensureSyncDefaultRules
    <2> HIDE DEF b
    <2>4. az' # Nil /\ pc'["worker"] = "rules"
      BY <1>0, <2>1, <2>2, <2>3, CalmCreateOrUpdate DEF Creates, Goto, Answered
    <2> QED
      BY <2>1, <2>4 DEF Syncing, Answered
  <1>7. CASE syncRules
    <2>1. pc["worker"] = "rules" /\ UNCHANGED api /\ job.snap \in Balancer
      BY <1>7 DEF syncRules, Answered
    <2>2. RulesAsked
      BY <1>7, <2>1, CalmRules
    <2> QED
      BY <2>1, <2>2 DEF RulesAsked, Syncing, Answered
  <1>8. CASE \E n \in Nodes : \/ detachNetworkInterfacesAndLoadBalancer(n)
                             \/ attachNetworkInterfacesAndLoadBalancer(n)
    <2>1. UNCHANGED <<api, pc>> /\ pc["worker"] = "pool" /\ az' # Nil
      BY <1>8, CalmPool DEF Answered, PoolChanged
    <2> QED
      BY <2>1 DEF Syncing, Answered
  <1>9. CASE syncBackendPoolsDone \/ syncSecurityGroupRules
    <2>1. /\ UNCHANGED <<api, az>> /\ pc["worker"] \in {"pool", "groups"}
          /\ \/ UNCHANGED pc /\ pc["worker"] = "groups"
             \/ \E step \in {"groups", "done"} : Goto("worker", step)
      <3>1. ASSUME NEW n \in Nodes,
                   deleteUselessSecurityRules(n) \/ ensureSyncRulesToSecurityGroups(n)
            PROVE  UNCHANGED <<api, az, pc>> /\ pc["worker"] = "groups"
        BY <3>1, GroupStepTaken DEF GroupStep
      <3> QED
        BY <1>9, <3>1
           DEF syncBackendPoolsDone, syncSecurityGroupRules, syncSecurityGroupRulesDone
    <2>2. pc'["worker"] \in {"groups", "done"}
      BY <1>0, <2>1 DEF Goto
    <2> QED
      BY <2>1, <2>2 DEF Syncing, Answered
  <1> QED
    BY <1>1, <1>2, <1>3, <1>4, <1>5, <1>6, <1>7, <1>8, <1>9 DEF Middle

\* OnUpdate, while nothing fails, keeps what ReleasedClean rests on.
LEMMA OnUpdateClean ==
    ASSUME TypeInv, StoreInv, CleanInv, [Next]_vars, Watched',
           \/ syncLoadBalancer \/ OnUpdateRemoved \/ OnUpdateNil \/ OnUpdateWanted
           \/ OnUpdateNoConfigMap \/ CheckExists
    PROVE  (Guarded /\ Completing /\ Knowing /\ Releasing)'
  <1> USE Typed
  <1>0. Guarded /\ Completing /\ Knowing /\ Releasing /\ ~Fault /\ ~past'.spent
    BY WatchedStep DEF CleanInv, Watched
  <1>1. /\ store # Nil /\ store.named \in BOOLEAN /\ store.spec.reserve \in BOOLEAN
        /\ "worker" \in Threads /\ "stopper" \in Threads /\ ViewOf(store) \in View
        /\ ViewOf(store) # Nil /\ ViewOf(store).spec = store.spec
        /\ ViewOf(store).named = store.named
    BY ObjectFields, NilAssumption DEF Threads, ViewOf
  <1>2. CASE syncLoadBalancer
    BY <1>0, <1>2
       DEF syncLoadBalancer, Guarded, Completing, Knowing, Releasing, Gone, Up
  <1>3. CASE OnUpdateRemoved
    <2>1. /\ l' = [l EXCEPT !.lb = ViewOf(store), !.same = FALSE] /\ UNCHANGED <<api, store, az>>
          /\ Goto("worker", "cleanup") /\ pc["worker"] = "idle"
          /\ \/ Cleanup("worker", Nil, FALSE)
             \/ Cleanup("worker", store, TRUE) /\ store.deleting
      BY <1>3 DEF OnUpdateRemoved, Cleanup, Given, Take
    <2>2. /\ l'.old = l.old /\ l'.clean = l.clean
          /\ pc'["worker"] = "cleanup" /\ pc'["stopper"] = pc["stopper"]
      BY <1>1, <2>1 DEF Memory, Goto
    <2>3. arg'["worker"].lb # Nil => api.deleting
      BY <1>1, <2>1 DEF Cleanup, StoreInv
    <2> QED
      BY <1>0, <2>1, <2>2, <2>3
         DEF Guarded, Completing, Knowing, Releasing, Gone, Up, Syncing, Answered
  <1>4. CASE OnUpdateNil
    <2>1. /\ l.lb = ViewOf(store) /\ ~store.spec.azure /\ pc["worker"] = "idle"
          /\ Down /\ UNCHANGED <<api, az>>
      BY <1>4 DEF OnUpdateNil, Panic, isLBChanged, Given, Take
    <2>2. Gone
      BY <1>0, <1>1, <2>1 DEF Knowing
    <2>3. /\ pc'["worker"] = "down" /\ pc'["stopper"] = "off" /\ l'.lb = Nil
          /\ ~l'.clean /\ arg'["worker"].lb = Nil
      BY <2>1, DownStep DEF NewProvider, NoArg
    <2> QED
      BY <1>0, <2>1, <2>2, <2>3
         DEF Guarded, Completing, Knowing, Releasing, Gone, Up, Syncing, Answered, Cleaning
  <1>5. CASE OnUpdateWanted
    <2>1. /\ l' = Cached(store.named, store.spec.reserve) /\ Told(store) /\ UNCHANGED <<api, az>>
          /\ store.spec.azure /\ pc["worker"] = "idle"
          /\ \/ Goto("worker", "check") /\ job' = [NoJob EXCEPT !.obj = store, !.data = cm]
             \/ UNCHANGED pc /\ l.lb = ViewOf(store)
      BY <1>5 DEF OnUpdateWanted, Given, Take, isLBChanged
    <2>2. ~l.clean
      BY <1>0, <2>1, ToldStep
    <2>3. api.live
      BY <1>0, <2>1, <2>2 DEF Guarded, Up
    <2>4. l'.old # Nil /\ (l'.old.named <=> store.named) /\ ~l'.clean
      BY <1>1, <2>1, <2>2, CachedView
    <2>5. CASE Goto("worker", "check") /\ job' = [NoJob EXCEPT !.obj = store, !.data = cm]
      <3>1. pc'["worker"] = "check" /\ pc'["stopper"] = pc["stopper"] /\ job'.obj = store
        BY <1>1, <2>5 DEF Goto, NoJob
      <3> QED
        BY <1>0, <2>1, <2>3, <2>4, <3>1
           DEF Guarded, Completing, Knowing, Releasing, Gone, Up, Syncing, Answered, Cleaning
    <2>6. CASE UNCHANGED pc /\ l.lb = ViewOf(store)
      <3>1. store.named
        BY <1>0, <1>1, <2>1, <2>2, <2>6 DEF Knowing
      <3>2. l'.lb # Nil /\ l'.lb.spec.azure /\ l'.lb.named
        BY <1>1, <2>1, <2>6, <3>1, CachedView
      <3> QED
        BY <1>0, <2>1, <2>3, <2>4, <2>6, <3>1, <3>2
           DEF Guarded, Completing, Knowing, Releasing, Gone, Up, Syncing, Answered, Cleaning
    <2> QED
      BY <2>1, <2>5, <2>6
  <1>6. CASE OnUpdateNoConfigMap
    BY <1>0, <1>6 DEF OnUpdateNoConfigMap
  <1>7. CASE CheckExists
    <2>1. pc["worker"] = "check" /\ UNCHANGED <<api, l, job, az>>
      BY <1>7 DEF CheckExists
    <2>2. store.live
      BY <1>0, <2>1 DEF Completing, StoreInv, Syncing
    <2>3. Goto("worker", "updating")
      BY <1>7, <2>2 DEF CheckExists
    <2>4. pc'["worker"] = "updating" /\ pc'["stopper"] = pc["stopper"]
      BY <1>1, <2>3 DEF Goto
    <2> QED
      BY <1>0, <2>1, <2>4
         DEF Guarded, Completing, Knowing, Releasing, Gone, Up, Syncing, Answered, Cleaning
  <1> QED
    BY <1>2, <1>3, <1>4, <1>5, <1>6, <1>7

LEMMA SyncClean ==
    ASSUME TypeInv, CleanInv, [Next]_vars, Watched',
           Middle \/ pathLoadBalancerName \/ updateCacheData \/ SyncFailed
    PROVE  (Guarded /\ Completing /\ Knowing /\ Releasing)'
  <1> USE Typed
  <1>0. Guarded /\ Completing /\ Knowing /\ Releasing /\ ~Fault /\ Calm'
    BY WatchedStep DEF CleanInv
  <1>1. CASE Middle
    <2>1. /\ pc["worker"] \in Syncing /\ pc'["stopper"] = pc["stopper"]
          /\ job'.obj = job.obj /\ UNCHANGED <<l, arg>>
      BY <1>1, MiddleStep
    <2>2. api.live /\ (pc["worker"] \in Answered => az # Nil)
      BY <1>0, <2>1 DEF Completing
    <2>3. /\ UNCHANGED api
          /\ pc'["worker"] \in Syncing
          /\ pc["worker"] \in Answered => pc'["worker"] \in Answered \ {"name"}
          /\ pc'["worker"] \in Answered => az' # Nil
          /\ pc'["worker"] = "name" => ~job.obj.named
          /\ pc["worker"] \notin Answered /\ pc'["worker"] \in Answered \ {"name"} =>
               job.obj.named
          /\ pc["worker"] \in {"updating", "get", "create"} \cup (Answered \ {"name"})
      BY <1>0, <1>1, <2>2, CalmMiddle
    <2>4. Completing'
      <3>1. pc["worker"] \in {"updating", "get", "create"} => (job.obj.named <=> l.old.named)
        BY <1>0 DEF Completing
      <3>2. pc["worker"] \in Answered \ {"name"} => l.old.named /\ job.obj.named
        BY <1>0 DEF Completing
      <3>3. \A step \in Answered : step \notin {"check", "updating", "get", "create"}
        BY DEF Answered
      <3>4. pc'["worker"] \in {"check", "updating", "get", "create"} =>
              (job.obj.named <=> l.old.named)
        BY <2>3, <3>1, <3>3
      <3>5. pc'["worker"] \in Answered \ {"name"} => l.old.named /\ job.obj.named
        BY <2>3, <3>1, <3>2
      <3>6. ~l.clean /\ l.old # Nil /\ job.obj.spec.azure
        BY <1>0, <2>1 DEF Completing
      <3> QED
        BY <2>1, <2>2, <2>3, <3>4, <3>5, <3>6 DEF Completing
    <2>5. /\ pc'["worker"] \notin {"fail", "cleanfail", "down", "idle"}
          /\ pc'["worker"] \notin Cleaning
      BY <2>3 DEF Syncing, Cleaning
    <2>6. ~l.clean
      BY <1>0, <2>1 DEF Completing
    <2> QED
      BY <1>0, <2>1, <2>2, <2>3, <2>4, <2>5, <2>6
         DEF Guarded, Knowing, Releasing, Gone, Up, Cleaning
  <1>2. CASE pathLoadBalancerName
    <2> DEFINE reserve == IF l.old = Nil THEN FALSE ELSE l.old.reserve
               o == [api EXCEPT !.spec.azure = TRUE, !.named = TRUE]
    <2>1. /\ pc["worker"] = "name" /\ job.obj \in Object
          /\ l' = Cached(TRUE, reserve) /\ job' = [job EXCEPT !.obj.named = TRUE]
          /\ UNCHANGED <<arg, az>>
      BY <1>2 DEF pathLoadBalancerName, Syncing
    <2>2. api.live /\ ~l.clean /\ job.obj.spec.azure /\ az # Nil
      BY <1>0, <2>1 DEF Completing, Syncing, Answered
    <2>3. PICK out \in Outcomes :
            Patch(o, out) /\ Goto("worker", IF out.ok THEN "config" ELSE "fail")
      BY <1>2 DEF pathLoadBalancerName
    <2>4. o \in Object /\ (o.fin <=> api.fin) /\ (o.deleting <=> api.deleting)
      <3>1. [api.spec EXCEPT !.azure = TRUE] \in LBSpec
        BY ObjectFields DEF LBSpec
      <3> QED
        BY <3>1 DEF Object
    <2> HIDE DEF o
    <2>5. Put(o) /\ out.ok
      BY <1>0, <2>2, <2>3, CalmPatch
    <2>6. api'.live /\ api'.fin
      BY <1>0, <2>2, <2>4, <2>5, PutStep DEF Guarded
    <2>7. pc'["worker"] = "config" /\ pc'["stopper"] = pc["stopper"]
      BY <2>3, <2>5 DEF Goto, Threads
    <2>8. reserve \in BOOLEAN
      BY DEF Memory, Provider
    <2> HIDE DEF reserve
    <2>9. l'.old # Nil /\ l'.old.named /\ ~l'.clean
      BY <2>1, <2>2, <2>8, CachedView
    <2>10. job'.obj.named /\ job'.obj.spec = job.obj.spec
      BY <2>1 DEF Job, Object
    <2> QED
      BY <1>0, <2>1, <2>2, <2>6, <2>7, <2>9, <2>10
         DEF Guarded, Completing, Knowing, Releasing, Gone, Up, Syncing, Answered, Cleaning
  <1>3. CASE updateCacheData
    <2>1. /\ pc["worker"] = "done" /\ job.obj \in Object /\ Return(TRUE) /\ UNCHANGED az
          /\ l' = [old |-> [named |-> job.obj.named, reserve |-> job.obj.spec.reserve],
                   lb |-> ViewOf(job.obj), same |-> TRUE, ruleMap |-> job.data,
                   clean |-> l.clean]
      BY <1>3 DEF updateCacheData, Syncing
    <2>2. api.live /\ ~l.clean /\ job.obj.spec.azure /\ job.obj.named
      BY <1>0, <2>1 DEF Completing, Syncing, Answered
    <2>3. UNCHANGED api
      BY <1>3 DEF updateCacheData, PatchStatus
    <2>4. l'.old = [named |-> job.obj.named, reserve |-> job.obj.spec.reserve]
      BY <2>1
    <2>5. l'.old # Nil /\ l'.old.named
      BY <2>1, <2>2, <2>4, ObjectFields, ProviderFields
    <2>6. l'.lb.spec.azure /\ l'.lb.named /\ ~l'.clean
      BY <2>1, <2>2 DEF ViewOf
    <2>7. pc'["worker"] = "idle" /\ pc'["stopper"] = pc["stopper"]
      BY <2>1, ReturnType
    <2> QED
      BY <1>0, <2>1, <2>2, <2>3, <2>5, <2>6, <2>7
         DEF Guarded, Completing, Knowing, Releasing, Gone, Up, Syncing, Answered, Cleaning
  <1>4. CASE SyncFailed
    BY <1>0, <1>4 DEF SyncFailed, Guarded
  <1> QED
    BY <1>1, <1>2, <1>3, <1>4

LEMMA CleanupClean ==
    ASSUME TypeInv, CleanInv, [Next]_vars, Watched', NEW t \in Threads, CleanupStep(t)
    PROVE  (Guarded /\ Completing /\ Knowing /\ Releasing)'
  <1> USE Typed
  <1>0. Guarded /\ Completing /\ Knowing /\ Releasing /\ ~Fault /\ Calm'
    BY WatchedStep DEF CleanInv
  <1>1. t = "worker" /\ "worker" \in Threads /\ "stopper" \in Threads
    <2>1. t # "stopper"
      BY <1>0 DEF Guarded, CleanupStep, cleanupAzureLB, CleanupNil, cleanUpSecurityGroup,
             recoverDefaultAzureLoadBalancer, CleanupFailed, DeleteBalancer,
             patachFinalizersAndStatus
    <2> QED
      BY <2>1 DEF Threads
  <1>2. ASSUME NEW ok \in BOOLEAN, CleanupReturn(t, ok)
        PROVE  pc'["worker"] = "idle" /\ pc'["stopper"] = pc["stopper"]
    BY <1>1, <1>2, ReturnType DEF CleanupReturn
  <1>3. CASE cleanupAzureLB(t)
    <2>1. UNCHANGED <<api, l, az>> /\ pc["worker"] = "cleanup"
      BY <1>1, <1>3 DEF cleanupAzureLB
    <2>2. CASE l.clean
      <3>1. pc'["worker"] = "idle" /\ pc'["stopper"] = pc["stopper"]
        BY <1>2, <1>3, <2>2 DEF cleanupAzureLB
      <3> QED
        BY <1>0, <2>1, <2>2, <3>1
           DEF Guarded, Completing, Knowing, Releasing, Gone, Up, Syncing, Answered, Cleaning
    <2>3. CASE ~l.clean
      <3>1. /\ Goto("worker", IF l.old = Nil \/ ~l.old.named THEN "release" ELSE "sg")
            /\ arg' = [arg EXCEPT !["worker"].full = l.old # Nil /\ l.old.named]
        BY <1>1, <1>3, <2>3 DEF cleanupAzureLB
      <3>2. /\ pc'["worker"] = IF l.old = Nil \/ ~l.old.named THEN "release" ELSE "sg"
            /\ pc'["stopper"] = pc["stopper"]
            /\ arg'["worker"].lb = arg["worker"].lb
        BY <1>1, <3>1 DEF Goto, Arg
      <3> QED
        BY <1>0, <2>1, <2>3, <3>2
           DEF Guarded, Completing, Knowing, Releasing, Gone, Up, Syncing, Answered, Cleaning
    <2> QED
      BY <2>2, <2>3
  <1>4. CASE CleanupNil(t)
    BY <1>0, <1>1, <1>4 DEF CleanupNil, Releasing
  <1>5. CASE cleanUpSecurityGroup(t)
    <2>1. /\ UNCHANGED <<api, l, az, arg>> /\ pc["worker"] = "sg"
          /\ \E step \in {"recover", "delete"} : Goto("worker", step)
      BY <1>0, <1>1, <1>5 DEF cleanUpSecurityGroup
    <2>2. pc'["worker"] \in {"recover", "delete"} /\ pc'["stopper"] = pc["stopper"]
      BY <1>1, <2>1 DEF Goto
    <2> QED
      BY <1>0, <2>1, <2>2
         DEF Guarded, Completing, Knowing, Releasing, Gone, Up, Syncing, Answered, Cleaning
  <1>6. CASE recoverDefaultAzureLoadBalancer(t)
    <2>1. /\ UNCHANGED <<api, l, arg>> /\ pc["worker"] = "recover" /\ Goto("worker", "release")
          /\ az' = IF az = Nil THEN Nil ELSE Bare(az.front)
      BY <1>0, <1>1, <1>6 DEF recoverDefaultAzureLoadBalancer
    <2>2. Gone'
      BY <2>1 DEF Gone, Bare
    <2>3. pc'["worker"] = "release" /\ pc'["stopper"] = pc["stopper"]
      BY <1>1, <2>1 DEF Goto
    <2> QED
      BY <1>0, <2>1, <2>2, <2>3
         DEF Guarded, Completing, Knowing, Releasing, Up, Syncing, Answered, Cleaning
  <1>7. CASE CleanupFailed(t)
    BY <1>0, <1>1, <1>7 DEF CleanupFailed, Guarded
  <1>8. CASE DeleteBalancer(t)
    <2>1. PICK out \in [done : BOOLEAN, ok : BOOLEAN] :
            /\ Charge(out)
            /\ az' = IF out.done THEN Nil ELSE az
            /\ IF out.ok
               THEN Goto(t, "release") /\ UNCHANGED <<queue, job, arg>>
               ELSE CleanupReturn(t, FALSE)
      BY <1>8 DEF DeleteBalancer
    <2>2. UNCHANGED <<api, l>> /\ pc["worker"] = "delete"
      BY <1>1, <1>8 DEF DeleteBalancer
    <2>3. out.done /\ out.ok
      BY <1>0, <2>1, CalmCharge
    <2>4. az' = Nil /\ Goto("worker", "release") /\ UNCHANGED arg
      BY <1>1, <2>1, <2>3
    <2>5. pc'["worker"] = "release" /\ pc'["stopper"] = pc["stopper"]
      BY <1>1, <2>4 DEF Goto
    <2> QED
      BY <1>0, <2>2, <2>4, <2>5
         DEF Guarded, Completing, Knowing, Releasing, Gone, Up, Syncing, Answered, Cleaning
  <1>9. CASE patachFinalizersAndStatus(t)
    <2> DEFINE o == [api EXCEPT !.fin = @ /\ ~DropsFinalizer(t),
                                !.blank = @ \/ ~arg[t].deleteLB]
    <2>1. PICK out \in Outcomes :
            /\ IF DropsFinalizer(t) \/ ~arg[t].deleteLB
               THEN Patch(o, out)
               ELSE out.done /\ out.ok /\ UNCHANGED <<api, event, used>>
            /\ l' = IF out.ok
                    THEN [l EXCEPT !.clean = TRUE, !.old = IF arg[t].full THEN Nil ELSE @,
                                   !.same = @ /\ ~arg[t].full]
                    ELSE l
            /\ CleanupReturn(t, out.ok)
      BY <1>9 DEF patachFinalizersAndStatus
    <2>2. UNCHANGED az /\ pc["worker"] = "release" /\ out.ok \in BOOLEAN
      BY <1>1, <1>9 DEF patachFinalizersAndStatus, Outcomes
    <2>3. pc'["worker"] = "idle" /\ pc'["stopper"] = pc["stopper"]
      BY <1>2, <2>1, <2>2
    <2>4. Gone /\ Gone'
      BY <1>0, <2>2 DEF Releasing, Gone
    <2>5. l'.clean /\ (api'.live => api'.fin)
      <3>1. CASE ~api.live
        <4>1. l.clean
          BY <1>0, <2>2, <3>1 DEF Guarded, Up
        <4>2. UNCHANGED api
          BY <2>1, <3>1 DEF Patch
        <4>3. l'.clean
          <5> DEFINE old == IF arg[t].full THEN Nil ELSE l.old
                     same == l.same /\ ~arg[t].full
          <5>1. \/ l' = [l EXCEPT !.clean = TRUE, !.old = old, !.same = same]
                \/ l' = l
            BY <2>1
          <5> HIDE DEF old, same
          <5> QED
            BY <4>1, <5>1 DEF Memory
        <4> QED
          BY <3>1, <4>2, <4>3
      <3>2. CASE api.live
        <4>1. out.ok
          BY <1>0, <2>1, <3>2, CalmPatch
        <4>2. l'.clean
          <5> DEFINE old == IF arg[t].full THEN Nil ELSE l.old
                     same == l.same /\ ~arg[t].full
          <5>1. l' = [l EXCEPT !.clean = TRUE, !.old = old, !.same = same]
            BY <2>1, <4>1
          <5> HIDE DEF old, same
          <5> QED
            BY <5>1 DEF Memory
        <4>3. api.fin
          BY <1>0, <3>2 DEF Guarded
        <4>4. CASE DropsFinalizer(t) \/ ~arg[t].deleteLB
          <5>1. Put(o)
            BY <1>0, <2>1, <3>2, <4>4, CalmPatch
          <5>2. (api.fin /\ ~DropsFinalizer(t)) \in BOOLEAN
                /\ (api.blank \/ ~arg[t].deleteLB) \in BOOLEAN
            OBVIOUS
          <5>3. /\ o \in Object /\ (o.deleting <=> api.deleting)
                /\ o.fin <=> api.fin /\ ~DropsFinalizer(t)
            BY <5>2 DEF Object
          <5> HIDE DEF o
          <5>4. DropsFinalizer(t) => api.deleting
            BY <1>0, <1>1, <2>2 DEF DropsFinalizer, Releasing, Cleaning
          <5> QED
            BY <4>2, <4>3, <5>1, <5>3, <5>4, PutStep
        <4>5. CASE ~(DropsFinalizer(t) \/ ~arg[t].deleteLB)
          BY <2>1, <4>2, <4>3, <4>5
        <4> QED
          BY <4>4, <4>5
      <3> QED
        BY <3>1, <3>2
    <2> QED
      BY <1>0, <2>3, <2>4, <2>5
         DEF Guarded, Completing, Knowing, Releasing, Up, Syncing, Answered, Cleaning
  <1> QED
    BY <1>3, <1>4, <1>5, <1>6, <1>7, <1>8, <1>9 DEF CleanupStep

LEMMA EnvironmentClean ==
    ASSUME TypeInv, CleanInv, [Next]_vars, Watched',
           Watch \/ Restart \/ Exit \/ Environment \/ UNCHANGED vars
    PROVE  (Guarded /\ Completing /\ Knowing /\ Releasing)'
  <1> USE Typed
  <1>0. Guarded /\ Completing /\ Knowing /\ Releasing /\ ~Crash
    BY WatchedStep DEF CleanInv
  <1>1. CASE Kill \/ Stop \/ Exit
    BY <1>0, <1>1 DEF Kill, Stop, Exit, Guarded
  <1>2. CASE Restart
    <2>1. UNCHANGED <<api, l, az>> /\ api.live /\ ~Up
      BY <1>2 DEF Restart
    <2>2. pc'["worker"] = "idle" /\ pc'["stopper"] = pc["stopper"]
      BY <1>2 DEF Restart, Threads
    <2> QED
      BY <1>0, <2>1, <2>2
         DEF Guarded, Completing, Knowing, Releasing, Gone, Up, Syncing, Answered, Cleaning
  <1>3. CASE \/ Watch \/ UNCHANGED vars
             \/ \E rules \in SUBSET Rules : WatchCM(rules)
    <2>1. UNCHANGED <<api, l, pc, job, arg, az>>
      BY <1>3 DEF Watch, WatchCM, vars
    <2> QED
      BY <1>0, <2>1 DEF Guarded, Completing, Knowing, Releasing, Gone, Up
  <1>4. CASE DeleteObject \/ \E s \in Specs : WriteSpec(s)
    <2>1. UNCHANGED <<l, pc, job, arg, az>> /\ api.live
      BY <1>4 DEF DeleteObject, WriteSpec
    <2>2. PICK o \in Object : Put(o) /\ (o.fin <=> api.fin) /\ (api.deleting => o.deleting)
      <3>1. CASE DeleteObject
        <4>1. [api EXCEPT !.deleting = TRUE] \in Object
          BY DEF Object
        <4> QED
          BY <3>1, <4>1 DEF DeleteObject, Object
      <3>2. ASSUME NEW s \in Specs, WriteSpec(s)
            PROVE  \E o \in Object :
                     Put(o) /\ (o.fin <=> api.fin) /\ (api.deleting => o.deleting)
        <4> DEFINE o == [api EXCEPT !.spec = s, !.named = @ /\ s.azure]
        <4>1. Put(o) /\ ~api.deleting
          BY <3>2 DEF WriteSpec
        <4>2. s \in LBSpec /\ (api.named /\ s.azure) \in BOOLEAN
          BY <3>2, AzureAssumption
        <4>3. o \in Object /\ (o.fin <=> api.fin)
          BY <4>2 DEF Object
        <4> HIDE DEF o
        <4> QED
          BY <4>1, <4>3
      <3> QED
        BY <1>4, <3>1, <3>2
    <2>3. api.fin
      BY <1>0, <2>1 DEF Guarded
    <2>4. api'.live /\ api'.fin /\ (api.deleting => api'.deleting)
      BY <2>2, <2>3, PutStep
    <2> QED
      BY <1>0, <2>1, <2>4 DEF Guarded, Completing, Knowing, Releasing, Gone, Up
  <1> QED
    BY <1>1, <1>2, <1>3, <1>4 DEF Environment

LEMMA CleanInvariant == Spec => []CleanInv
  <1>1. Init => CleanInv
    <2> SUFFICES ASSUME Init, Watched PROVE Guarded /\ Completing /\ Knowing /\ Releasing
      BY DEF CleanInv
    <2>1. /\ pc["worker"] = "idle" /\ pc["stopper"] = "off" /\ l.old = Nil /\ l.lb = Nil
          /\ ~l.clean
      BY DEF Init, Threads, NewProvider
    <2>2. past.guarded = api.fin /\ api.live
      BY DEF Init
    <2>3. api.fin
      BY <2>2 DEF Watched
    <2>4. Gone
      BY DEF Init, Gone, Bare
    <2> QED
      BY <2>1, <2>2, <2>3, <2>4
         DEF Guarded, Completing, Knowing, Releasing, Up, Syncing, Answered, Cleaning
  <1>2. TypeInv /\ StoreInv /\ CleanInv /\ [Next]_vars => CleanInv'
    <2> SUFFICES ASSUME TypeInv, StoreInv, CleanInv, [Next]_vars, Watched'
                 PROVE  (Guarded /\ Completing /\ Knowing /\ Releasing)'
      BY DEF CleanInv
    <2>1. CASE Sync
      BY <2>1, OnUpdateClean, SyncClean DEF Sync, Middle
    <2>2. CASE \E t \in Threads : CleanupStep(t)
      BY <2>2, CleanupClean
    <2>3. CASE Watch \/ Restart \/ Exit \/ Environment \/ UNCHANGED vars
      BY <2>3, EnvironmentClean
    <2> QED
      BY <2>1, <2>2, <2>3 DEF Next
  <1> QED
    BY <1>1, <1>2, TypeInvariant, StoreInvariant, PTL DEF Spec

\* An object that had the finalizer is not gone before its balancer is deleted or
\* recovered, in whatever order the object is changed, deleted, seen and synced, and
\* although OnUpdate panics on an object without an Azure provider: as long as no
\* call fails, nobody stops the process, and no Azure provider follows a cleanup.
THEOREM ReleasedCleanCorrect == Spec => []ReleasedClean
  <1>1. CleanInv => ReleasedClean
    BY DEF CleanInv, Watched, Guarded, ReleasedClean
  <1> QED
    BY <1>1, CleanInvariant, PTL

-----------------------------------------------------------------------------
(* GroupsClosed                                                             *)

\* The objects GroupsClosed is about, until they are deleted.
Plain == AlwaysPublic /\ Calm /\ ~past.unnamed /\ ~api.deleting

\* Such an object has an Azure provider and is only ever synced.
OnlySynced ==
    /\ pc["stopper"] = "off"
    /\ pc["worker"] \in Syncing \cup {"idle"}
    /\ api.live /\ store.live /\ ~store.deleting
    /\ {api.spec, store.spec} \subseteq past.specs
    /\ pc["worker"] \in Syncing => job.obj.spec \in past.specs

\* A balancer is made without a name only when there was none.
Naming ==
    /\ pc["worker"] = "idle" /\ l.lb # Nil => l.lb.named
    /\ l.lb = Nil => Pooled = {} \/ pc["worker"] \in Answered
    /\ pc["worker"] \in Syncing /\ ~job.obj.named => Pooled = {}
    /\ pc["worker"] \in Answered \ {"name"} => job.obj.named
    /\ pc["worker"] = "create" => ~job.obj.named \/ az = Nil

\* The pool is the one Azure answered with but for what has been done of the list.
Swapping ==
    /\ Opened \subseteq job.snap.nics
    /\ job.todo \subseteq Detachs \cup Attachs
    /\ az.nics = (job.snap.nics \ (Detachs \ job.todo)) \cup (Attachs \ job.todo)

\* The pool is the one asked for; the groups of detached nodes on the list are open.
Closing ==
    /\ az.nics = job.obj.spec.nodes /\ job.todo \subseteq Detachs \cup az.nics
    /\ Opened \subseteq job.obj.spec.nodes \cup (job.todo \cap Detachs)

Pooling ==
    /\ pc["worker"] \notin {"pool", "groups"} => Opened \subseteq Pooled
    /\ pc["worker"] \in Answered => az # Nil
    /\ pc["worker"] \in {"name", "config", "defaults", "rules"} => job.snap.nics = az.nics
    /\ pc["worker"] \in {"defaults", "rules"} => job.snap.conf
    /\ pc["worker"] = "pool" => Swapping
    /\ pc["worker"] = "groups" => Closing

GroupsInv == Plain => OnlySynced /\ Naming /\ Pooling

LEMMA PlainStep ==
    ASSUME TypeInv, [Next]_vars, Plain'
    PROVE  Plain /\ Calm' /\ ~Fault /\ ~Crash
  <1>1. Calm /\ Calm' /\ ~Fault /\ ~Crash
    BY UsedStep, CalmStep DEF Plain
  <1>2. ~api.deleting
    BY ApiStep DEF Plain, ApiKept
  <1>3. AlwaysPublic /\ ~past.unnamed
    BY PastStep DEF Plain, AlwaysPublic
  <1> QED
    BY <1>1, <1>2, <1>3 DEF Plain

\* A public specification has an Azure provider.
LEMMA PublicSpec ==
    ASSUME TypeInv, AlwaysPublic, NEW s \in past.specs
    PROVE  s \in LBSpec /\ s.azure /\ s.front = "public" /\ s = [s EXCEPT !.azure = TRUE]
  <1>1. s \in Specs
    BY Typed DEF Past
  <1>2. s \in LBSpec /\ s.front = "public" /\ (s.azure <=> s.front # "none")
    BY <1>1, AzureAssumption DEF AlwaysPublic
  <1>3. s.azure = TRUE
    BY <1>2 DEF LBSpec
  <1> QED
    BY <1>2, <1>3 DEF LBSpec

\* A balancer that keeps its configuration keeps its pool.
LEMMA StoredNics ==
    ASSUME TypeInv, NEW b \in Balancer
    PROVE  /\ Stored(b).conf <=> b.conf
           /\ Stored(b).front = b.front /\ Stored(b).rules = b.rules
           /\ Stored(b).nics = IF b.conf /\ az # Nil THEN az.nics ELSE {}
  BY DEF Stored, Balancer

LEMMA OnUpdateGroups ==
    ASSUME TypeInv, GroupsInv, [Next]_vars, Plain',
           \/ syncLoadBalancer \/ OnUpdateRemoved \/ OnUpdateNil \/ OnUpdateWanted
           \/ OnUpdateNoConfigMap \/ CheckExists
    PROVE  (OnlySynced /\ Naming /\ Pooling)'
  <1> USE Typed
  <1>0. OnlySynced /\ Naming /\ Pooling /\ ~Fault /\ AlwaysPublic /\ ~past'.unnamed
    BY PlainStep DEF GroupsInv, Plain
  <1>1. /\ store.live /\ store.spec.azure /\ ~store.deleting /\ Valid(store)
        /\ "worker" \in Threads /\ "stopper" \in Threads
        /\ store.named \in BOOLEAN /\ store.spec.reserve \in BOOLEAN
    BY <1>0, PublicSpec, ObjectFields DEF OnlySynced, Valid, Threads
  <1>2. CASE OnUpdateWanted
    <2>1. /\ l' = Cached(store.named, store.spec.reserve) /\ Told(store)
          /\ UNCHANGED <<api, store, az, open>> /\ pc["worker"] = "idle"
          /\ \/ Goto("worker", "check") /\ job' = [NoJob EXCEPT !.obj = store, !.data = cm]
             \/ UNCHANGED <<pc, job>>
      BY <1>2 DEF OnUpdateWanted, Given, Take
    <2>2. past'.specs = past.specs /\ (l.lb # Nil => store.named)
      BY <1>0, <1>1, <2>1, ToldStep DEF Naming
    <2>3. (l'.lb = Nil) <=> (l.lb = Nil)
      BY <1>1, <2>1, CachedView
    <2>4. l'.lb # Nil => l'.lb.named
      BY <1>0, <1>1, <2>1, <2>2, <2>3, CachedView DEF Naming
    <2>5. l.lb = Nil => Pooled = {}
      BY <1>0, <2>1 DEF Naming, Answered
    <2>6. CASE Goto("worker", "check") /\ job' = [NoJob EXCEPT !.obj = store, !.data = cm]
      <3>1. pc'["worker"] = "check" /\ pc'["stopper"] = pc["stopper"] /\ job'.obj = store
        BY <1>1, <2>6 DEF Goto, NoJob
      <3>2. OnlySynced'
        BY <1>0, <2>1, <2>2, <3>1 DEF OnlySynced, Syncing
      <3>3. Naming'
        BY <2>1, <2>2, <2>3, <2>5, <3>1 DEF Naming, Answered, Pooled
      <3>4. Pooling'
        BY <1>0, <2>1, <3>1 DEF Pooling, Opened, Answered, Pooled
      <3> QED
        BY <3>2, <3>3, <3>4
    <2>7. CASE UNCHANGED <<pc, job>>
      <3>1. OnlySynced'
        BY <1>0, <2>1, <2>2, <2>7 DEF OnlySynced
      <3>2. Naming'
        BY <2>1, <2>3, <2>4, <2>5, <2>7 DEF Naming, Answered, Pooled, Syncing
      <3>3. Pooling'
        BY <1>0, <2>1, <2>7 DEF Pooling, Opened, Answered, Pooled
      <3> QED
        BY <3>1, <3>2, <3>3
    <2> QED
      BY <2>1, <2>6, <2>7
  <1>3. CASE CheckExists
    <2>1. /\ pc["worker"] = "check" /\ Goto("worker", "updating")
          /\ UNCHANGED <<api, store, l, job, az, open, past>>
      BY <1>1, <1>3 DEF CheckExists
    <2>2. pc'["worker"] = "updating" /\ pc'["stopper"] = pc["stopper"]
      BY <1>1, <2>1 DEF Goto
    <2> QED
      BY <1>0, <2>1, <2>2 DEF OnlySynced, Naming, Pooling, Opened, Pooled, Syncing, Answered
  <1>4. CASE syncLoadBalancer \/ OnUpdateRemoved \/ OnUpdateNil \/ OnUpdateNoConfigMap
    BY <1>0, <1>1, <1>4 DEF syncLoadBalancer, OnUpdateRemoved, OnUpdateNil, OnUpdateNoConfigMap
  <1> QED
    BY <1>2, <1>3, <1>4

\* ensureSync up to the rules keeps the pool, the groups and what is known of both.
LEMMA ConfigGroups ==
    ASSUME TypeInv, OnlySynced, Naming, Pooling, Calm', ~Fault,
           \/ patchUpdating \/ getAzureLoadbalancer \/ createAzureLoadBalancer
           \/ ensureSyncDefaultAzureLBConfig \/ ensureSyncDefaultRules
    PROVE  /\ Pooling'
           /\ Pooled' = Pooled \/ Pooled' = {}
           /\ pc'["worker"] = "create" => ~job.obj.named \/ az' = Nil
  <1> USE Typed
  <1>0. "worker" \in Threads
    BY DEF Threads
  <1>1. CASE patchUpdating
    <2>1. PICK out \in Outcomes :
            PatchStatus(out) /\ Goto("worker", IF out.ok THEN "get" ELSE "fail")
      BY <1>1 DEF patchUpdating
    <2>2. pc["worker"] = "updating" /\ UNCHANGED <<az, open>>
      BY <1>1 DEF patchUpdating
    <2>3. pc'["worker"] = "get"
      BY <1>0, <2>1, CalmPatchStatus DEF Goto, OnlySynced
    <2> QED
      BY <2>2, <2>3 DEF Pooling, Opened, Pooled, Answered
  <1>2. CASE getAzureLoadbalancer
    <2>1. pc["worker"] = "get" /\ UNCHANGED <<az, open>>
      BY <1>2 DEF getAzureLoadbalancer
    <2>2. CASE job.obj.named /\ az # Nil
      <3>1. pc'["worker"] = "config" /\ job'.snap = az
        BY <1>0, <1>2, <2>2 DEF getAzureLoadbalancer, Goto, Job
      <3> QED
        BY <2>1, <2>2, <3>1 DEF Pooling, Opened, Pooled, Answered
    <2>3. CASE ~(job.obj.named /\ az # Nil)
      <3>1. pc'["worker"] = "create"
        BY <1>0, <1>2, <2>3 DEF getAzureLoadbalancer, Goto
      <3> QED
        BY <2>1, <2>3, <3>1 DEF Pooling, Opened, Pooled, Answered
    <2> QED
      BY <2>2, <2>3
  <1>3. CASE createAzureLoadBalancer
    <2> DEFINE b == Bare(job.obj.spec.front)
               step == IF job.obj.named THEN "config" ELSE "name"
    <2>1. pc["worker"] = "create" /\ CreateOrUpdate(b, step) /\ UNCHANGED open
      BY <1>3 DEF createAzureLoadBalancer
    <2>2. b \in Balancer /\ ~b.conf
      BY <2>1, ObjectFields, BareType DEF Syncing, Bare
    <2> HIDE DEF b
    <2>3. /\ az' = Stored(b) /\ az' # Nil
          /\ job' = [job EXCEPT !.snap = Stored(b)] /\ pc'["worker"] = step
      BY <2>1, <2>2, CalmCreateOrUpdate DEF Creates
    <2>4. Stored(b).nics = {}
      BY <2>2, StoredNics
    <2>5. job'.snap = az'
      BY <2>3 DEF Job
    <2>6. Pooled = {} /\ Opened = {}
      BY <2>1 DEF Naming, Pooling, Opened, Pooled, Syncing
    <2>7. Pooled' = {}
      BY <2>3, <2>4 DEF Pooled
    <2>8. step \in {"name", "config"}
      OBVIOUS
    <2> HIDE DEF step
    <2> QED
      BY <2>1, <2>3, <2>5, <2>6, <2>7, <2>8 DEF Pooling, Opened
  <1>4. CASE ensureSyncDefaultAzureLBConfig
    <2>1. /\ pc["worker"] = "config" /\ UNCHANGED open
          /\ job.obj \in Object /\ job.snap \in Balancer
      BY <1>4 DEF ensureSyncDefaultAzureLBConfig, Syncing, Answered
    <2>2. az # Nil /\ job.snap.nics = az.nics /\ Opened \subseteq Pooled
      BY <2>1 DEF Pooling, Opened, Answered
    <2>3. CASE ConfigChanged
      <3> DEFINE b == [job.snap EXCEPT !.front = job.obj.spec.front, !.conf = TRUE, !.rules = {}]
      <3>1. CreateOrUpdate(b, "defaults")
        BY <1>4, <2>3 DEF ensureSyncDefaultAzureLBConfig
      <3>2. b \in Balancer /\ b.conf
        <4>1. job.obj.spec.front \in Fronts
          BY <2>1, ObjectFields
        <4>2. b \in Balancer
          BY <2>1, <4>1, BalancerWith
        <4> QED
          BY <2>1, <4>2 DEF Balancer
      <3> HIDE DEF b
      <3>3. /\ az' = Stored(b) /\ az' # Nil
            /\ job' = [job EXCEPT !.snap = Stored(b)] /\ pc'["worker"] = "defaults"
        BY <3>1, <3>2, CalmCreateOrUpdate DEF Creates
      <3>4. Stored(b).nics = az.nics /\ Stored(b).conf
        BY <2>2, <3>2, StoredNics
      <3>5. job'.snap = az'
        BY <3>3 DEF Job
      <3> QED
        BY <2>1, <2>2, <3>3, <3>4, <3>5 DEF Pooling, Opened, Pooled
    <2>4. CASE ~ConfigChanged
      <3>1. Goto("worker", "defaults") /\ UNCHANGED <<job, az>>
        BY <1>4, <2>4 DEF ensureSyncDefaultAzureLBConfig
      <3>2. pc'["worker"] = "defaults"
        BY <1>0, <3>1 DEF Goto
      <3> QED
        BY <2>1, <2>2, <2>4, <3>1, <3>2 DEF Pooling, Opened, Pooled, ConfigChanged
    <2> QED
      BY <2>3, <2>4
  <1>5. CASE ensureSyncDefaultRules
    <2>1. pc["worker"] = "defaults" /\ UNCHANGED open /\ job.snap \in Balancer
      BY <1>5 DEF ensureSyncDefaultRules, Answered
    <2>2. az # Nil /\ job.snap.nics = az.nics /\ Opened \subseteq Pooled /\ job.snap.conf
      BY <2>1 DEF Pooling, Opened, Answered
    <2>3. CASE ~(Defaults \subseteq job.snap.rules)
      <3> DEFINE b == [job.snap EXCEPT !.rules = @ \cup Defaults]
      <3>1. CreateOrUpdate(b, "rules")
        BY <1>5, <2>3 DEF ensureSyncDefaultRules
      <3>2. b \in Balancer /\ b.conf
        <4>1. job.snap.rules \subseteq Defaults \cup Rules
          BY <2>1, BalancerFields
        <4>2. job.snap.rules \cup Defaults \in SUBSET (Defaults \cup Rules)
          BY <4>1
        <4>3. b \in Balancer
          BY <2>1, <4>2, BalancerWith
        <4> QED
          BY <2>1, <2>2, <4>3 DEF Balancer
      <3> HIDE DEF b
      <3>3. /\ az' = Stored(b) /\ az' # Nil
            /\ job' = [job EXCEPT !.snap = Stored(b)] /\ pc'["worker"] = "rules"
        BY <3>1, <3>2, CalmCreateOrUpdate DEF Creates
      <3>4. Stored(b).nics = az.nics /\ Stored(b).conf
        BY <2>2, <3>2, StoredNics
      <3>5. job'.snap = az'
        BY <3>3 DEF Job
      <3> QED
        BY <2>1, <2>2, <3>3, <3>4, <3>5 DEF Pooling, Opened, Pooled
    <2>4. CASE Defaults \subseteq job.snap.rules
      <3>1. Goto("worker", "rules") /\ UNCHANGED <<job, az>>
        BY <1>5, <2>4 DEF ensureSyncDefaultRules
      <3>2. pc'["worker"] = "rules"
        BY <1>0, <3>1 DEF Goto
      <3> QED
        BY <2>1, <2>2, <3>1, <3>2 DEF Pooling, Opened, Pooled
    <2> QED
      BY <2>3, <2>4
  <1> QED
    BY <1>1, <1>2, <1>3, <1>4, <1>5

\* The rest of ensureSync exchanges the members of the pool and the open groups.
LEMMA PoolGroups ==
    ASSUME TypeInv, OnlySynced, Pooling, AlwaysPublic, Calm', ~Fault,
           \/ syncRules
           \/ \E n \in Nodes : \/ detachNetworkInterfacesAndLoadBalancer(n)
                               \/ attachNetworkInterfacesAndLoadBalancer(n)
           \/ syncBackendPoolsDone \/ syncSecurityGroupRules
    PROVE  Pooling'
  <1> USE Typed
  <1>0. "worker" \in Threads
    BY DEF Threads
  <1>1. CASE syncRules
    <2>1. pc["worker"] = "rules" /\ UNCHANGED open /\ job.snap \in Balancer
      BY <1>1 DEF syncRules, Answered
    <2>2. az # Nil /\ job.snap.nics = az.nics /\ Opened \subseteq az.nics /\ job.snap.conf
      BY <2>1 DEF Pooling, Opened, Answered, Pooled
    <2>3. RulesAsked
      BY <1>1, CalmRules
    <2>4. job'.snap \in Balancer /\ job'.snap.nics = az.nics /\ job'.snap.conf
      <3>1. /\ job'.snap = [job.snap EXCEPT !.rules = makeUpRules(job.snap.rules, job.data)]
            /\ job.data \in SUBSET Rules
        BY <2>3 DEF RulesAsked, Job
      <3>2. makeUpRules(job.snap.rules, job.data) \in SUBSET (Defaults \cup Rules)
        BY <2>1, <3>1, BalancerFields DEF makeUpRules
      <3>3. job'.snap \in Balancer
        BY <2>1, <3>1, <3>2, BalancerWith
      <3> QED
        BY <2>1, <2>2, <3>1, <3>3 DEF Balancer
    <2>5. az' # Nil /\ az'.nics = az.nics
      BY <2>2, <2>3, <2>4, StoredNics DEF RulesAsked
    <2>6. job'.obj = job.obj
      BY <1>1, MiddleStep DEF Middle
    <2>7. Detachs' = Detachs /\ Attachs' = Attachs /\ job'.todo = Detachs \cup Attachs
      BY <2>2, <2>3, <2>4, <2>6 DEF Detachs, Attachs, RulesAsked
    <2>8. Swapping'
      BY <2>1, <2>2, <2>4, <2>5, <2>7 DEF Swapping, Opened
    <2> QED
      BY <2>3, <2>5, <2>8 DEF Pooling, Opened, RulesAsked
  <1>2. ASSUME NEW n \in Nodes,
               \/ detachNetworkInterfacesAndLoadBalancer(n)
               \/ attachNetworkInterfacesAndLoadBalancer(n)
        PROVE  Pooling'
    <2>1. PoolChanged(n)
      BY <1>2, CalmPool DEF Pooling, Opened
    <2>2. UNCHANGED open /\ job'.obj = job.obj
      <3>1. UNCHANGED open
        BY <1>2 DEF detachNetworkInterfacesAndLoadBalancer, attachNetworkInterfacesAndLoadBalancer
      <3> QED
        BY <1>2, <3>1, MiddleStep DEF Middle
    <2>3. Swapping
      BY <2>1 DEF PoolChanged, Pooling, Opened
    <2>4. Detachs' = Detachs /\ Attachs' = Attachs /\ Detachs \cap Attachs = {}
      BY <2>1, <2>2 DEF PoolChanged, Detachs, Attachs
    <2>5. job'.todo = job.todo \ {n} /\ job'.snap = job.snap
      BY <2>1 DEF PoolChanged
    <2>6. az'.nics = (job.snap.nics \ (Detachs \ job'.todo)) \cup (Attachs \ job'.todo)
      <3>1. az.nics = (job.snap.nics \ (Detachs \ job.todo)) \cup (Attachs \ job.todo)
        BY <2>3 DEF Swapping, Opened
      <3>2. CASE n \in job.todo \cap Detachs /\ az'.nics = az.nics \ {n}
        BY <2>4, <2>5, <3>1, <3>2
      <3>3. CASE /\ job.todo \cap Detachs = {} /\ n \in job.todo
                 /\ az'.nics = az.nics \cup {n}
        <4>1. n \in Attachs
          BY <2>3, <3>3 DEF Swapping, Opened
        <4> QED
          BY <2>4, <2>5, <3>1, <3>3, <4>1
      <3> QED
        BY <2>1, <3>2, <3>3 DEF PoolChanged
    <2>7. Swapping'
      BY <2>2, <2>3, <2>4, <2>5, <2>6 DEF Swapping, Opened
    <2> QED
      BY <2>1, <2>7 DEF Pooling, Opened, PoolChanged
  <1>3. CASE syncBackendPoolsDone
    <2>1. /\ pc["worker"] = "pool" /\ job.todo = {} /\ UNCHANGED <<az, open>>
          /\ job.obj \in Object /\ job.snap \in Balancer
      BY <1>3 DEF syncBackendPoolsDone, Syncing, Answered
    <2>2. usePublicAddress(job.obj)
      BY <2>1, PublicSpec DEF OnlySynced, Syncing, usePublicAddress
    <2>3. /\ pc'["worker"] = "groups"
          /\ job' = [job EXCEPT !.todo = Detachs \cup job.obj.spec.nodes,
                                !.want = Defaults \cup job.data]
      BY <1>0, <1>3, <2>2 DEF syncBackendPoolsDone, Goto
    <2>4. /\ job'.obj = job.obj /\ job'.snap = job.snap
          /\ job'.todo = Detachs \cup job.obj.spec.nodes
      BY <2>3 DEF Job
    <2>5. Swapping /\ az # Nil
      BY <2>1 DEF Pooling, Answered
    <2>6. az.nics = job.obj.spec.nodes
      BY <2>1, <2>5 DEF Swapping, Detachs, Attachs
    <2>7. Detachs' = Detachs /\ Opened' = Opened
      BY <2>1, <2>4 DEF Detachs, Opened
    <2>8. Closing'
      BY <2>1, <2>4, <2>5, <2>6, <2>7 DEF Closing, Swapping, Detachs
    <2> QED
      BY <2>1, <2>3, <2>5, <2>8 DEF Pooling
  <1>4. ASSUME NEW n \in Nodes,
               deleteUselessSecurityRules(n) \/ ensureSyncRulesToSecurityGroups(n)
        PROVE  Pooling'
    <2>1. PICK ports \in SUBSET Ports : GroupStep(n, ports)
      BY <1>4, GroupStepTaken
    <2>2. /\ pc["worker"] = "groups" /\ UNCHANGED <<pc, az>>
          /\ open' = [open EXCEPT ![n] = ports]
          /\ job' = [job EXCEPT !.todo = job'.todo, !.want = job'.want]
          /\ job'.todo = job.todo \ {n}
          /\ \/ n \in job.todo \cap Detachs /\ ports = {}
             \/ job.todo \cap Detachs = {} /\ n \in job.todo
      BY <2>1 DEF GroupStep
    <2>3. job'.obj = job.obj /\ job'.snap = job.snap
      BY <2>2 DEF Job
    <2>4. Closing /\ az # Nil
      BY <2>2 DEF Pooling, Answered
    <2>5. Detachs' = Detachs
      BY <2>3 DEF Detachs
    <2>6. /\ n \notin Opened' \/ ports # {}
          /\ Opened' \subseteq Opened \cup {n}
      BY <2>2 DEF Opened, Openings
    <2>7. Closing'
      BY <2>2, <2>3, <2>4, <2>5, <2>6 DEF Closing
    <2> QED
      BY <2>2, <2>4, <2>7 DEF Pooling
  <1>5. CASE syncSecurityGroupRulesDone
    <2>1. /\ pc["worker"] = "groups" /\ UNCHANGED <<job, az, open>> /\ Goto("worker", "done")
          /\ job.todo = {}
      BY <1>5 DEF syncSecurityGroupRulesDone
    <2>2. Closing /\ az # Nil
      BY <2>1 DEF Pooling, Answered
    <2>3. Opened' = Opened /\ Opened \subseteq az.nics
      BY <2>1, <2>2 DEF Closing, Opened
    <2>4. pc'["worker"] = "done"
      BY <1>0, <2>1 DEF Goto
    <2> QED
      BY <2>1, <2>2, <2>3, <2>4 DEF Pooling, Pooled
  <1> QED
    BY <1>1, <1>2, <1>3, <1>4, <1>5 DEF syncSecurityGroupRules

LEMMA SyncGroups ==
    ASSUME TypeInv, GroupsInv, [Next]_vars, Plain',
           Middle \/ pathLoadBalancerName \/ updateCacheData \/ SyncFailed
    PROVE  (OnlySynced /\ Naming /\ Pooling)'
  <1> USE Typed
  <1>0. OnlySynced /\ Naming /\ Pooling /\ ~Fault /\ Calm' /\ AlwaysPublic
    BY PlainStep DEF GroupsInv, Plain
  <1>1. CASE Middle
    <2>1. /\ pc["worker"] \in Syncing /\ pc'["stopper"] = pc["stopper"]
          /\ job'.obj = job.obj /\ UNCHANGED <<store, l, past>>
      BY <1>1, MiddleStep
    <2>2. api.live /\ (pc["worker"] \in Answered => az # Nil)
      BY <1>0 DEF OnlySynced, Pooling, Opened
    <2>3. /\ UNCHANGED api
          /\ pc'["worker"] \in Syncing
          /\ pc["worker"] \in Answered => pc'["worker"] \in Answered \ {"name"}
          /\ pc["worker"] \notin Answered /\ pc'["worker"] \in Answered \ {"name"} =>
               job.obj.named
          /\ pc["worker"] \in {"updating", "get", "create"} \cup (Answered \ {"name"})
      BY <1>0, <1>1, <2>2, CalmMiddle
    <2>4. OnlySynced'
      BY <1>0, <2>1, <2>3 DEF OnlySynced
    <2>5. pc'["worker"] \in Answered \ {"name"} => job.obj.named
      BY <1>0, <2>3 DEF Naming
    <2>6. pc'["worker"] # "idle"
      BY <2>3 DEF Syncing
    <2>7. CASE \/ patchUpdating \/ getAzureLoadbalancer \/ createAzureLoadBalancer
               \/ ensureSyncDefaultAzureLBConfig \/ ensureSyncDefaultRules
      <3>1. /\ Pooling'
            /\ Pooled' = Pooled \/ Pooled' = {}
            /\ pc'["worker"] = "create" => ~job.obj.named \/ az' = Nil
        BY <1>0, <2>7, ConfigGroups
      <3>2. Naming'
        <4>1. l.lb = Nil => Pooled = {} \/ pc["worker"] \in Answered
          BY <1>0 DEF Naming
        <4>2. ~job.obj.named => Pooled = {}
          BY <1>0, <2>1 DEF Naming
        <4> QED
          BY <2>1, <2>3, <2>5, <2>6, <3>1, <4>1, <4>2 DEF Naming
      <3> QED
        BY <2>4, <3>1, <3>2
    <2>8. CASE \/ syncRules
               \/ \E n \in Nodes : \/ detachNetworkInterfacesAndLoadBalancer(n)
                                   \/ attachNetworkInterfacesAndLoadBalancer(n)
               \/ syncBackendPoolsDone \/ syncSecurityGroupRules
      <3>1. Pooling'
        BY <1>0, <2>8, PoolGroups
      <3>2. pc["worker"] \in {"rules", "pool", "groups"}
        BY <2>8 DEF syncRules, detachNetworkInterfacesAndLoadBalancer,
                    attachNetworkInterfacesAndLoadBalancer, syncBackendPoolsDone,
                    syncSecurityGroupRules, deleteUselessSecurityRules,
                    ensureSyncRulesToSecurityGroups, syncSecurityGroupRulesDone
      <3>3. pc'["worker"] \in Answered \ {"name"}
        BY <2>3, <3>2 DEF Answered
      <3>4. pc'["worker"] # "create"
        BY <3>3 DEF Answered
      <3>5. Naming'
        BY <2>1, <2>5, <2>6, <3>3, <3>4 DEF Naming
      <3> QED
        BY <2>4, <3>1, <3>5
    <2>9. CASE ReadError
      BY <1>0, <2>9 DEF ReadError
    <2> QED
      BY <1>1, <2>7, <2>8, <2>9 DEF Middle
  <1>2. CASE pathLoadBalancerName
    <2> DEFINE reserve == IF l.old = Nil THEN FALSE ELSE l.old.reserve
               o == [api EXCEPT !.spec.azure = TRUE, !.named = TRUE]
    <2>1. /\ pc["worker"] = "name" /\ job.obj \in Object
          /\ l' = Cached(TRUE, reserve) /\ job' = [job EXCEPT !.obj.named = TRUE]
          /\ UNCHANGED <<store, az, open, past>>
      BY <1>2 DEF pathLoadBalancerName, Syncing
    <2>2. /\ api.live /\ az # Nil /\ Opened \subseteq Pooled /\ job.snap.nics = az.nics
          /\ api.spec \in past.specs /\ job.obj.spec \in past.specs
      BY <1>0, <2>1 DEF OnlySynced, Pooling, Opened, Answered, Syncing
    <2>3. PICK out \in Outcomes :
            Patch(o, out) /\ Goto("worker", IF out.ok THEN "config" ELSE "fail")
      BY <1>2 DEF pathLoadBalancerName
    <2>4. o \in Object /\ (o.deleting <=> api.deleting) /\ o.spec = api.spec
      <3>1. [api.spec EXCEPT !.azure = TRUE] = api.spec
        BY <1>0, <2>2, PublicSpec
      <3> QED
        BY <3>1 DEF Object
    <2> HIDE DEF o
    <2>5. Put(o) /\ out.ok
      BY <1>0, <2>2, <2>3, CalmPatch
    <2>6. api'.live /\ api'.spec = api.spec
      <3>1. ~api.deleting
        BY PlainStep DEF Plain
      <3> QED
        BY <2>4, <2>5, <3>1, PutStep
    <2>7. pc'["worker"] = "config" /\ pc'["stopper"] = pc["stopper"]
      BY <2>3, <2>5 DEF Goto, Threads
    <2>8. /\ job'.obj.named /\ job'.obj.spec = job.obj.spec /\ job'.snap = job.snap
      BY <2>1 DEF Job, Object
    <2>9. OnlySynced'
      BY <1>0, <2>1, <2>2, <2>6, <2>7, <2>8 DEF OnlySynced, Syncing
    <2>10. Naming'
      BY <2>7, <2>8 DEF Naming, Answered
    <2>11. Pooling'
      BY <2>1, <2>2, <2>7, <2>8 DEF Pooling, Opened, Pooled
    <2> QED
      BY <2>9, <2>10, <2>11
  <1>3. CASE updateCacheData
    <2>1. /\ pc["worker"] = "done" /\ job.obj \in Object /\ Return(TRUE)
          /\ UNCHANGED <<store, az, open, past>>
          /\ l' = [old |-> [named |-> job.obj.named, reserve |-> job.obj.spec.reserve],
                   lb |-> ViewOf(job.obj), same |-> TRUE, ruleMap |-> job.data,
                   clean |-> l.clean]
      BY <1>3 DEF updateCacheData, Syncing
    <2>2. UNCHANGED api
      BY <1>3 DEF updateCacheData, PatchStatus
    <2>3. job.obj.named /\ Opened \subseteq Pooled
      BY <1>0, <2>1 DEF Naming, Pooling, Opened, Answered
    <2>4. l'.lb # Nil /\ l'.lb.named
      <3>1. ViewOf(job.obj) \in View
        BY <2>1, ObjectFields
      <3>2. ViewOf(job.obj) # Nil
        BY <3>1, NilAssumption
      <3> QED
        BY <2>1, <2>3, <3>2 DEF ViewOf
    <2>5. pc'["worker"] = "idle" /\ pc'["stopper"] = pc["stopper"]
      BY <2>1, ReturnType
    <2> QED
      BY <1>0, <2>1, <2>2, <2>3, <2>4, <2>5
         DEF OnlySynced, Naming, Pooling, Opened, Pooled, Syncing, Answered
  <1>4. CASE SyncFailed
    BY <1>0, <1>4 DEF SyncFailed, OnlySynced, Syncing
  <1> QED
    BY <1>1, <1>2, <1>3, <1>4

LEMMA OtherGroups ==
    ASSUME TypeInv, GroupsInv, [Next]_vars, Plain',
           \/ \E t \in Threads : CleanupStep(t)
           \/ Watch \/ Restart \/ Exit \/ Environment \/ UNCHANGED vars
    PROVE  (OnlySynced /\ Naming /\ Pooling)'
  <1> USE Typed
  <1>0. OnlySynced /\ Naming /\ Pooling /\ ~Crash /\ AlwaysPublic /\ ~api.deleting
    BY PlainStep DEF GroupsInv, Plain
  <1>1. pc["stopper"] = "off" /\ pc["worker"] \notin Cleaning /\ pc["worker"] # "down"
    BY <1>0 DEF OnlySynced, Syncing, Cleaning
  <1>2. CASE \E t \in Threads : CleanupStep(t)
    <2>1. PICK t \in Threads : pc[t] \in Cleaning
      BY <1>2 DEF CleanupStep, cleanupAzureLB, CleanupNil, cleanUpSecurityGroup,
             recoverDefaultAzureLoadBalancer, CleanupFailed, DeleteBalancer,
             patachFinalizersAndStatus, Cleaning
    <2> QED
      BY <1>1, <2>1 DEF Threads, Cleaning
  <1>3. CASE Restart \/ Exit \/ Kill \/ Stop
    BY <1>0, <1>1, <1>3 DEF Restart, Exit, Kill, Stop, Up
  <1>4. CASE \/ Watch \/ UNCHANGED vars
             \/ \E rules \in SUBSET Rules : WatchCM(rules)
    <2>1. UNCHANGED <<api, l, pc, job, az, open>> /\ (store' = store \/ store' = api)
      BY <1>4 DEF Watch, WatchCM, vars
    <2>2. past'.specs = past.specs
      BY <1>4 DEF Watch, WatchCM, vars, Past
    <2>3. OnlySynced'
      BY <1>0, <2>1, <2>2 DEF OnlySynced
    <2> QED
      BY <1>0, <2>1, <2>3
           DEF Naming, Pooling, Pooled, Swapping, Closing, Opened, Detachs, Attachs
  <1>5. CASE DeleteObject
    <2>1. Put([api EXCEPT !.deleting = TRUE]) /\ [api EXCEPT !.deleting = TRUE] \in Object
      BY <1>5 DEF DeleteObject, Object
    <2>2. api'.deleting
      BY <2>1 DEF Put, Object
    <2> QED
      BY <2>2 DEF Plain
  <1>6. ASSUME NEW s \in Specs, WriteSpec(s)
        PROVE  (OnlySynced /\ Naming /\ Pooling)'
    <2> DEFINE o == [api EXCEPT !.spec = s, !.named = @ /\ s.azure]
    <2>1. /\ Put(o) /\ UNCHANGED <<store, l, pc, job, az, open>>
          /\ past' = [past EXCEPT !.specs = @ \cup {s}, !.reverted = @ \/ ComesBack(s)]
      BY <1>6 DEF WriteSpec
    <2>2. past'.specs = past.specs \cup {s}
      BY <2>1 DEF Past
    <2>3. s \in LBSpec /\ (api.named /\ s.azure) \in BOOLEAN
      BY <1>6, AzureAssumption
    <2>4. o \in Object /\ (o.deleting <=> api.deleting) /\ o.spec = s
      BY <2>3 DEF Object
    <2> HIDE DEF o
    <2>5. api'.live /\ api'.spec = s
      BY <1>0, <2>1, <2>4, PutStep
    <2>6. OnlySynced'
      BY <1>0, <2>1, <2>2, <2>5 DEF OnlySynced
    <2> QED
      BY <1>0, <2>1, <2>6
           DEF Naming, Pooling, Pooled, Swapping, Closing, Opened, Detachs, Attachs
  <1> QED
    BY <1>2, <1>3, <1>4, <1>5, <1>6 DEF Environment

LEMMA GroupsInvariant == Spec => []GroupsInv
  <1>1. Init => GroupsInv
    <2> SUFFICES ASSUME Init PROVE OnlySynced /\ Naming /\ Pooling
      BY DEF GroupsInv
    <2>1. pc["worker"] = "idle" /\ pc["stopper"] = "off" /\ l.lb = Nil /\ Opened = {}
      BY DEF Init, Threads, NewProvider, Opened
    <2>2. store = api /\ api.live /\ ~api.deleting /\ api.spec = FirstSpec
      BY DEF Init
    <2>3. past.specs = {FirstSpec}
      BY DEF Init
    <2>4. Pooled = {}
      BY DEF Init, Pooled, Bare
    <2> QED
      BY <2>1, <2>2, <2>3, <2>4 DEF OnlySynced, Naming, Pooling, Opened, Syncing, Answered
  <1>2. TypeInv /\ GroupsInv /\ [Next]_vars => GroupsInv'
    <2> SUFFICES ASSUME TypeInv, GroupsInv, [Next]_vars, Plain'
                 PROVE  (OnlySynced /\ Naming /\ Pooling)'
      BY DEF GroupsInv
    <2>1. CASE Sync
      BY <2>1, OnUpdateGroups, SyncGroups DEF Sync, Middle
    <2>2. CASE ~Sync
      BY <2>2, OtherGroups DEF Next
    <2> QED
      BY <2>1, <2>2
  <1> QED
    BY <1>1, <1>2, TypeInvariant, PTL DEF Spec

\* At rest only members of the pool have their security group open, for any number of
\* nodes and of exchanges of them, wherever a new exchange arrives during the last
\* sync: as long as the frontend is public, no call fails and nobody stops the process.
THEOREM GroupsClosedCorrect == Spec => []GroupsClosed
  <1>1. GroupsInv => GroupsClosed
    BY DEF GroupsInv, Plain, Pooling, Opened, GroupsClosed, Quiet, Wanted
  <1> QED
    BY <1>1, GroupsInvariant, PTL
=============================================================================
