----------------------------- MODULE AzureProofs -----------------------------
(* Proofs about Azure, for all constants.                                   *)
EXTENDS Azure, TLAPS

-----------------------------------------------------------------------------
(* Type correctness                                                         *)

Syncing == {"check", "updating", "get", "create", "name", "config", "defaults", "rules", "pool",
            "groups", "done"}
Answered == {"name", "config", "defaults", "rules", "pool", "groups", "done"}
Cleaning == {"cleanup", "sg", "recover", "delete", "release", "cleanfail"}

\* The steps of a thread.
StepsOf(t) == IF t = "worker" THEN {"down", "idle", "fail"} \cup Syncing \cup Cleaning
              ELSE {"off", "exit"} \cup Cleaning

\* OnUpdate has its object while it syncs it, and Azure's answer once there is one;
\* oldAzureProvider is part of l.lb only when there is an l.lb.
Working ==
    /\ DOMAIN pc = Threads /\ pc = [t \in Threads |-> pc[t]]
    /\ pc["worker"] \in Syncing => job.obj \in Object
    /\ pc["worker"] \in Answered => job.snap \in Balancer
    /\ l.same => l.lb \in View

TypeInv == TypeOK /\ Working

LEMMA PcType ==
    ASSUME TypeInv
    PROVE  pc["worker"] \in StepsOf("worker") /\ pc["stopper"] \in StepsOf("stopper")
  BY DEF TypeInv, TypeOK, StepsOf, Syncing, Cleaning

\* Going to a step of its own, a thread leaves the other one where it is.
LEMMA GotoType ==
    ASSUME TypeInv, NEW t \in Threads, NEW step \in StepsOf(t), Goto(t, step)
    PROVE  /\ pc' = [u \in Threads |-> pc'[u]] /\ DOMAIN pc' = Threads
           /\ pc'["worker"] = IF t = "worker" THEN step ELSE pc["worker"]
           /\ pc'["stopper"] = IF t = "stopper" THEN step ELSE pc["stopper"]
           /\ pc'["worker"] \in StepsOf("worker")
           /\ pc'["stopper"] \in StepsOf("stopper")
  <1>1. pc["worker"] \in StepsOf("worker") /\ pc["stopper"] \in StepsOf("stopper")
    BY PcType
  <1>2. pc' = [u \in Threads |-> IF u = t THEN step ELSE pc[u]]
    BY DEF Goto, TypeInv, Working
  <1> HIDE DEF StepsOf
  <1> QED
    BY <1>1, <1>2 DEF Threads

\* The fields of an object.
LEMMA ObjectFields ==
    ASSUME NEW o \in Object
    PROVE  /\ o.live \in BOOLEAN /\ o.named \in BOOLEAN /\ o.deleting \in BOOLEAN
           /\ o.fin \in BOOLEAN /\ o.blank \in BOOLEAN /\ o.spec \in LBSpec
           /\ o.spec.azure \in BOOLEAN /\ o.spec.reserve \in BOOLEAN /\ o.spec.front \in Fronts
           /\ o.spec.nodes \in SUBSET Nodes
           /\ ViewOf(o) \in View
  BY DEF Object, LBSpec, ViewOf, View

\* The bounds are kept by whatever uses them up.
LEMMA UsedType ==
    ASSUME used \in Used, Change \/ Fault \/ Crash \/ UNCHANGED used
    PROVE  used' \in Used
  BY AzureAssumption DEF Change, Fault, Crash, MayFail, Used

LEMMA ChargeType ==
    ASSUME used \in Used, NEW out, Charge(out)
    PROVE  used' \in Used
  BY UsedType DEF Charge

LEMMA PutType ==
    ASSUME NEW o \in Object, Put(o)
    PROVE  api' \in Object /\ event' \in BOOLEAN
  <1>1. api' \in Object
    BY DEF Put, Object
  <1>2. event' \in BOOLEAN
    BY DEF Put
  <1> QED
    BY <1>1, <1>2

LEMMA PatchType ==
    ASSUME TypeInv, NEW o \in Object, NEW out, Patch(o, out)
    PROVE  api' \in Object /\ event' \in BOOLEAN /\ used' \in Used
  <1>1. used \in Used /\ api \in Object /\ event \in BOOLEAN
    BY DEF TypeInv, TypeOK
  <1>2. used' \in Used
    BY <1>1, ChargeType DEF Patch
  <1>3. api' \in Object /\ event' \in BOOLEAN
    BY <1>1, PutType DEF Patch
  <1> QED
    BY <1>2, <1>3

LEMMA PatchStatusType ==
    ASSUME TypeInv, NEW out \in Outcomes, PatchStatus(out)
    PROVE  api' \in Object /\ event' \in BOOLEAN /\ used' \in Used
  <1>1. used \in Used /\ api \in Object /\ event \in BOOLEAN
    BY DEF TypeInv, TypeOK
  <1>2. used' \in Used
    BY <1>1, ChargeType DEF PatchStatus
  <1>3. api' \in Object
    BY <1>1 DEF PatchStatus
  <1>4. event' \in BOOLEAN
    BY <1>1 DEF PatchStatus
  <1> QED
    BY <1>2, <1>3, <1>4

LEMMA ReturnedType ==
    ASSUME queue \in Work, NEW pending \in BOOLEAN, NEW ok \in BOOLEAN
    PROVE  Returned(pending, ok) \in Work
  BY AzureAssumption DEF Returned, Work

\* What is empty has its type.
LEMMA EmptyType ==
    /\ NoJob \in Job /\ NoArg \in Arg /\ NoWork \in Work /\ NewProvider \in Memory
    /\ [NoWork EXCEPT !.pending = TRUE] \in Work
    /\ [t \in Threads |-> NoArg] \in [Threads -> Arg]
  <1>1. 0 \in 0..MaxRetries
    BY AzureAssumption
  <1>2. NoWork \in Work /\ [NoWork EXCEPT !.pending = TRUE] \in Work
    BY <1>1 DEF NoWork, Work
  <1>3. NoJob \in Job
    BY DEF NoJob, Job
  <1>4. NoArg \in Arg
    BY DEF NoArg, Arg
  <1>5. NewProvider \in Memory
    BY DEF NewProvider, Memory
  <1> QED
    BY <1>2, <1>3, <1>4, <1>5

LEMMA CachedType ==
    ASSUME TypeInv, NEW named \in BOOLEAN, NEW reserve \in BOOLEAN
    PROVE  /\ Cached(named, reserve) \in Memory
           /\ Cached(named, reserve).same => Cached(named, reserve).lb \in View
           /\ Cached(named, reserve).old = [named |-> named, reserve |-> reserve]
           /\ Cached(named, reserve).clean <=> l.clean
           /\ Cached(named, reserve).same <=> l.same
  <1>1. l \in Memory /\ (l.same => l.lb \in View)
    BY DEF TypeInv, TypeOK, Working
  <1> DEFINE lb == IF l.same THEN [l.lb EXCEPT !.named = named, !.spec.reserve = reserve] ELSE l.lb
  <1>2. lb \in View \cup {Nil} /\ (l.same => lb \in View)
    <2>1. CASE l.same
      <3>1. l.lb.spec \in LBSpec
        BY <1>1, <2>1 DEF View
      <3>2. [l.lb.spec EXCEPT !.reserve = reserve] \in LBSpec
        BY <3>1 DEF LBSpec
      <3> QED
        BY <1>1, <2>1, <3>2 DEF View
    <2>2. CASE ~l.same
      BY <1>1, <2>2 DEF Memory
    <2> QED
      BY <2>1, <2>2
  <1> HIDE DEF lb
  <1> DEFINE old == [named |-> named, reserve |-> reserve]
  <1>3. old \in Provider \cup {Nil}
    BY DEF Provider
  <1>4. Cached(named, reserve) = [l EXCEPT !.old = old, !.lb = lb]
    BY DEF Cached, lb
  <1> HIDE DEF old
  <1>5. /\ Cached(named, reserve) \in Memory
        /\ Cached(named, reserve).old = old
        /\ Cached(named, reserve).lb = lb
        /\ Cached(named, reserve).clean = l.clean
        /\ Cached(named, reserve).same = l.same
    BY <1>1, <1>2, <1>3, <1>4 DEF Memory
  <1> QED
    BY <1>2, <1>5 DEF old

LEMMA ToldType ==
    ASSUME past \in Past, NEW o \in Object, Told(o)
    PROVE  past' \in Past
  BY ObjectFields DEF Told, Past

\* A balancer that is stored, and one with another pool, is one.
LEMMA StoredType ==
    ASSUME TypeInv, NEW b \in Balancer
    PROVE  Stored(b) \in Balancer
  BY DEF TypeInv, TypeOK, Stored, Balancer

LEMMA BalancerFields ==
    ASSUME NEW b \in Balancer
    PROVE  /\ b.front \in Fronts /\ b.conf \in BOOLEAN /\ b.nics \in SUBSET Nodes
           /\ b.rules \in SUBSET (Defaults \cup Rules)
           /\ b = [front |-> b.front, conf |-> b.conf, rules |-> b.rules, nics |-> b.nics]
  BY DEF Balancer

\* A balancer is changed to a balancer.
LEMMA BalancerWith ==
    ASSUME NEW b \in Balancer
    PROVE  /\ \A front \in Fronts :
                [b EXCEPT !.front = front, !.conf = TRUE, !.rules = {}] \in Balancer
           /\ \A rules \in SUBSET (Defaults \cup Rules) : [b EXCEPT !.rules = rules] \in Balancer
           /\ \A nics \in SUBSET Nodes : [b EXCEPT !.nics = nics] \in Balancer
  BY DEF Balancer

LEMMA BareType == \A front \in Fronts : Bare(front) \in Balancer
  BY DEF Bare, Balancer

LEMMA Typed ==
    ASSUME TypeInv
    PROVE  /\ api \in Object /\ event \in BOOLEAN /\ store \in Object /\ cm \in SUBSET Rules
           /\ queue \in Work /\ l \in Memory /\ job \in Job /\ arg \in [Threads -> Arg]
           /\ az \in Balancer \cup {Nil} /\ open \in Openings /\ used \in Used /\ past \in Past
           /\ pc = [t \in Threads |-> pc[t]] /\ DOMAIN pc = Threads
           /\ pc["worker"] \in Syncing => job.obj \in Object
           /\ pc["worker"] \in Answered => job.snap \in Balancer
           /\ l.same => l.lb \in View
  BY DEF TypeInv, TypeOK, Working

\* What has to be seen to in a step.
LEMMA TypeStep ==
    ASSUME api' \in Object, event' \in BOOLEAN, store' \in Object, cm' \in SUBSET Rules,
           queue' \in Work, l' \in Memory, job' \in Job, arg' \in [Threads -> Arg],
           az' \in Balancer \cup {Nil}, open' \in Openings, used' \in Used, past' \in Past,
           pc' = [t \in Threads |-> pc'[t]], DOMAIN pc' = Threads,
           pc'["worker"] \in StepsOf("worker"), pc'["stopper"] \in StepsOf("stopper"),
           pc'["worker"] \in Syncing => job'.obj \in Object,
           pc'["worker"] \in Answered => job'.snap \in Balancer,
           l'.same => l'.lb \in View
    PROVE  TypeInv'
  <1>1. Working'
    BY DEF Working
  <1>2. TypeOK'
    BY DEF TypeOK, StepsOf, Syncing, Cleaning
  <1> QED
    BY <1>1, <1>2 DEF TypeInv

\* A step of the environment, or of another process, that leaves the threads alone.
LEMMA OutsideType ==
    ASSUME TypeInv, UNCHANGED <<l, pc, job, arg>>,
           api' \in Object, event' \in BOOLEAN, store' \in Object, cm' \in SUBSET Rules,
           queue' \in Work, az' \in Balancer \cup {Nil}, open' \in Openings, used' \in Used,
           past' \in Past
    PROVE  TypeInv'
  <1>1. pc["worker"] \in StepsOf("worker") /\ pc["stopper"] \in StepsOf("stopper")
    BY PcType
  <1> HIDE DEF StepsOf
  <1> QED
    BY <1>1, Typed, TypeStep

\* The end of the process.
LEMMA DownType ==
    ASSUME TypeInv, Down, UNCHANGED <<api, event, az, open, past>>, used' \in Used
    PROVE  TypeInv'
  <1>1. /\ pc' = [t \in Threads |-> IF t = "worker" THEN "down" ELSE "off"]
        /\ l' = NewProvider /\ job' = NoJob /\ arg' = [t \in Threads |-> NoArg]
        /\ queue' = NoWork /\ UNCHANGED <<store, cm>>
    BY DEF Down
  <1>2. /\ pc'["worker"] = "down" /\ pc'["stopper"] = "off"
        /\ DOMAIN pc' = Threads /\ pc' = [t \in Threads |-> pc'[t]]
    BY <1>1 DEF Threads
  <1>3. "down" \in StepsOf("worker") /\ "off" \in StepsOf("stopper") /\ "down" \notin Syncing
        /\ "down" \notin Answered
    BY DEF StepsOf, Syncing, Answered
  <1>4. ~l'.same
    BY <1>1 DEF NewProvider
  <1> QED
    BY <1>1, <1>2, <1>3, <1>4, Typed, EmptyType, TypeStep

\* OnUpdate returns.
LEMMA ReturnType ==
    ASSUME TypeInv, NEW ok \in BOOLEAN, Return(ok)
    PROVE  /\ queue' \in Work /\ job' \in Job /\ arg' \in [Threads -> Arg]
           /\ pc'["worker"] = "idle" /\ pc'["stopper"] = pc["stopper"]
           /\ pc' = [t \in Threads |-> pc'[t]] /\ DOMAIN pc' = Threads
           /\ pc'["worker"] \in StepsOf("worker") /\ pc'["stopper"] \in StepsOf("stopper")
           /\ pc'["worker"] \notin Syncing /\ pc'["worker"] \notin Answered
           /\ arg'["stopper"] = arg["stopper"]
  <1>1. "idle" \in StepsOf("worker") /\ "worker" \in Threads /\ "stopper" \in Threads
    BY DEF StepsOf, Threads
  <1>2. Goto("worker", "idle")
    BY DEF Return
  <1>3. /\ pc'["worker"] = "idle" /\ pc'["stopper"] = pc["stopper"]
        /\ pc' = [t \in Threads |-> pc'[t]] /\ DOMAIN pc' = Threads
        /\ pc'["worker"] \in StepsOf("worker") /\ pc'["stopper"] \in StepsOf("stopper")
    BY <1>1, <1>2, GotoType
  <1>4. pc'["worker"] \notin Syncing /\ pc'["worker"] \notin Answered
    BY <1>3 DEF Syncing, Answered
  <1>5. queue \in Work /\ queue.pending \in BOOLEAN
    BY Typed DEF Work
  <1>6. queue' \in Work
    BY <1>5, ReturnedType DEF Return
  <1>7. job' \in Job /\ arg' \in [Threads -> Arg] /\ arg'["stopper"] = arg["stopper"]
    BY <1>1, Typed, EmptyType DEF Return
  <1> QED
    BY <1>3, <1>4, <1>6, <1>7

\* The worker goes on, with a job of its type.
LEMMA GoOnType ==
    ASSUME TypeInv, NEW step \in StepsOf("worker"), Goto("worker", step),
           UNCHANGED <<store, cm, queue, arg, open, past>>,
           l' \in Memory, l'.same => l'.lb \in View,
           api' \in Object, event' \in BOOLEAN, used' \in Used, az' \in Balancer \cup {Nil},
           job' \in Job, step \in Syncing => job'.obj \in Object,
           step \in Answered => job'.snap \in Balancer
    PROVE  TypeInv'
  <1>1. /\ pc'["worker"] = step
        /\ pc' = [t \in Threads |-> pc'[t]] /\ DOMAIN pc' = Threads
        /\ pc'["worker"] \in StepsOf("worker") /\ pc'["stopper"] \in StepsOf("stopper")
    BY GotoType DEF Threads
  <1> HIDE DEF StepsOf
  <1> QED
    BY <1>1, Typed, TypeStep

\* One more thread in the cleanup, with arguments of their type.
LEMMA CleaningType ==
    ASSUME TypeInv, NEW t \in Threads, NEW step \in Cleaning, Goto(t, step),
           arg' \in [Threads -> Arg], UNCHANGED <<store, cm, job>>, queue' \in Work,
           open' \in Openings, past' \in Past, l' \in Memory, l'.same => l'.lb \in View,
           api' \in Object, event' \in BOOLEAN, used' \in Used, az' \in Balancer \cup {Nil}
    PROVE  TypeInv'
  <1>1. step \in StepsOf(t) /\ step \notin Syncing /\ step \notin Answered
    BY DEF StepsOf, Cleaning, Syncing, Answered
  <1>2. /\ pc'["worker"] = IF t = "worker" THEN step ELSE pc["worker"]
        /\ pc' = [u \in Threads |-> pc'[u]] /\ DOMAIN pc' = Threads
        /\ pc'["worker"] \in StepsOf("worker") /\ pc'["stopper"] \in StepsOf("stopper")
    BY <1>1, GotoType
  <1> QED
    BY <1>1, <1>2, Typed, TypeStep

\* A thread returns from the cleanup.
LEMMA CleanupReturnType ==
    ASSUME TypeInv, NEW t \in Threads, NEW ok \in BOOLEAN, CleanupReturn(t, ok),
           UNCHANGED <<store, cm, past>>, open' \in Openings, l' \in Memory,
           l'.same => l'.lb \in View, api' \in Object, event' \in BOOLEAN, used' \in Used,
           az' \in Balancer \cup {Nil}
    PROVE  TypeInv'
  <1>1. CASE t = "worker"
    BY <1>1, ReturnType, Typed, TypeStep DEF CleanupReturn
  <1>2. CASE t = "stopper"
    <2>1. /\ Goto("stopper", "exit") /\ arg' = [arg EXCEPT !["stopper"] = NoArg]
          /\ UNCHANGED <<queue, job>>
      BY <1>2 DEF CleanupReturn
    <2>2. "exit" \in StepsOf("stopper") /\ "stopper" \in Threads
      BY DEF StepsOf, Threads
    <2>3. /\ pc'["worker"] = pc["worker"]
          /\ pc' = [u \in Threads |-> pc'[u]] /\ DOMAIN pc' = Threads
          /\ pc'["worker"] \in StepsOf("worker") /\ pc'["stopper"] \in StepsOf("stopper")
      BY <2>1, <2>2, GotoType
    <2>4. arg' \in [Threads -> Arg]
      BY <2>1, <2>2, Typed, EmptyType
    <2> QED
      BY <2>1, <2>3, <2>4, Typed, TypeStep
  <1> QED
    BY <1>1, <1>2 DEF Threads

\* OnUpdate up to its decision keeps the types.
LEMMA OnUpdateType ==
    ASSUME TypeInv,
           \/ syncLoadBalancer \/ OnUpdateRemoved \/ OnUpdateNil \/ OnUpdateWanted
           \/ OnUpdateNoConfigMap \/ CheckExists
    PROVE  TypeInv'
  <1> USE Typed
  <1>0. /\ "worker" \in Threads /\ Nil \notin Object
        /\ store.live \in BOOLEAN /\ (~store.live) \in BOOLEAN
        /\ store.named \in BOOLEAN /\ store.spec.reserve \in BOOLEAN /\ ViewOf(store) \in View
    BY ObjectFields, NilAssumption DEF Threads
  <1>1. [queue EXCEPT !.pending = FALSE] \in Work
    BY DEF Work
  <1>2. /\ Cached(store.named, store.spec.reserve) \in Memory
        /\ Cached(store.named, store.spec.reserve).same =>
             Cached(store.named, store.spec.reserve).lb \in View
    BY <1>0, CachedType
  <1>3. CASE syncLoadBalancer
    <2>1. queue' \in Work
      BY <1>0, <1>3, ReturnedType DEF syncLoadBalancer
    <2> QED
      BY <1>3, <2>1, OutsideType DEF syncLoadBalancer
  <1>4. CASE OnUpdateRemoved
    <2>1. PICK lb \in {Nil, store}, deleteLB \in BOOLEAN :
            Cleanup("worker", lb, deleteLB) /\ (UNCHANGED past \/ Told(store))
      BY <1>4 DEF OnUpdateRemoved
    <2>2. Goto("worker", "cleanup") /\ "cleanup" \in Cleaning
      BY <2>1 DEF Cleanup, Cleaning
    <2>3. [lb |-> lb, deleteLB |-> deleteLB, full |-> FALSE] \in Arg
      BY DEF Arg
    <2>4. arg' \in [Threads -> Arg]
      BY <2>1, <2>3 DEF Cleanup
    <2>5. past' \in Past
      BY <2>1, ToldType
    <2>6. l' = [l EXCEPT !.lb = ViewOf(store), !.same = FALSE]
      BY <1>4 DEF OnUpdateRemoved
    <2>7. l' \in Memory /\ ~l'.same
      BY <1>0, <2>6 DEF Memory
    <2>8. /\ queue' = [queue EXCEPT !.pending = FALSE]
          /\ UNCHANGED <<api, event, store, cm, job, az, open, used>>
      BY <1>4 DEF OnUpdateRemoved
    <2> QED
      BY <1>0, <1>1, <2>2, <2>4, <2>5, <2>7, <2>8, CleaningType
  <1>5. CASE OnUpdateNil
    BY <1>5, DownType DEF OnUpdateNil, Panic
  <1>6. CASE OnUpdateWanted
    <2>1. /\ l' = Cached(store.named, store.spec.reserve) /\ Told(store)
          /\ UNCHANGED <<api, event, store, cm, arg, az, open, used>>
      BY <1>6 DEF OnUpdateWanted
    <2>2. past' \in Past
      BY <2>1, ToldType
    <2>3. CASE isLBChanged(store) \/ l.ruleMap # cm
      <3>1. /\ Goto("worker", "check") /\ job' = [NoJob EXCEPT !.obj = store, !.data = cm]
            /\ queue' = [queue EXCEPT !.pending = FALSE]
        BY <1>6, <2>3 DEF OnUpdateWanted
      <3>2. job' = [obj |-> store, data |-> cm, snap |-> Nil, todo |-> {}, want |-> {}]
        BY <3>1 DEF NoJob
      <3>3. job' \in Job /\ job'.obj = store
        BY <3>2 DEF Job
      <3>4. "check" \in StepsOf("worker") /\ "check" \notin Answered
        BY DEF StepsOf, Syncing, Answered
      <3>5. /\ pc'["worker"] = "check"
            /\ pc' = [u \in Threads |-> pc'[u]] /\ DOMAIN pc' = Threads
            /\ pc'["worker"] \in StepsOf("worker") /\ pc'["stopper"] \in StepsOf("stopper")
        BY <1>0, <3>1, <3>4, GotoType
      <3> QED
        BY <1>1, <1>2, <2>1, <2>2, <3>1, <3>3, <3>4, <3>5, TypeStep
    <2>4. CASE ~(isLBChanged(store) \/ l.ruleMap # cm)
      <3>1. queue' = Returned(FALSE, TRUE) /\ UNCHANGED <<pc, job>>
        BY <1>6, <2>4 DEF OnUpdateWanted
      <3>2. queue' \in Work
        BY <3>1, ReturnedType
      <3>3. pc["worker"] \in StepsOf("worker") /\ pc["stopper"] \in StepsOf("stopper")
        BY PcType
      <3> QED
        BY <1>2, <2>1, <2>2, <3>1, <3>2, <3>3, TypeStep
    <2> QED
      BY <2>3, <2>4
  <1>7. CASE OnUpdateNoConfigMap
    <2>1. /\ l' = Cached(store.named, store.spec.reserve) /\ Told(store)
          /\ Fault /\ queue' = Returned(FALSE, FALSE)
          /\ UNCHANGED <<api, event, store, cm, pc, job, arg, az, open>>
      BY <1>7 DEF OnUpdateNoConfigMap
    <2>2. past' \in Past /\ used' \in Used /\ queue' \in Work
      BY <2>1, ToldType, UsedType, ReturnedType
    <2>3. pc["worker"] \in StepsOf("worker") /\ pc["stopper"] \in StepsOf("stopper")
      BY PcType
    <2> QED
      BY <1>2, <2>1, <2>2, <2>3, TypeStep
  <1>8. CASE CheckExists
    <2>1. /\ pc["worker"] = "check"
          /\ UNCHANGED <<api, event, store, cm, queue, l, job, az, open, used, past>>
      BY <1>8 DEF CheckExists
    <2>2. job.obj \in Object
      BY <2>1 DEF Syncing
    <2>3. CASE store.live
      <3>1. Goto("worker", "updating") /\ UNCHANGED arg
        BY <1>8, <2>3 DEF CheckExists
      <3>2. "updating" \in StepsOf("worker") /\ "updating" \notin Answered
        BY DEF StepsOf, Syncing, Answered
      <3> QED
        BY <2>1, <2>2, <3>1, <3>2, GoOnType
    <2>4. CASE ~store.live
      <3>1. /\ Goto("worker", "cleanup") /\ "cleanup" \in Cleaning
            /\ arg' = [arg EXCEPT !["worker"] =
                         [lb |-> job.obj, deleteLB |-> TRUE, full |-> FALSE]]
        BY <1>8, <2>4 DEF CheckExists, Cleanup, Cleaning
      <3>2. [lb |-> job.obj, deleteLB |-> TRUE, full |-> FALSE] \in Arg
        BY <2>2 DEF Arg
      <3>3. arg' \in [Threads -> Arg]
        BY <3>1, <3>2
      <3> QED
        BY <1>0, <2>1, <3>1, <3>3, CleaningType
    <2> QED
      BY <2>3, <2>4
  <1> QED
    BY <1>3, <1>4, <1>5, <1>6, <1>7, <1>8

\* The steps the worker can go to.
LEMMA WorkerSteps ==
    /\ Syncing \subseteq StepsOf("worker") /\ "fail" \in StepsOf("worker")
    /\ "fail" \notin Syncing /\ "fail" \notin Answered
    /\ Answered \subseteq Syncing
    /\ {"updating", "get", "create"} \subseteq Syncing
    /\ "worker" \in Threads /\ "stopper" \in Threads
  BY DEF StepsOf, Syncing, Answered, Threads

\* A call that creates or changes the balancer keeps the types.
LEMMA CreateOrUpdateType ==
    ASSUME TypeInv, NEW b \in Balancer, NEW next \in Answered, CreateOrUpdate(b, next),
           pc["worker"] \in Syncing,
           UNCHANGED <<api, event, store, cm, queue, l, arg, open, past>>
    PROVE  TypeInv'
  <1> USE Typed
  <1>1. PICK out \in Outcomes :
          /\ Charge(out)
          /\ az' = IF out.done THEN Stored(b) ELSE az
          /\ job' = IF out.ok THEN [job EXCEPT !.snap = Stored(b)] ELSE job
          /\ Goto("worker", IF out.ok THEN next ELSE "fail")
    BY DEF CreateOrUpdate
  <1>2. used' \in Used /\ Stored(b) \in Balancer
    BY <1>1, ChargeType, StoredType
  <1>3. az' \in Balancer \cup {Nil}
    BY <1>1, <1>2
  <1>4. CASE out.ok
    <2>1. /\ job' \in Job /\ job'.obj = job.obj /\ job'.snap = Stored(b)
      BY <1>1, <1>2, <1>4 DEF Job
    <2> QED
      BY <1>1, <1>2, <1>3, <1>4, <2>1, WorkerSteps, GoOnType
  <1>5. CASE ~out.ok
    BY <1>1, <1>2, <1>3, <1>5, WorkerSteps, GoOnType
  <1> QED
    BY <1>4, <1>5

\* ensureSync up to the rules keeps the types.
LEMMA ConfigType ==
    ASSUME TypeInv,
           \/ patchUpdating \/ ReadError \/ getAzureLoadbalancer \/ createAzureLoadBalancer
           \/ pathLoadBalancerName \/ ensureSyncDefaultAzureLBConfig \/ ensureSyncDefaultRules
    PROVE  TypeInv'
  <1> USE Typed, WorkerSteps
  <1>1. CASE patchUpdating
    <2>1. PICK out \in Outcomes :
            PatchStatus(out) /\ Goto("worker", IF out.ok THEN "get" ELSE "fail")
      BY <1>1 DEF patchUpdating
    <2>2. /\ pc["worker"] = "updating"
          /\ UNCHANGED <<store, cm, queue, l, job, arg, az, open, past>>
      BY <1>1 DEF patchUpdating
    <2>3. api' \in Object /\ event' \in BOOLEAN /\ used' \in Used
      BY <2>1, PatchStatusType
    <2>4. "get" \notin Answered
      BY DEF Answered
    <2>5. CASE out.ok
      BY <2>1, <2>2, <2>3, <2>4, <2>5, GoOnType
    <2>6. CASE ~out.ok
      BY <2>1, <2>2, <2>3, <2>6, GoOnType
    <2> QED
      BY <2>5, <2>6
  <1>2. CASE ReadError
    <2>1. /\ Fault /\ Goto("worker", "fail")
          /\ UNCHANGED <<api, event, store, cm, queue, l, job, arg, az, open, past>>
      BY <1>2 DEF ReadError
    <2>2. used' \in Used
      BY <2>1, UsedType
    <2> QED
      BY <2>1, <2>2, GoOnType
  <1>3. CASE getAzureLoadbalancer
    <2>1. /\ pc["worker"] = "get" /\ job.obj \in Object
          /\ UNCHANGED <<api, event, store, cm, queue, l, arg, az, open, used, past>>
      BY <1>3 DEF getAzureLoadbalancer
    <2>2. CASE job.obj.named /\ az # Nil
      <3>1. Goto("worker", "config") /\ job' = [job EXCEPT !.snap = az]
        BY <1>3, <2>2 DEF getAzureLoadbalancer
      <3>2. job' \in Job /\ job'.obj = job.obj /\ job'.snap = az /\ az \in Balancer
        BY <2>2, <3>1 DEF Job
      <3>3. "config" \in Answered
        BY DEF Answered
      <3> QED
        BY <2>1, <3>1, <3>2, <3>3, GoOnType
    <2>3. CASE ~(job.obj.named /\ az # Nil)
      <3>1. Goto("worker", "create") /\ UNCHANGED job /\ "create" \notin Answered
        BY <1>3, <2>3 DEF getAzureLoadbalancer, Answered
      <3> QED
        BY <2>1, <3>1, GoOnType
    <2> QED
      BY <2>2, <2>3
  <1>4. CASE createAzureLoadBalancer
    <2>1. /\ pc["worker"] = "create" /\ job.obj \in Object
          /\ CreateOrUpdate(Bare(job.obj.spec.front), IF job.obj.named THEN "config" ELSE "name")
          /\ UNCHANGED <<api, event, store, cm, queue, l, arg, open, past>>
      BY <1>4 DEF createAzureLoadBalancer
    <2>2. Bare(job.obj.spec.front) \in Balancer
      BY <2>1, ObjectFields, BareType
    <2>3. (IF job.obj.named THEN "config" ELSE "name") \in Answered
      BY DEF Answered
    <2> QED
      BY <2>1, <2>2, <2>3, CreateOrUpdateType
  <1>5. CASE pathLoadBalancerName
    <2> DEFINE reserve == IF l.old = Nil THEN FALSE ELSE l.old.reserve
               o == [api EXCEPT !.spec.azure = TRUE, !.named = TRUE]
    <2>1. /\ pc["worker"] = "name" /\ job.obj \in Object /\ job.snap \in Balancer
          /\ l' = Cached(TRUE, reserve) /\ job' = [job EXCEPT !.obj.named = TRUE]
          /\ UNCHANGED <<store, cm, queue, arg, az, open, past>>
      BY <1>5 DEF pathLoadBalancerName, Syncing, Answered
    <2>2. PICK out \in Outcomes :
            Patch(o, out) /\ Goto("worker", IF out.ok THEN "config" ELSE "fail")
      BY <1>5 DEF pathLoadBalancerName
    <2>3. reserve \in BOOLEAN
      BY DEF Memory, Provider
    <2> HIDE DEF reserve
    <2>4. l' \in Memory /\ (l'.same => l'.lb \in View)
      BY <2>1, <2>3, CachedType
    <2>5. o \in Object
      <3>1. [api.spec EXCEPT !.azure = TRUE] \in LBSpec
        BY ObjectFields DEF LBSpec
      <3> QED
        BY <3>1 DEF Object
    <2> HIDE DEF o
    <2>6. api' \in Object /\ event' \in BOOLEAN /\ used' \in Used
      BY <2>2, <2>5, PatchType
    <2>7. [job.obj EXCEPT !.named = TRUE] \in Object
      BY <2>1 DEF Object
    <2>8. job' \in Job /\ job'.obj \in Object /\ job'.snap = job.snap
      BY <2>1, <2>7 DEF Job
    <2>9. "config" \in Answered
      BY DEF Answered
    <2>10. CASE out.ok
      BY <2>1, <2>2, <2>4, <2>6, <2>8, <2>9, <2>10, GoOnType
    <2>11. CASE ~out.ok
      BY <2>1, <2>2, <2>4, <2>6, <2>8, <2>11, GoOnType
    <2> QED
      BY <2>10, <2>11
  <1>6. CASE ensureSyncDefaultAzureLBConfig
    <2>1. /\ pc["worker"] \in Syncing /\ job.obj \in Object /\ job.snap \in Balancer
          /\ UNCHANGED <<api, event, store, cm, queue, l, arg, open, past>>
      BY <1>6 DEF ensureSyncDefaultAzureLBConfig, Syncing, Answered
    <2>2. "defaults" \in Answered
      BY DEF Answered
    <2>3. CASE ConfigChanged
      <3> DEFINE b == [job.snap EXCEPT !.front = job.obj.spec.front, !.conf = TRUE, !.rules = {}]
      <3>1. CreateOrUpdate(b, "defaults")
        BY <1>6, <2>3 DEF ensureSyncDefaultAzureLBConfig
      <3>2. b \in Balancer
        <4>1. job.obj.spec.front \in Fronts
          BY <2>1, ObjectFields
        <4> QED
          BY <2>1, <4>1, BalancerWith
      <3> HIDE DEF b
      <3> QED
        BY <2>1, <2>2, <3>1, <3>2, CreateOrUpdateType
    <2>4. CASE ~ConfigChanged
      <3>1. Goto("worker", "defaults") /\ UNCHANGED <<job, az, used>>
        BY <1>6, <2>4 DEF ensureSyncDefaultAzureLBConfig
      <3> QED
        BY <2>1, <2>2, <3>1, GoOnType
    <2> QED
      BY <2>3, <2>4
  <1>7. CASE ensureSyncDefaultRules
    <2>1. /\ pc["worker"] \in Syncing /\ job.obj \in Object /\ job.snap \in Balancer
          /\ UNCHANGED <<api, event, store, cm, queue, l, arg, open, past>>
      BY <1>7 DEF ensureSyncDefaultRules, Syncing, Answered
    <2>2. "rules" \in Answered
      BY DEF Answered
    <2>3. CASE Defaults \subseteq job.snap.rules
      <3>1. Goto("worker", "rules") /\ UNCHANGED <<job, az, used>>
        BY <1>7, <2>3 DEF ensureSyncDefaultRules
      <3> QED
        BY <2>1, <2>2, <3>1, GoOnType
    <2>4. CASE ~(Defaults \subseteq job.snap.rules)
      <3> DEFINE b == [job.snap EXCEPT !.rules = @ \cup Defaults]
      <3>1. CreateOrUpdate(b, "rules")
        BY <1>7, <2>4 DEF ensureSyncDefaultRules
      <3>2. b \in Balancer
        <4>1. job.snap.rules \subseteq Defaults \cup Rules
          BY <2>1, BalancerFields
        <4>2. job.snap.rules \cup Defaults \in SUBSET (Defaults \cup Rules)
          BY <4>1
        <4> QED
          BY <2>1, <4>2, BalancerWith
      <3> HIDE DEF b
      <3> QED
        BY <2>1, <2>2, <3>1, <3>2, CreateOrUpdateType
    <2> QED
      BY <2>3, <2>4
  <1> QED
    BY <1>1, <1>2, <1>3, <1>4, <1>5, <1>6, <1>7

\* A worker that stays where it is goes there.
LEMMA StayType ==
    ASSUME TypeInv, UNCHANGED pc
    PROVE  Goto("worker", pc["worker"])
  BY Typed DEF Goto, Threads

\* One network interface more, or fewer.
LEMMA NicType ==
    ASSUME TypeInv, NEW out \in Outcomes, NEW nics \in SUBSET Nodes, NEW n, Charge(out),
           pc["worker"] = "pool", az # Nil,
           IF out.done THEN SetPool(nics) ELSE UNCHANGED az,
           job' = IF out.ok THEN [job EXCEPT !.todo = @ \ {n}] ELSE job,
           IF out.ok THEN UNCHANGED pc ELSE Goto("worker", "fail"),
           UNCHANGED <<api, event, store, cm, queue, l, arg, open, past>>
    PROVE  TypeInv'
  <1> USE Typed, WorkerSteps
  <1>1. "pool" \in Answered /\ "pool" \in Syncing
    BY DEF Answered, Syncing
  <1>2. used' \in Used
    BY ChargeType
  <1>3. az' \in Balancer \cup {Nil}
    <2>1. CASE out.done
      <3>1. az' = [az EXCEPT !.nics = nics] /\ az \in Balancer
        BY <2>1 DEF SetPool
      <3> QED
        BY <3>1, BalancerWith
    <2>2. CASE ~out.done
      BY <2>2
    <2> QED
      BY <2>1, <2>2
  <1>4. CASE out.ok
    <2>1. Goto("worker", "pool")
      BY <1>4, StayType
    <2>2. job' \in Job /\ job'.obj = job.obj /\ job'.snap = job.snap
      BY <1>4 DEF Job
    <2> QED
      BY <1>1, <1>2, <1>3, <1>4, <2>1, <2>2, GoOnType
  <1>5. CASE ~out.ok
    BY <1>2, <1>3, <1>5, GoOnType
  <1> QED
    BY <1>4, <1>5

\* The rest of ensureSync keeps the types.
LEMMA PoolType ==
    ASSUME TypeInv,
           \/ syncRules
           \/ \E n \in Nodes : \/ detachNetworkInterfacesAndLoadBalancer(n)
                               \/ attachNetworkInterfacesAndLoadBalancer(n)
           \/ syncBackendPoolsDone
    PROVE  TypeInv'
  <1> USE Typed, WorkerSteps
  <1>0. /\ "pool" \in Answered /\ "pool" \in Syncing /\ "groups" \in Answered
        /\ "done" \in Answered /\ "rules" \in Answered
    BY DEF Answered, Syncing
  <1>1. CASE syncRules
    <2> DEFINE new == makeUpRules(job.snap.rules, job.data)
               todo == Detachs \cup Attachs
               b == [job.snap EXCEPT !.rules = new]
    <2>1. /\ pc["worker"] \in Syncing /\ job.obj \in Object /\ job.snap \in Balancer
          /\ UNCHANGED <<api, event, store, cm, queue, l, arg, open, past>>
          /\ job' = [job EXCEPT !.snap.rules = new, !.todo = todo]
      BY <1>0, <1>1 DEF syncRules
    <2>2. new \in SUBSET (Defaults \cup Rules)
      <3>1. job.snap.rules \in SUBSET (Defaults \cup Rules) /\ job.data \in SUBSET Rules
        BY <2>1, BalancerFields DEF Job
      <3> QED
        BY <3>1 DEF makeUpRules
    <2>3. todo \in SUBSET Nodes
      <3>1. job.snap.nics \in SUBSET Nodes /\ job.obj.spec.nodes \in SUBSET Nodes
        BY <2>1, BalancerFields, ObjectFields
      <3> QED
        BY <3>1 DEF Detachs, Attachs
    <2> HIDE DEF todo
    <2>4. b \in Balancer
      BY <2>1, <2>2, BalancerWith
    <2>5. Stored(b) \in Balancer
      BY <2>4, StoredType
    <2>6. /\ job' \in Job /\ job'.obj = job.obj /\ job'.snap = b
      <3>1. job' = [obj |-> job.obj, data |-> job.data, snap |-> b, todo |-> todo,
                    want |-> job.want]
        BY <2>1 DEF Job
      <3> HIDE DEF b
      <3> QED
        BY <2>3, <2>4, <3>1 DEF Job
    <2>7. CASE new = job.snap.rules
      <3>1. Goto("worker", "pool") /\ UNCHANGED <<az, used>>
        BY <1>1, <2>7 DEF syncRules
      <3> HIDE DEF b
      <3> QED
        BY <1>0, <2>1, <2>4, <2>6, <3>1, GoOnType
    <2>8. CASE new # job.snap.rules
      <3>1. PICK out \in Outcomes :
              /\ Charge(out)
              /\ az' = IF out.done THEN Stored(b) ELSE az
              /\ Goto("worker", IF out.ok THEN "pool" ELSE "fail")
        BY <1>1, <2>8 DEF syncRules
      <3> HIDE DEF b
      <3>2. used' \in Used /\ az' \in Balancer \cup {Nil}
        BY <2>5, <3>1, ChargeType
      <3>3. CASE out.ok
        BY <1>0, <2>1, <2>4, <2>6, <3>1, <3>2, <3>3, GoOnType
      <3>4. CASE ~out.ok
        BY <1>0, <2>1, <2>4, <2>6, <3>1, <3>2, <3>4, GoOnType
      <3> QED
        BY <3>3, <3>4
    <2> QED
      BY <2>7, <2>8
  <1>2. ASSUME NEW n \in Nodes, detachNetworkInterfacesAndLoadBalancer(n)
        PROVE  TypeInv'
    <2>1. /\ pc["worker"] = "pool"
          /\ UNCHANGED <<api, event, store, cm, queue, l, arg, open, past>>
      BY <1>2 DEF detachNetworkInterfacesAndLoadBalancer
    <2>2. CASE az = Nil
      <3>1. job' = [job EXCEPT !.todo = @ \ {n}] /\ UNCHANGED <<pc, az, used>>
        BY <1>2, <2>2 DEF detachNetworkInterfacesAndLoadBalancer
      <3>2. job' \in Job /\ job'.obj = job.obj /\ job'.snap = job.snap
        BY <3>1 DEF Job
      <3>3. Goto("worker", "pool")
        BY <2>1, <3>1, StayType
      <3> QED
        BY <1>0, <2>1, <3>1, <3>2, <3>3, GoOnType
    <2>3. CASE az # Nil
      <3>1. PICK out \in Outcomes :
              /\ Charge(out)
              /\ IF out.done THEN SetPool(az.nics \ {n}) ELSE UNCHANGED az
              /\ job' = IF out.ok THEN [job EXCEPT !.todo = @ \ {n}] ELSE job
              /\ IF out.ok THEN UNCHANGED pc ELSE Goto("worker", "fail")
        BY <1>2, <2>3 DEF detachNetworkInterfacesAndLoadBalancer
      <3>2. az.nics \in SUBSET Nodes
        BY <2>3, BalancerFields
      <3>3. az.nics \ {n} \in SUBSET Nodes
        BY <3>2
      <3> QED
        BY <2>1, <2>3, <3>1, <3>3, NicType
    <2> QED
      BY <2>2, <2>3
  <1>3. ASSUME NEW n \in Nodes, attachNetworkInterfacesAndLoadBalancer(n)
        PROVE  TypeInv'
    <2>1. /\ pc["worker"] = "pool"
          /\ UNCHANGED <<api, event, store, cm, queue, l, arg, open, past>>
      BY <1>3 DEF attachNetworkInterfacesAndLoadBalancer
    <2>2. CASE az = Nil
      <3>1. Goto("worker", "fail") /\ UNCHANGED <<job, az, used>>
        BY <1>3, <2>2 DEF attachNetworkInterfacesAndLoadBalancer
      <3> QED
        BY <2>1, <3>1, GoOnType
    <2>3. CASE az # Nil
      <3>1. PICK out \in Outcomes :
              /\ Charge(out)
              /\ IF out.done THEN SetPool(az.nics \cup {n}) ELSE UNCHANGED az
              /\ job' = IF out.ok THEN [job EXCEPT !.todo = @ \ {n}] ELSE job
              /\ IF out.ok THEN UNCHANGED pc ELSE Goto("worker", "fail")
        BY <1>3, <2>3 DEF attachNetworkInterfacesAndLoadBalancer
      <3>2. az.nics \in SUBSET Nodes
        BY <2>3, BalancerFields
      <3>3. az.nics \cup {n} \in SUBSET Nodes
        BY <1>3, <3>2
      <3> QED
        BY <2>1, <2>3, <3>1, <3>3, NicType
    <2> QED
      BY <2>2, <2>3
  <1>4. CASE syncBackendPoolsDone
    <2>1. /\ pc["worker"] = "pool"
          /\ UNCHANGED <<api, event, store, cm, queue, l, arg, az, open, used, past>>
      BY <1>4 DEF syncBackendPoolsDone
    <2>2. CASE usePublicAddress(job.obj)
      <3> DEFINE todo == Detachs \cup job.obj.spec.nodes
                 want == Defaults \cup job.data
      <3>1. job' = [job EXCEPT !.todo = todo, !.want = want] /\ Goto("worker", "groups")
        BY <1>4, <2>2 DEF syncBackendPoolsDone
      <3>2. todo \in SUBSET Nodes
        <4>1. job.snap.nics \in SUBSET Nodes /\ job.obj.spec.nodes \in SUBSET Nodes
          BY <1>0, <2>1, BalancerFields, ObjectFields
        <4> QED
          BY <4>1 DEF Detachs
      <3>3. want \in SUBSET Ports
        BY DEF Job, Ports
      <3> HIDE DEF todo, want
      <3>4. job' \in Job /\ job'.obj = job.obj /\ job'.snap = job.snap
        BY <3>1, <3>2, <3>3 DEF Job
      <3> QED
        BY <1>0, <2>1, <3>1, <3>4, GoOnType
    <2>3. CASE ~usePublicAddress(job.obj)
      <3>1. UNCHANGED job /\ Goto("worker", "done")
        BY <1>4, <2>3 DEF syncBackendPoolsDone
      <3> QED
        BY <1>0, <2>1, <3>1, GoOnType
    <2> QED
      BY <2>2, <2>3
  <1> QED
    BY <1>1, <1>2, <1>3, <1>4

\* The group of node n is to open ports, and no others: that is done or fails.
GroupStep(n, ports) ==
    /\ pc["worker"] = "groups"
    /\ UNCHANGED <<api, event, store, cm, queue, l, arg, az, past>>
    /\ \/ n \in job.todo \cap Detachs /\ ports = {}
       \/ job.todo \cap Detachs = {} /\ n \in job.todo /\ ports = job.want
    /\ open' = open \/ open' = [open EXCEPT ![n] = ports]
    /\ \/ pc'["worker"] = "fail" /\ Goto("worker", "fail") /\ Fault /\ UNCHANGED job
       \/ /\ UNCHANGED pc /\ used' \in Used
          /\ open' = [open EXCEPT ![n] = ports]
          /\ job' = [job EXCEPT !.todo = job'.todo, !.want = job'.want]
          /\ job'.todo = job.todo \ {n} /\ job'.want \subseteq job.want
          /\ job.todo \cap Detachs # {} => job'.want = job.want

LEMMA GroupStepTaken ==
    ASSUME TypeInv, NEW n \in Nodes,
           deleteUselessSecurityRules(n) \/ ensureSyncRulesToSecurityGroups(n)
    PROVE  \E ports \in SUBSET Ports : GroupStep(n, ports)
  <1> USE Typed
  <1>0. "worker" \in Threads /\ job.want \in SUBSET Ports
    BY DEF Threads, Job
  <1>1. CASE deleteUselessSecurityRules(n)
    <2>1. PICK out \in Outcomes :
            /\ Charge(out)
            /\ open' = IF out.done THEN [open EXCEPT ![n] = {}] ELSE open
            /\ job' = IF out.ok THEN [job EXCEPT !.todo = @ \ {n}] ELSE job
            /\ IF out.ok THEN UNCHANGED pc ELSE Goto("worker", "fail")
      BY <1>1 DEF deleteUselessSecurityRules
    <2>2. /\ pc["worker"] = "groups" /\ n \in job.todo \cap Detachs
          /\ UNCHANGED <<api, event, store, cm, queue, l, arg, az, past>>
      BY <1>1 DEF deleteUselessSecurityRules
    <2>3. CASE out.ok
      <3>1. out.done /\ used' \in Used
        BY <2>1, <2>3, ChargeType DEF Outcomes
      <3>2. /\ job' = [job EXCEPT !.todo = job'.todo, !.want = job'.want]
            /\ job'.todo = job.todo \ {n} /\ job'.want = job.want
        BY <2>1, <2>3 DEF Job
      <3>3. GroupStep(n, {})
        BY <2>1, <2>2, <2>3, <3>1, <3>2 DEF GroupStep
      <3> QED
        BY <3>3
    <2>4. CASE ~out.ok
      <3>1. Fault /\ pc'["worker"] = "fail"
        BY <1>0, <2>1, <2>4 DEF Charge, Goto
      <3>2. GroupStep(n, {})
        BY <2>1, <2>2, <2>4, <3>1 DEF GroupStep
      <3> QED
        BY <3>2
    <2> QED
      BY <2>3, <2>4
  <1>2. CASE ensureSyncRulesToSecurityGroups(n)
    <2>1. PICK out \in Outcomes :
            /\ Charge(out)
            /\ open' = IF out.done THEN [open EXCEPT ![n] = job.want] ELSE open
            /\ job' = IF out.ok
                      THEN [job EXCEPT !.todo = @ \ {n}, !.want = @ \ open[n]] ELSE job
            /\ IF out.ok THEN UNCHANGED pc ELSE Goto("worker", "fail")
      BY <1>2 DEF ensureSyncRulesToSecurityGroups
    <2>2. /\ pc["worker"] = "groups" /\ job.todo \cap Detachs = {} /\ n \in job.todo
          /\ UNCHANGED <<api, event, store, cm, queue, l, arg, az, past>>
      BY <1>2 DEF ensureSyncRulesToSecurityGroups
    <2>3. CASE out.ok
      <3>1. out.done /\ used' \in Used
        BY <2>1, <2>3, ChargeType DEF Outcomes
      <3>2. /\ job' = [job EXCEPT !.todo = job'.todo, !.want = job'.want]
            /\ job'.todo = job.todo \ {n} /\ job'.want = job.want \ open[n]
        BY <2>1, <2>3 DEF Job
      <3>3. GroupStep(n, job.want)
        BY <2>1, <2>2, <2>3, <3>1, <3>2 DEF GroupStep
      <3> QED
        BY <1>0, <3>3
    <2>4. CASE ~out.ok
      <3>1. Fault /\ pc'["worker"] = "fail"
        BY <1>0, <2>1, <2>4 DEF Charge, Goto
      <3>2. GroupStep(n, job.want)
        BY <2>1, <2>2, <2>4, <3>1 DEF GroupStep
      <3> QED
        BY <1>0, <3>2
    <2> QED
      BY <2>3, <2>4
  <1> QED
    BY <1>1, <1>2

\* The security groups keep the types.
LEMMA GroupType ==
    ASSUME TypeInv, syncSecurityGroupRules
    PROVE  TypeInv'
  <1> USE Typed, WorkerSteps
  <1>0. "groups" \in Answered /\ "groups" \in Syncing /\ "done" \in Answered
        /\ "fail" \notin Syncing /\ "fail" \notin Answered
    BY DEF Answered, Syncing
  <1>1. ASSUME NEW n \in Nodes,
               deleteUselessSecurityRules(n) \/ ensureSyncRulesToSecurityGroups(n)
        PROVE  TypeInv'
    <2>1. PICK ports \in SUBSET Ports : GroupStep(n, ports)
      BY <1>1, GroupStepTaken
    <2>2. open' \in Openings
      BY <2>1 DEF GroupStep, Openings
    <2>3. /\ pc["worker"] = "groups"
          /\ UNCHANGED <<api, event, store, cm, queue, l, arg, az, past>>
      BY <2>1 DEF GroupStep
    <2>4. CASE Goto("worker", "fail") /\ Fault /\ UNCHANGED job
      <3>1. used' \in Used
        BY <2>4, UsedType
      <3>2. /\ pc' = [u \in Threads |-> pc'[u]] /\ DOMAIN pc' = Threads
            /\ pc'["worker"] = "fail"
            /\ pc'["worker"] \in StepsOf("worker") /\ pc'["stopper"] \in StepsOf("stopper")
        BY <2>4, GotoType DEF Threads
      <3> QED
        BY <1>0, <2>2, <2>3, <2>4, <3>1, <3>2, TypeStep
    <2>5. CASE /\ UNCHANGED pc /\ used' \in Used
               /\ job' = [job EXCEPT !.todo = job'.todo, !.want = job'.want]
               /\ job'.todo = job.todo \ {n} /\ job'.want \subseteq job.want
      <3>1. job'.todo \in SUBSET Nodes /\ job'.want \in SUBSET Ports
        BY <2>5 DEF Job
      <3> DEFINE todo == job'.todo
                 want == job'.want
      <3>2. job' = [job EXCEPT !.todo = todo, !.want = want]
        BY <2>5
      <3> HIDE DEF todo, want
      <3>3. job' \in Job /\ job'.obj = job.obj /\ job'.snap = job.snap
        BY <3>1, <3>2 DEF Job, todo, want
      <3>4. pc["worker"] \in StepsOf("worker") /\ pc["stopper"] \in StepsOf("stopper")
        BY PcType
      <3> QED
        BY <1>0, <2>2, <2>3, <2>5, <3>3, <3>4, TypeStep
    <2> QED
      BY <2>1, <2>4, <2>5 DEF GroupStep
  <1>2. CASE syncSecurityGroupRulesDone
    <2>1. /\ pc["worker"] = "groups" /\ Goto("worker", "done")
          /\ UNCHANGED <<api, event, store, cm, queue, l, job, arg, az, open, used, past>>
      BY <1>2 DEF syncSecurityGroupRulesDone
    <2> QED
      BY <1>0, <2>1, GoOnType
  <1> QED
    BY <1>1, <1>2 DEF syncSecurityGroupRules

\* The end of a sync keeps the types.
LEMMA DoneType ==
    ASSUME TypeInv, updateCacheData \/ SyncFailed
    PROVE  TypeInv'
  <1> USE Typed
  <1>1. PICK out \in Outcomes : PatchStatus(out)
    BY DEF updateCacheData, SyncFailed
  <1>2. api' \in Object /\ event' \in BOOLEAN /\ used' \in Used
    BY <1>1, PatchStatusType
  <1>3. PICK ok \in BOOLEAN : Return(ok) /\ UNCHANGED <<store, cm, az, open, past>>
    BY DEF updateCacheData, SyncFailed
  <1>4. l' \in Memory /\ (l'.same => l'.lb \in View)
    <2>1. CASE updateCacheData
      <3>1. /\ job.obj \in Object
            /\ l' = [old |-> [named |-> job.obj.named, reserve |-> job.obj.spec.reserve],
                     lb |-> ViewOf(job.obj), same |-> TRUE, ruleMap |-> job.data,
                     clean |-> l.clean]
        BY <2>1 DEF updateCacheData, Syncing
      <3>2. /\ ViewOf(job.obj) \in View /\ job.data \in SUBSET Rules /\ l.clean \in BOOLEAN
            /\ [named |-> job.obj.named, reserve |-> job.obj.spec.reserve] \in Provider
        BY <3>1, ObjectFields DEF Job, Memory, Provider
      <3> QED
        BY <3>1, <3>2 DEF Memory
    <2>2. CASE SyncFailed
      BY <2>2 DEF SyncFailed
    <2> QED
      BY <2>1, <2>2
  <1> QED
    BY <1>2, <1>3, <1>4, ReturnType, TypeStep

\* The cleanup keeps the types.
LEMMA CleanupType ==
    ASSUME TypeInv, NEW t \in Threads, CleanupStep(t)
    PROVE  TypeInv'
  <1> USE Typed
  <1>0. /\ "sg" \in Cleaning /\ "recover" \in Cleaning /\ "delete" \in Cleaning
        /\ "release" \in Cleaning /\ "cleanfail" \in Cleaning
    BY DEF Cleaning
  <1>1. CASE cleanupAzureLB(t)
    <2>1. UNCHANGED <<api, event, store, cm, l, az, open, used, past>>
      BY <1>1 DEF cleanupAzureLB
    <2>2. CASE l.clean
      <3>1. CleanupReturn(t, TRUE)
        BY <1>1, <2>2 DEF cleanupAzureLB
      <3> QED
        BY <2>1, <3>1, CleanupReturnType
    <2>3. CASE ~l.clean
      <3>1. /\ Goto(t, IF l.old = Nil \/ ~l.old.named THEN "release" ELSE "sg")
            /\ arg' = [arg EXCEPT ![t].full = l.old # Nil /\ l.old.named]
            /\ UNCHANGED <<queue, job>>
        BY <1>1, <2>3 DEF cleanupAzureLB
      <3>2. (IF l.old = Nil \/ ~l.old.named THEN "release" ELSE "sg") \in Cleaning
        BY <1>0
      <3>3. (l.old # Nil /\ l.old.named) \in BOOLEAN
        OBVIOUS
      <3>4. [arg[t] EXCEPT !.full = l.old # Nil /\ l.old.named] \in Arg
        BY <3>3 DEF Arg
      <3>5. arg' \in [Threads -> Arg]
        BY <3>1, <3>4
      <3> QED
        BY <2>1, <3>1, <3>2, <3>5, CleaningType
    <2> QED
      BY <2>2, <2>3
  <1>2. CASE CleanupNil(t)
    BY <1>2, DownType DEF CleanupNil, Panic
  <1>3. CASE cleanUpSecurityGroup(t)
    <2>1. PICK closed \in SUBSET Pooled :
            /\ open' = [n \in Nodes |-> IF n \in closed THEN {} ELSE open[n]]
            /\ \/ /\ LET reserve == IF arg[t].lb # Nil
                                    THEN arg[t].lb.spec.reserve ELSE l.old.reserve
                      IN Goto(t, IF reserve THEN "recover" ELSE "delete")
                  /\ UNCHANGED <<queue, job, arg, used>>
               \/ Fault /\ CleanupReturn(t, FALSE)
      BY <1>3 DEF cleanUpSecurityGroup
    <2>2. UNCHANGED <<api, event, store, cm, l, az, past>> /\ open' \in Openings
      BY <1>3, <2>1 DEF cleanUpSecurityGroup, Openings
    <2>3. CASE Fault /\ CleanupReturn(t, FALSE)
      <3>1. used' \in Used
        BY <2>3, UsedType
      <3> QED
        BY <2>2, <2>3, <3>1, CleanupReturnType
    <2>4. CASE ~(Fault /\ CleanupReturn(t, FALSE))
      <3>1. PICK step \in Cleaning : Goto(t, step) /\ UNCHANGED <<queue, job, arg, used>>
        BY <1>0, <2>1, <2>4
      <3> QED
        BY <2>2, <3>1, CleaningType
    <2> QED
      BY <2>3, <2>4
  <1>4. CASE recoverDefaultAzureLoadBalancer(t)
    <2>1. UNCHANGED <<api, event, store, cm, queue, l, job, arg, open, past>>
      BY <1>4 DEF recoverDefaultAzureLoadBalancer
    <2>2. PICK step \in {"release", "cleanfail"} : Goto(t, step)
      BY <1>4 DEF recoverDefaultAzureLoadBalancer
    <2>3. used' \in Used
      <3>1. UNCHANGED used \/ Fault
        BY <1>4 DEF recoverDefaultAzureLoadBalancer
      <3> QED
        BY <3>1, UsedType
    <2>4. az' \in Balancer \cup {Nil}
      <3>1. CASE az' = IF az = Nil THEN Nil ELSE Bare(az.front)
        <4>1. CASE az = Nil
          BY <3>1, <4>1
        <4>2. CASE az # Nil
          <5>1. az.front \in Fronts
            BY <4>2, BalancerFields
          <5> QED
            BY <3>1, <4>2, <5>1, BareType
        <4> QED
          BY <4>1, <4>2
      <3>2. CASE az # Nil /\ \E detached \in SUBSET Pooled : SetPool(Pooled \ detached)
        <4>1. PICK detached \in SUBSET Pooled : SetPool(Pooled \ detached)
          BY <3>2
        <4>2. Pooled \in SUBSET Nodes
          BY <3>2, BalancerFields DEF Pooled
        <4>3. Pooled \ detached \in SUBSET Nodes
          BY <4>2
        <4>4. az' = [az EXCEPT !.nics = Pooled \ detached] /\ az \in Balancer
          BY <3>2, <4>1 DEF SetPool
        <4> QED
          BY <4>3, <4>4, BalancerWith
      <3>3. CASE az = Nil /\ UNCHANGED az
        BY <3>3
      <3> QED
        BY <1>4, <3>1, <3>2, <3>3 DEF recoverDefaultAzureLoadBalancer
    <2>5. step \in Cleaning
      BY <1>0
    <2> QED
      BY <2>1, <2>2, <2>3, <2>4, <2>5, CleaningType
  <1>5. CASE CleanupFailed(t)
    <2>1. PICK out \in Outcomes : PatchStatus(out)
      BY <1>5 DEF CleanupFailed
    <2>2. CleanupReturn(t, FALSE) /\ UNCHANGED <<store, cm, l, az, open, past>>
      BY <1>5 DEF CleanupFailed
    <2>3. api' \in Object /\ event' \in BOOLEAN /\ used' \in Used
      BY <2>1, PatchStatusType
    <2> QED
      BY <2>2, <2>3, CleanupReturnType
  <1>6. CASE DeleteBalancer(t)
    <2>1. PICK out \in [done : BOOLEAN, ok : BOOLEAN] :
            /\ Charge(out)
            /\ az' = IF out.done THEN Nil ELSE az
            /\ IF out.ok
               THEN Goto(t, "release") /\ UNCHANGED <<queue, job, arg>>
               ELSE CleanupReturn(t, FALSE)
      BY <1>6 DEF DeleteBalancer
    <2>2. UNCHANGED <<api, event, store, cm, l, open, past>>
      BY <1>6 DEF DeleteBalancer
    <2>3. used' \in Used /\ az' \in Balancer \cup {Nil}
      BY <2>1, ChargeType
    <2>4. CASE out.ok
      BY <1>0, <2>1, <2>2, <2>3, <2>4, CleaningType
    <2>5. CASE ~out.ok
      BY <2>1, <2>2, <2>3, <2>5, CleanupReturnType
    <2> QED
      BY <2>4, <2>5
  <1>7. CASE patachFinalizersAndStatus(t)
    <2> DEFINE o == [api EXCEPT !.fin = @ /\ ~DropsFinalizer(t),
                                !.blank = @ \/ ~arg[t].deleteLB]
    <2>1. PICK out \in Outcomes :
            /\ IF DropsFinalizer(t) \/ ~arg[t].deleteLB
               THEN Patch(o, out)
               ELSE out.done /\ out.ok /\ UNCHANGED <<api, event, used>>
            /\ l' = IF out.ok
                    THEN [l EXCEPT !.clean = TRUE, !.old = IF arg[t].full THEN Nil ELSE @,
                                   !.same = @ /\ ~arg[t].full]
                    ELSE l
            /\ CleanupReturn(t, out.ok)
      BY <1>7 DEF patachFinalizersAndStatus
    <2>2. UNCHANGED <<store, cm, az, open, past>>
      BY <1>7 DEF patachFinalizersAndStatus
    <2>3. o \in Object
      <3>1. (api.fin /\ ~DropsFinalizer(t)) \in BOOLEAN
            /\ (api.blank \/ ~arg[t].deleteLB) \in BOOLEAN
        OBVIOUS
      <3> QED
        BY <3>1 DEF Object
    <2> HIDE DEF o
    <2>4. api' \in Object /\ event' \in BOOLEAN /\ used' \in Used
      BY <2>1, <2>3, PatchType
    <2>5. l' \in Memory /\ (l'.same => l'.lb \in View)
      <3>1. CASE out.ok
        <4> DEFINE old == IF arg[t].full THEN Nil ELSE l.old
                   same == l.same /\ ~arg[t].full
        <4>1. /\ old \in Provider \cup {Nil}
              /\ same \in BOOLEAN /\ (same => l.same)
          BY DEF Memory
        <4>2. l' = [l EXCEPT !.clean = TRUE, !.old = old, !.same = same]
          BY <2>1, <3>1
        <4> HIDE DEF old, same
        <4> QED
          BY <4>1, <4>2 DEF Memory
      <3>2. CASE ~out.ok
        BY <2>1, <3>2
      <3> QED
        BY <3>1, <3>2
    <2>6. out.ok \in BOOLEAN
      BY DEF Outcomes
    <2> QED
      BY <2>1, <2>2, <2>4, <2>5, <2>6, CleanupReturnType
  <1> QED
    BY <1>1, <1>2, <1>3, <1>4, <1>5, <1>6, <1>7 DEF CleanupStep

\* Everything outside the worker keeps the types.
LEMMA EnvironmentType ==
    ASSUME TypeInv, Watch \/ Restart \/ Exit \/ Environment
    PROVE  TypeInv'
  <1> USE Typed
  <1>0. /\ [queue EXCEPT !.pending = TRUE] \in Work
        /\ "worker" \in Threads /\ "stopper" \in Threads
    BY DEF Work, Threads
  <1>1. ASSUME NEW s \in Specs, WriteSpec(s)
        PROVE  TypeInv'
    <2> DEFINE o == [api EXCEPT !.spec = s, !.named = @ /\ s.azure]
    <2>1. /\ Change /\ Put(o)
          /\ past' = [past EXCEPT !.specs = @ \cup {s}, !.reverted = @ \/ ComesBack(s)]
          /\ UNCHANGED <<store, cm, queue, l, pc, job, arg, az, open>>
      BY <1>1 DEF WriteSpec
    <2>2. o \in Object
      <3>1. s \in LBSpec /\ (api.named /\ s.azure) \in BOOLEAN
        BY <1>1, AzureAssumption
      <3> QED
        BY <3>1 DEF Object
    <2> HIDE DEF o
    <2>3. api' \in Object /\ event' \in BOOLEAN /\ used' \in Used
      BY <2>1, <2>2, PutType, UsedType
    <2>4. past' \in Past
      <3>1. (past.reverted \/ ComesBack(s)) \in BOOLEAN /\ past.specs \cup {s} \in SUBSET Specs
        BY <1>1 DEF Past
      <3> QED
        BY <2>1, <3>1 DEF Past
    <2> QED
      BY <2>1, <2>3, <2>4, OutsideType
  <1>2. CASE DeleteObject
    <2>1. /\ Change /\ Put([api EXCEPT !.deleting = TRUE])
          /\ UNCHANGED <<store, cm, queue, l, pc, job, arg, az, open, past>>
      BY <1>2 DEF DeleteObject
    <2>2. [api EXCEPT !.deleting = TRUE] \in Object
      BY DEF Object
    <2>3. api' \in Object /\ event' \in BOOLEAN /\ used' \in Used
      BY <2>1, <2>2, PutType, UsedType
    <2> QED
      BY <2>1, <2>3, OutsideType
  <1>3. ASSUME NEW rules \in SUBSET Rules, WatchCM(rules)
        PROVE  TypeInv'
    <2>1. /\ Change /\ cm' = rules /\ queue' = [queue EXCEPT !.pending = TRUE]
          /\ past' = [past EXCEPT !.cms = @ \cup {rules}, !.reverted = @ \/ rules \in past.cms]
          /\ UNCHANGED <<api, event, store, l, pc, job, arg, az, open>>
      BY <1>3 DEF WatchCM
    <2>2. used' \in Used
      BY <2>1, UsedType
    <2>3. past' \in Past
      <3>1. /\ (past.reverted \/ rules \in past.cms) \in BOOLEAN
            /\ past.cms \cup {rules} \in SUBSET SUBSET Rules
        BY <1>3 DEF Past
      <3> QED
        BY <2>1, <3>1 DEF Past
    <2> QED
      BY <1>0, <1>3, <2>1, <2>2, <2>3, OutsideType
  <1>4. CASE Kill
    <2>1. used' \in Used
      BY <1>4, UsedType DEF Kill
    <2> QED
      BY <1>4, <2>1, DownType DEF Kill
  <1>5. CASE Stop
    <2>1. /\ Crash /\ UNCHANGED <<api, event, store, cm, queue, l, job, az, open, past>>
      BY <1>5 DEF Stop
    <2>2. used' \in Used
      BY <2>1, UsedType
    <2>3. CASE store.live
      <3>1. Goto("stopper", "exit") /\ UNCHANGED arg /\ "exit" \in StepsOf("stopper")
        BY <1>5, <2>3 DEF Stop, StepsOf
      <3>2. /\ pc' = [u \in Threads |-> pc'[u]] /\ DOMAIN pc' = Threads
            /\ pc'["worker"] = pc["worker"]
            /\ pc'["worker"] \in StepsOf("worker") /\ pc'["stopper"] \in StepsOf("stopper")
        BY <1>0, <3>1, GotoType
      <3> QED
        BY <2>1, <2>2, <3>1, <3>2, TypeStep
    <2>4. CASE ~store.live
      <3>1. /\ Goto("stopper", "cleanup") /\ "cleanup" \in Cleaning
            /\ arg' = [arg EXCEPT !["stopper"] =
                         [lb |-> Nil, deleteLB |-> TRUE, full |-> FALSE]]
        BY <1>5, <2>4 DEF Stop, Cleanup, Cleaning
      <3>2. [lb |-> Nil, deleteLB |-> TRUE, full |-> FALSE] \in Arg
        BY DEF Arg
      <3>3. arg' \in [Threads -> Arg]
        BY <3>1, <3>2
      <3> QED
        BY <1>0, <2>1, <2>2, <3>1, <3>3, CleaningType
    <2> QED
      BY <2>3, <2>4
  <1>6. CASE Watch
    BY <1>0, <1>6, OutsideType DEF Watch
  <1>7. CASE Restart
    <2>1. /\ store' = api /\ event' = FALSE /\ queue' = [NoWork EXCEPT !.pending = TRUE]
          /\ Goto("worker", "idle") /\ "idle" \in StepsOf("worker")
          /\ "idle" \notin Syncing /\ "idle" \notin Answered
          /\ UNCHANGED <<api, cm, l, job, arg, az, open, used, past>>
      BY <1>7 DEF Restart, Goto, StepsOf, Syncing, Answered
    <2>2. /\ pc' = [u \in Threads |-> pc'[u]] /\ DOMAIN pc' = Threads
          /\ pc'["worker"] = "idle"
          /\ pc'["worker"] \in StepsOf("worker") /\ pc'["stopper"] \in StepsOf("stopper")
      BY <1>0, <2>1, GotoType
    <2> QED
      BY <2>1, <2>2, EmptyType, TypeStep
  <1>8. CASE Exit
    BY <1>8, DownType DEF Exit
  <1> QED
    BY <1>1, <1>2, <1>3, <1>4, <1>5, <1>6, <1>7, <1>8 DEF Environment

LEMMA TypeInit == Init => TypeInv
  <1> SUFFICES ASSUME Init PROVE TypeInv
    OBVIOUS
  <1>1. /\ pc = [t \in Threads |-> IF t = "worker" THEN "idle" ELSE "off"]
        /\ l = NewProvider /\ job = NoJob /\ arg = [t \in Threads |-> NoArg]
        /\ queue = [NoWork EXCEPT !.pending = TRUE] /\ store = api /\ cm = {} /\ event = FALSE
        /\ open = [n \in Nodes |-> {}] /\ az = IF api.named THEN Bare("private") ELSE Nil
        /\ used = [changes |-> 0, faults |-> 0, crashes |-> 0]
        /\ past = [reserve |-> FALSE, guarded |-> api.fin, specs |-> {FirstSpec}, cms |-> {{}},
                   reverted |-> FALSE, unnamed |-> FALSE, spent |-> FALSE]
    BY DEF Init
  <1>2. api \in Object
    <2>1. PICK named, fin \in BOOLEAN :
            api = [live |-> TRUE, spec |-> FirstSpec, named |-> named /\ FirstSpec.azure,
                   deleting |-> FALSE, fin |-> fin, blank |-> FALSE]
      BY DEF Init
    <2>2. FirstSpec \in LBSpec /\ (named /\ FirstSpec.azure) \in BOOLEAN
      BY AzureAssumption
    <2> QED
      BY <2>1, <2>2 DEF Object
  <1>3. 0 \in 0..MaxChanges /\ 0 \in 0..MaxFailures
    BY AzureAssumption
  <1>4. used \in Used
    BY <1>1, <1>3 DEF Used
  <1>5. past \in Past
    BY <1>1, <1>2, AzureAssumption, ObjectFields DEF Past
  <1>6. az \in Balancer \cup {Nil}
    BY <1>1, BareType DEF Fronts
  <1>7. pc["worker"] = "idle" /\ pc["stopper"] = "off" /\ open \in Openings
    BY <1>1 DEF Threads, Openings
  <1>8. TypeOK
    BY <1>1, <1>2, <1>4, <1>5, <1>6, <1>7, EmptyType DEF TypeOK
  <1>9. Working
    BY <1>1, <1>7 DEF Working, Syncing, Answered, NewProvider
  <1> QED
    BY <1>8, <1>9 DEF TypeInv

LEMMA TypePreserved == TypeInv /\ [Next]_vars => TypeInv'
  <1> SUFFICES ASSUME TypeInv, [Next]_vars PROVE TypeInv'
    OBVIOUS
  <1>1. CASE Sync
    BY <1>1, OnUpdateType, ConfigType, PoolType, GroupType, DoneType DEF Sync
  <1>2. CASE \E t \in Threads : CleanupStep(t)
    BY <1>2, CleanupType
  <1>3. CASE Watch \/ Restart \/ Exit \/ Environment
    BY <1>3, EnvironmentType
  <1>4. CASE UNCHANGED vars
    BY <1>4, Typed, OutsideType DEF vars
  <1> QED
    BY <1>1, <1>2, <1>3, <1>4 DEF Next

LEMMA TypeInvariant == Spec => []TypeInv
  BY TypeInit, TypePreserved, PTL DEF Spec

\* Every variable keeps its type, in every step of both threads and whatever call
\* fails: OnUpdate never runs on without the object it is to sync or the balancer
\* Azure has answered with.
THEOREM TypeCorrect == Spec => []TypeOK
  <1>1. TypeInv => TypeOK
    BY DEF TypeInv
  <1> QED
    BY <1>1, TypeInvariant, PTL

-----------------------------------------------------------------------------
(* What no step undoes                                                      *)

\* A deletion is for good, an object being deleted keeps its Azure provider, and
\* an object that is gone stays away.
ApiKept ==
    /\ api.deleting => api'.deleting
    /\ api.deleting /\ api.spec.azure => api'.spec.azure
    /\ ~api.live => ~api'.live

LEMMA PatchKept ==
    ASSUME TypeInv, NEW o \in Object, NEW out, Patch(o, out) \/ (api.live /\ Put(o)),
           api.deleting => o.deleting /\ (api.spec.azure => o.spec.azure)
    PROVE  ApiKept
  <1>1. CASE UNCHANGED api
    BY <1>1 DEF ApiKept
  <1>2. CASE ~UNCHANGED api
    <2>1. api.live /\ Put(o)
      BY <1>2 DEF Patch
    <2>2. api' = [o EXCEPT !.live = ~(o.deleting /\ ~o.fin)]
      BY <2>1 DEF Put
    <2>3. (api'.deleting <=> o.deleting) /\ api'.spec = o.spec
      BY <2>2 DEF Object
    <2> QED
      BY <2>1, <2>3 DEF ApiKept
  <1> QED
    BY <1>1, <1>2

LEMMA ApiStep == TypeInv /\ [Next]_vars => ApiKept
  <1> SUFFICES ASSUME TypeInv, [Next]_vars PROVE ApiKept
    OBVIOUS
  <1> USE Typed
  <1>0. ASSUME UNCHANGED api
        PROVE  ApiKept
    BY <1>0 DEF ApiKept
  <1>1. CASE Sync
    <2>1. CASE pathLoadBalancerName
      <3> DEFINE o == [api EXCEPT !.spec.azure = TRUE, !.named = TRUE]
      <3>1. PICK out \in Outcomes : Patch(o, out)
        BY <2>1 DEF pathLoadBalancerName
      <3>2. [api.spec EXCEPT !.azure = TRUE] \in LBSpec
            /\ [api.spec EXCEPT !.azure = TRUE].azure
        BY ObjectFields DEF LBSpec
      <3>3. o \in Object /\ (o.deleting <=> api.deleting) /\ o.spec.azure
        BY <3>2 DEF Object
      <3> HIDE DEF o
      <3> QED
        BY <3>1, <3>3, PatchKept
    <2>2. CASE ~pathLoadBalancerName
      <3>1. UNCHANGED api
        BY <1>1, <2>2
           DEF Sync, syncLoadBalancer, OnUpdateRemoved, OnUpdateNil, Panic, OnUpdateWanted,
               OnUpdateNoConfigMap, CheckExists, patchUpdating, PatchStatus, ReadError,
               getAzureLoadbalancer, createAzureLoadBalancer, ensureSyncDefaultAzureLBConfig,
               ensureSyncDefaultRules, syncRules, detachNetworkInterfacesAndLoadBalancer,
               attachNetworkInterfacesAndLoadBalancer, syncBackendPoolsDone,
               syncSecurityGroupRules, deleteUselessSecurityRules,
               ensureSyncRulesToSecurityGroups, syncSecurityGroupRulesDone,
               updateCacheData, SyncFailed
      <3> QED
        BY <1>0, <3>1
    <2> QED
      BY <2>1, <2>2
  <1>2. ASSUME NEW t \in Threads, CleanupStep(t)
        PROVE  ApiKept
    <2>1. CASE patachFinalizersAndStatus(t)
      <3> DEFINE o == [api EXCEPT !.fin = @ /\ ~DropsFinalizer(t),
                                  !.blank = @ \/ ~arg[t].deleteLB]
      <3>1. PICK out \in Outcomes : Patch(o, out) \/ UNCHANGED api
        BY <2>1 DEF patachFinalizersAndStatus
      <3>2. (api.fin /\ ~DropsFinalizer(t)) \in BOOLEAN
            /\ (api.blank \/ ~arg[t].deleteLB) \in BOOLEAN
        OBVIOUS
      <3>3. o \in Object /\ (o.deleting <=> api.deleting) /\ o.spec = api.spec
        BY <3>2 DEF Object
      <3> HIDE DEF o
      <3> QED
        BY <1>0, <3>1, <3>3, PatchKept
    <2>2. CASE ~patachFinalizersAndStatus(t)
      <3>1. UNCHANGED api
        BY <1>2, <2>2
           DEF CleanupStep, cleanupAzureLB, CleanupNil, Panic, cleanUpSecurityGroup,
               recoverDefaultAzureLoadBalancer, CleanupFailed, PatchStatus, DeleteBalancer
      <3> QED
        BY <1>0, <3>1
    <2> QED
      BY <2>1, <2>2
  <1>3. ASSUME NEW s \in Specs, WriteSpec(s)
        PROVE  ApiKept
    <2> DEFINE o == [api EXCEPT !.spec = s, !.named = @ /\ s.azure]
    <2>1. api.live /\ Put(o) /\ ~api.deleting
      BY <1>3 DEF WriteSpec
    <2>2. s \in LBSpec /\ (api.named /\ s.azure) \in BOOLEAN
      BY <1>3, AzureAssumption
    <2>3. o \in Object
      BY <2>2 DEF Object
    <2> HIDE DEF o
    <2> QED
      BY <2>1, <2>3, PatchKept
  <1>4. CASE DeleteObject
    <2> DEFINE o == [api EXCEPT !.deleting = TRUE]
    <2>1. api.live /\ Put(o) /\ ~api.deleting
      BY <1>4 DEF DeleteObject
    <2>2. o \in Object
      BY DEF Object
    <2> HIDE DEF o
    <2> QED
      BY <2>1, <2>2, PatchKept
  <1>5. CASE \/ Watch \/ Restart \/ Exit \/ Kill \/ Stop \/ UNCHANGED vars
             \/ \E rules \in SUBSET Rules : WatchCM(rules)
    <2>1. UNCHANGED api
      BY <1>5 DEF Watch, Restart, Exit, Kill, Stop, WatchCM, vars
    <2> QED
      BY <1>0, <2>1
  <1> QED
    BY <1>1, <1>2, <1>3, <1>4, <1>5 DEF Next, Environment

\* The informer's store lags behind the API server.
StoreInv ==
    /\ store.deleting => api.deleting
    /\ store.deleting /\ store.spec.azure => api.spec.azure
    /\ ~store.live => ~api.live

LEMMA StoreStep ==
    ASSUME TypeInv, [Next]_vars
    PROVE  UNCHANGED store \/ (store' = api /\ UNCHANGED api)
  <1>1. CASE Sync
    BY <1>1 DEF Sync, syncLoadBalancer, OnUpdateRemoved, OnUpdateNil, Panic, Down, OnUpdateWanted,
               OnUpdateNoConfigMap, CheckExists, patchUpdating, ReadError,
               getAzureLoadbalancer, createAzureLoadBalancer, ensureSyncDefaultAzureLBConfig,
               ensureSyncDefaultRules, syncRules, detachNetworkInterfacesAndLoadBalancer,
               attachNetworkInterfacesAndLoadBalancer, syncBackendPoolsDone,
               syncSecurityGroupRules, deleteUselessSecurityRules,
               ensureSyncRulesToSecurityGroups, syncSecurityGroupRulesDone,
               updateCacheData, SyncFailed, pathLoadBalancerName
  <1>2. CASE \E t \in Threads : CleanupStep(t)
    BY <1>2 DEF CleanupStep, cleanupAzureLB, CleanupNil, Panic, Down, cleanUpSecurityGroup,
               recoverDefaultAzureLoadBalancer, CleanupFailed, DeleteBalancer,
               patachFinalizersAndStatus
  <1>3. CASE Watch \/ Restart \/ Exit \/ Environment \/ UNCHANGED vars
    BY <1>3 DEF Watch, Restart, Exit, Environment, WriteSpec, DeleteObject, WatchCM, Kill, Stop,
                Down, vars
  <1> QED
    BY <1>1, <1>2, <1>3 DEF Next

LEMMA StoreInvariant == Spec => []StoreInv
  <1>1. Init => StoreInv
    BY DEF Init, StoreInv
  <1>2. TypeInv /\ StoreInv /\ [Next]_vars => StoreInv'
    BY ApiStep, StoreStep DEF StoreInv, ApiKept
  <1> QED
    BY <1>1, <1>2, TypeInvariant, PTL DEF Spec

-----------------------------------------------------------------------------
(* ReserveRespected                                                         *)

\* The remembered flag is that of the last Azure provider OnUpdate was given, except
\* for an object being deleted, whose cleanup is given the object itself.
Remembers ==
    l.old # Nil /\ ~l.clean =>
        (l.old.reserve <=> past.reserve) \/ (store.deleting /\ store.spec.azure)

\* So is that of the object being synced; what is remembered then is lost only to
\* the other thread's cleanup.
Syncs ==
    pc["worker"] \in Syncing =>
        (job.obj.spec.reserve <=> past.reserve) /\ (l.old = Nil => l.clean)

\* The flag the worker's cleanup will decide by is that one.
Cleans ==
    pc["worker"] \in {"cleanup", "sg"} =>
        IF arg["worker"].lb = Nil
        THEN \/ l.old = Nil
             \/ l.clean /\ pc["worker"] = "cleanup"
             \/ l.old.reserve <=> past.reserve
        ELSE arg["worker"].lb.spec.reserve <=> past.reserve

Deletes == pc["worker"] = "delete" => ~past.reserve

ReserveInv == Remembers /\ Syncs /\ Cleans /\ Deletes

LEMMA DownStep ==
    ASSUME Down
    PROVE  pc'["worker"] = "down" /\ pc'["stopper"] = "off" /\ l' = NewProvider /\ job' = NoJob
           /\ arg'["worker"] = NoArg
  BY DEF Down, Threads

LEMMA DownReserve ==
    ASSUME Down
    PROVE  ReserveInv'
  <1>1. pc'["worker"] = "down" /\ l'.old = Nil
    BY DownStep DEF NewProvider
  <1> QED
    BY <1>1 DEF ReserveInv, Remembers, Syncs, Cleans, Deletes, Syncing

\* The steps of ensureSync between its start and its end that do not patch the name.
Middle ==
    \/ patchUpdating \/ ReadError \/ getAzureLoadbalancer \/ createAzureLoadBalancer
    \/ ensureSyncDefaultAzureLBConfig \/ ensureSyncDefaultRules \/ syncRules
    \/ \E n \in Nodes : \/ detachNetworkInterfacesAndLoadBalancer(n)
                        \/ attachNetworkInterfacesAndLoadBalancer(n)
    \/ syncBackendPoolsDone \/ syncSecurityGroupRules

LEMMA MiddleStep ==
    ASSUME TypeInv, Middle
    PROVE  /\ pc["worker"] \in Syncing /\ pc'["worker"] \in Syncing \cup {"fail"}
           /\ pc'["stopper"] = pc["stopper"]
           /\ job'.obj = job.obj /\ job'.data = job.data
           /\ UNCHANGED <<store, cm, queue, l, past, arg>>
  <1>1. UNCHANGED <<store, cm, queue, l, past, arg>> /\ pc["worker"] \in Syncing
    BY DEF Middle, patchUpdating, ReadError, getAzureLoadbalancer, createAzureLoadBalancer,
           ensureSyncDefaultAzureLBConfig, ensureSyncDefaultRules, syncRules,
           detachNetworkInterfacesAndLoadBalancer, attachNetworkInterfacesAndLoadBalancer,
           syncBackendPoolsDone, syncSecurityGroupRules, deleteUselessSecurityRules,
           ensureSyncRulesToSecurityGroups, syncSecurityGroupRulesDone,
           Syncing
  <1>2. \/ UNCHANGED pc
        \/ \E step \in Syncing \cup {"fail"} : Goto("worker", step)
    BY DEF Middle, patchUpdating, ReadError, getAzureLoadbalancer, createAzureLoadBalancer,
           ensureSyncDefaultAzureLBConfig, ensureSyncDefaultRules, syncRules,
           detachNetworkInterfacesAndLoadBalancer, attachNetworkInterfacesAndLoadBalancer,
           syncBackendPoolsDone, syncSecurityGroupRules, deleteUselessSecurityRules,
           ensureSyncRulesToSecurityGroups, syncSecurityGroupRulesDone,
           CreateOrUpdate, Syncing
  <1>3. /\ pc'["worker"] \in Syncing \cup {"fail"}
        /\ pc'["stopper"] = pc["stopper"]
    BY <1>1, <1>2, Typed DEF Goto, Threads
  <1>4. job'.obj = job.obj /\ job'.data = job.data
    <2>1. \/ UNCHANGED job
          \/ \E snap : job' = [job EXCEPT !.snap = snap]
          \/ \E todo : job' = [job EXCEPT !.todo = todo]
          \/ \E rules, todo : job' = [job EXCEPT !.snap.rules = rules, !.todo = todo]
          \/ \E todo, want : job' = [job EXCEPT !.todo = todo, !.want = want]
      BY DEF Middle, patchUpdating, ReadError, getAzureLoadbalancer, createAzureLoadBalancer,
             ensureSyncDefaultAzureLBConfig, ensureSyncDefaultRules, syncRules,
             detachNetworkInterfacesAndLoadBalancer, attachNetworkInterfacesAndLoadBalancer,
             syncBackendPoolsDone, syncSecurityGroupRules, deleteUselessSecurityRules,
             ensureSyncRulesToSecurityGroups, syncSecurityGroupRulesDone,
             CreateOrUpdate
    <2> QED
      BY <2>1, Typed DEF Job
  <1> QED
    BY <1>1, <1>3, <1>4

LEMMA ProviderFields ==
    ASSUME NEW named \in BOOLEAN, NEW reserve \in BOOLEAN, NEW old,
           old = [named |-> named, reserve |-> reserve]
    PROVE  /\ old \in Provider /\ old # Nil
           /\ old.named <=> named
           /\ old.reserve <=> reserve
  <1>1. old \in Provider
    BY DEF Provider
  <1>2. old # Nil
    BY <1>1, NilAssumption
  <1> QED
    BY <1>1, <1>2

\* What a cleanup of thread t leaves alone, unless it panics.
LEMMA CleanupStepKeeps ==
    ASSUME TypeInv, NEW t \in Threads, CleanupStep(t), ~Down
    PROVE  /\ pc[t] \in Cleaning
           /\ pc'[t] \in Cleaning \cup {"idle", "exit"}
           /\ \A u \in Threads \ {t} : pc'[u] = pc[u] /\ arg'[u] = arg[u]
           /\ t = "stopper" => UNCHANGED job
           /\ UNCHANGED <<store, cm, past>>
           /\ l'.lb = l.lb /\ (l'.old = l.old \/ (l'.old = Nil /\ l'.clean))
           /\ l.clean => l'.clean
  <1>1. UNCHANGED <<store, cm, past>> /\ pc[t] \in Cleaning
    BY DEF CleanupStep, cleanupAzureLB, CleanupNil, Panic, cleanUpSecurityGroup,
           recoverDefaultAzureLoadBalancer, CleanupFailed, DeleteBalancer,
           patachFinalizersAndStatus, Cleaning
  <1>2. \/ CleanupReturn(t, TRUE) \/ CleanupReturn(t, FALSE)
        \/ /\ \E step \in Cleaning : Goto(t, step)
           /\ UNCHANGED job
           /\ UNCHANGED arg \/ \E full : arg' = [arg EXCEPT ![t].full = full]
    <2>1. CASE patachFinalizersAndStatus(t)
      <3>1. PICK out \in Outcomes : CleanupReturn(t, out.ok)
        BY <2>1 DEF patachFinalizersAndStatus
      <3>2. out.ok \in BOOLEAN
        BY DEF Outcomes
      <3>3. out.ok = TRUE \/ out.ok = FALSE
        BY <3>2
      <3> QED
        BY <3>1, <3>3
    <2>2. CASE cleanupAzureLB(t)
      BY <2>2 DEF cleanupAzureLB, Cleaning
    <2>3. CASE cleanUpSecurityGroup(t)
      BY <2>3 DEF cleanUpSecurityGroup, Cleaning
    <2>4. CASE recoverDefaultAzureLoadBalancer(t) \/ CleanupFailed(t) \/ DeleteBalancer(t)
      BY <2>4 DEF recoverDefaultAzureLoadBalancer, CleanupFailed, DeleteBalancer, Cleaning
    <2>5. ~CleanupNil(t)
      BY DEF CleanupNil, Panic
    <2> QED
      BY <2>1, <2>2, <2>3, <2>4, <2>5 DEF CleanupStep
  <1>3. /\ pc'[t] \in Cleaning \cup {"idle", "exit"}
        /\ \A u \in Threads \ {t} : pc'[u] = pc[u] /\ arg'[u] = arg[u]
        /\ t = "stopper" => UNCHANGED job
    <2>1. CASE CleanupReturn(t, TRUE) \/ CleanupReturn(t, FALSE)
      BY <2>1, Typed DEF CleanupReturn, Return, Goto, Threads
    <2>2. CASE /\ \E step \in Cleaning : Goto(t, step)
               /\ UNCHANGED job
               /\ UNCHANGED arg \/ \E full : arg' = [arg EXCEPT ![t].full = full]
      BY <2>2, Typed DEF Goto, Threads
    <2> QED
      BY <1>2, <2>1, <2>2
  <1>4. /\ l'.lb = l.lb /\ (l'.old = l.old \/ (l'.old = Nil /\ l'.clean))
        /\ l.clean => l'.clean
    <2>1. CASE patachFinalizersAndStatus(t)
      <3>1. PICK out \in Outcomes :
              l' = IF out.ok
                   THEN [l EXCEPT !.clean = TRUE, !.old = IF arg[t].full THEN Nil ELSE @,
                                  !.same = @ /\ ~arg[t].full]
                   ELSE l
        BY <2>1 DEF patachFinalizersAndStatus
      <3>2. CASE out.ok
        <4> DEFINE old == IF arg[t].full THEN Nil ELSE l.old
                   same == l.same /\ ~arg[t].full
        <4>1. l' = [l EXCEPT !.clean = TRUE, !.old = old, !.same = same]
          BY <3>1, <3>2
        <4>2. old = l.old \/ old = Nil
          OBVIOUS
        <4> HIDE DEF old, same
        <4> QED
          BY <4>1, <4>2, Typed DEF Memory
      <3>3. CASE ~out.ok
        BY <3>1, <3>3
      <3> QED
        BY <3>2, <3>3
    <2>2. CASE ~patachFinalizersAndStatus(t)
      BY <2>2 DEF CleanupStep, cleanupAzureLB, CleanupNil, Panic, cleanUpSecurityGroup,
             recoverDefaultAzureLoadBalancer, CleanupFailed, DeleteBalancer
    <2> QED
      BY <2>1, <2>2
  <1> QED
    BY <1>1, <1>3, <1>4

LEMMA SyncReserve ==
    ASSUME TypeInv, ReserveInv, Middle \/ pathLoadBalancerName \/ updateCacheData \/ SyncFailed
    PROVE  ReserveInv'
  <1> USE Typed
  <1>1. CASE Middle
    BY <1>1, MiddleStep DEF ReserveInv, Remembers, Syncs, Cleans, Deletes, Syncing
  <1>2. CASE pathLoadBalancerName
    <2> DEFINE reserve == IF l.old = Nil THEN FALSE ELSE l.old.reserve
    <2>1. /\ pc["worker"] = "name" /\ job.obj \in Object
          /\ l' = Cached(TRUE, reserve) /\ job' = [job EXCEPT !.obj.named = TRUE]
          /\ UNCHANGED <<store, arg, past>>
          /\ \E step \in {"config", "fail"} : Goto("worker", step)
      BY <1>2 DEF pathLoadBalancerName, Syncing
    <2>2. reserve \in BOOLEAN
      BY DEF Memory, Provider
    <2>3. l'.old = [named |-> TRUE, reserve |-> reserve] /\ (l'.clean <=> l.clean)
      BY <2>1, <2>2, CachedType
    <2>4. (l'.old.reserve <=> reserve) /\ l'.old # Nil
      <3> HIDE DEF reserve
      <3> QED
        BY <2>2, <2>3, ProviderFields
    <2>5. job'.obj.spec = job.obj.spec
      BY <2>1 DEF Job, Object
    <2>6. pc'["worker"] \in {"config", "fail"}
      BY <2>1 DEF Goto, Threads
    <2>7. Syncs
      BY DEF ReserveInv
    <2>8. (job.obj.spec.reserve <=> past.reserve) /\ (l.old = Nil => l.clean)
      BY <2>1, <2>7 DEF Syncs, Syncing
    <2>9. Remembers'
      BY <2>1, <2>3, <2>4, <2>8 DEF ReserveInv, Remembers
    <2>10. Syncs'
      BY <2>1, <2>4, <2>5, <2>8 DEF Syncs
    <2> QED
      BY <2>6, <2>9, <2>10 DEF ReserveInv, Cleans, Deletes
  <1>3. CASE updateCacheData
    <2>1. /\ pc["worker"] \in Syncing /\ UNCHANGED <<store, past>> /\ Return(TRUE)
          /\ l' = [old |-> [named |-> job.obj.named, reserve |-> job.obj.spec.reserve],
                   lb |-> ViewOf(job.obj), same |-> TRUE, ruleMap |-> job.data,
                   clean |-> l.clean]
      BY <1>3 DEF updateCacheData, Syncing
    <2>2. l'.old = [named |-> job.obj.named, reserve |-> job.obj.spec.reserve]
      BY <2>1
    <2>3. l'.old.reserve <=> past.reserve
      BY <2>1, <2>2, ObjectFields DEF ReserveInv, Syncs
    <2>4. pc'["worker"] = "idle"
      BY <2>1, ReturnType
    <2> QED
      BY <2>1, <2>3, <2>4 DEF ReserveInv, Remembers, Syncs, Cleans, Deletes, Syncing
  <1>4. CASE SyncFailed
    <2>1. UNCHANGED <<store, past, l>> /\ Return(FALSE)
      BY <1>4 DEF SyncFailed
    <2>2. pc'["worker"] = "idle"
      BY <2>1, ReturnType
    <2> QED
      BY <2>1, <2>2 DEF ReserveInv, Remembers, Syncs, Cleans, Deletes, Syncing
  <1> QED
    BY <1>1, <1>2, <1>3, <1>4

\* What OnUpdate is told of the object.
LEMMA ToldStep ==
    ASSUME TypeInv, NEW o \in Object, Told(o)
    PROVE  /\ past'.reserve <=> o.spec.reserve
           /\ past'.spent <=> past.spent \/ l.clean
           /\ past'.unnamed <=> past.unnamed \/ (l.lb # Nil /\ l.lb.named /\ ~o.named)
           /\ past'.guarded = past.guarded /\ past'.specs = past.specs
           /\ past'.reverted = past.reverted /\ past'.cms = past.cms
  BY Typed, ObjectFields DEF Told, Past

LEMMA OnUpdateReserve ==
    ASSUME TypeInv, ReserveInv,
           \/ syncLoadBalancer \/ OnUpdateRemoved \/ OnUpdateNil \/ OnUpdateWanted
           \/ OnUpdateNoConfigMap \/ CheckExists
    PROVE  ReserveInv'
  <1> USE Typed
  <1>0. /\ store # Nil /\ store.named \in BOOLEAN /\ store.spec.reserve \in BOOLEAN
        /\ "worker" \in Threads
    BY ObjectFields, NilAssumption DEF Threads
  <1>1. CASE syncLoadBalancer
    BY <1>1 DEF syncLoadBalancer, ReserveInv, Remembers, Syncs, Cleans, Deletes
  <1>2. CASE OnUpdateRemoved
    <2>1. /\ l' = [l EXCEPT !.lb = ViewOf(store), !.same = FALSE] /\ UNCHANGED store
          /\ Goto("worker", "cleanup")
      BY <1>2 DEF OnUpdateRemoved, Cleanup
    <2>2. l'.old = l.old /\ l'.clean = l.clean /\ pc'["worker"] = "cleanup"
      BY <1>0, <2>1 DEF Memory, Goto
    <2>3. CASE ~store.spec.azure /\ Cleanup("worker", Nil, FALSE) /\ UNCHANGED past
      <3>1. arg'["worker"].lb = Nil
        BY <1>0, <2>3 DEF Cleanup
      <3> QED
        BY <2>1, <2>2, <2>3, <3>1
           DEF ReserveInv, Remembers, Syncs, Cleans, Deletes, Syncing
    <2>4. CASE store.spec.azure /\ store.deleting /\ Cleanup("worker", store, TRUE) /\ Told(store)
      <3>1. arg'["worker"].lb = store
        BY <1>0, <2>4 DEF Cleanup
      <3>2. past'.reserve <=> store.spec.reserve
        BY <2>4, ToldStep
      <3> QED
        BY <1>0, <2>1, <2>2, <2>4, <3>1, <3>2
           DEF ReserveInv, Remembers, Syncs, Cleans, Deletes, Syncing
    <2> QED
      BY <1>2, <2>3, <2>4 DEF OnUpdateRemoved
  <1>3. CASE OnUpdateNil
    BY <1>3, DownReserve DEF OnUpdateNil, Panic
  <1>4. CASE OnUpdateWanted \/ OnUpdateNoConfigMap
    <2>1. /\ l' = Cached(store.named, store.spec.reserve) /\ Told(store) /\ UNCHANGED store
          /\ \/ Goto("worker", "check") /\ job' = [NoJob EXCEPT !.obj = store, !.data = cm]
             \/ UNCHANGED pc /\ pc["worker"] = "idle"
      BY <1>4 DEF OnUpdateWanted, OnUpdateNoConfigMap, Given, Take
    <2>2. l'.old = [named |-> store.named, reserve |-> store.spec.reserve]
      BY <1>0, <2>1, CachedType
    <2>3. l'.old # Nil /\ (l'.old.reserve <=> store.spec.reserve)
      BY <1>0, <2>2, ProviderFields
    <2>4. past'.reserve <=> store.spec.reserve
      BY <2>1, ToldStep
    <2>5. CASE Goto("worker", "check") /\ job' = [NoJob EXCEPT !.obj = store, !.data = cm]
      <3>1. pc'["worker"] = "check" /\ job'.obj = store
        BY <1>0, <2>5 DEF Goto, NoJob
      <3> QED
        BY <2>3, <2>4, <3>1 DEF ReserveInv, Remembers, Syncs, Cleans, Deletes, Syncing
    <2>6. CASE UNCHANGED pc /\ pc["worker"] = "idle"
      BY <2>3, <2>4, <2>6 DEF ReserveInv, Remembers, Syncs, Cleans, Deletes, Syncing
    <2> QED
      BY <2>1, <2>5, <2>6
  <1>5. CASE CheckExists
    <2>1. /\ pc["worker"] = "check" /\ UNCHANGED <<store, l, job, past>>
          /\ \/ Goto("worker", "updating")
             \/ Cleanup("worker", job.obj, TRUE)
      BY <1>5 DEF CheckExists
    <2>2. job.obj \in Object /\ (job.obj.spec.reserve <=> past.reserve)
      BY <2>1 DEF ReserveInv, Syncs, Syncing
    <2>3. CASE Goto("worker", "updating")
      <3>1. pc'["worker"] = "updating"
        BY <1>0, <2>3 DEF Goto
      <3> QED
        BY <2>1, <3>1 DEF ReserveInv, Remembers, Syncs, Cleans, Deletes, Syncing
    <2>4. CASE Cleanup("worker", job.obj, TRUE)
      <3>1. pc'["worker"] = "cleanup" /\ arg'["worker"].lb = job.obj
        BY <1>0, <2>4 DEF Goto, Cleanup
      <3>2. job.obj # Nil
        BY <2>2, NilAssumption
      <3> QED
        BY <2>1, <2>2, <3>1, <3>2 DEF ReserveInv, Remembers, Syncs, Cleans, Deletes, Syncing
    <2> QED
      BY <2>1, <2>3, <2>4
  <1> QED
    BY <1>1, <1>2, <1>3, <1>4, <1>5

LEMMA CleanupReserve ==
    ASSUME TypeInv, ReserveInv, NEW t \in Threads, CleanupStep(t)
    PROVE  ReserveInv'
  <1> USE Typed
  <1>0. "worker" \in Threads /\ "stopper" \in Threads
    BY DEF Threads
  <1>1. CASE Down
    BY <1>1, DownReserve
  <1>2. CASE ~Down
    <2>1. UNCHANGED <<store, past>>
      BY <1>2, CleanupStepKeeps
    <2>2. (l'.old = l.old \/ (l'.old = Nil /\ l'.clean)) /\ (l.clean => l'.clean)
      BY <1>2, CleanupStepKeeps
    <2>3. CASE t = "stopper"
      <3>1. pc'["worker"] = pc["worker"] /\ arg'["worker"] = arg["worker"] /\ UNCHANGED job
        BY <1>0, <1>2, <2>3, CleanupStepKeeps
      <3> QED
        BY <2>1, <2>2, <3>1 DEF ReserveInv, Remembers, Syncs, Cleans, Deletes
    <2>4. CASE t = "worker"
      <3>0. Remembers'
        BY <2>1, <2>2 DEF ReserveInv, Remembers
      <3>1. pc["worker"] \in Cleaning /\ pc'["worker"] \in Cleaning \cup {"idle", "exit"}
        BY <1>2, <2>4, CleanupStepKeeps
      <3>2. pc'["worker"] \notin Syncing
        BY <3>1 DEF Cleaning, Syncing
      <3>3. Cleans'
        <4>1. CASE cleanupAzureLB("worker") /\ ~l.clean
          <5>1. /\ UNCHANGED <<l, past>> /\ pc["worker"] = "cleanup"
                /\ arg' = [arg EXCEPT !["worker"].full = l.old # Nil /\ l.old.named]
            BY <4>1 DEF cleanupAzureLB
          <5>2. arg'["worker"].lb = arg["worker"].lb
            BY <1>0, <5>1 DEF Arg
          <5> QED
            BY <4>1, <5>1, <5>2 DEF ReserveInv, Cleans
        <4>2. CASE ~(cleanupAzureLB("worker") /\ ~l.clean)
          <5>1. \/ \E ok : Return(ok)
                \/ \E step \in Cleaning \ {"cleanup", "sg"} : Goto("worker", step)
            BY <1>2, <2>4, <4>2
               DEF CleanupStep, cleanupAzureLB, CleanupNil, Panic, cleanUpSecurityGroup,
                   recoverDefaultAzureLoadBalancer, CleanupFailed, DeleteBalancer,
                   patachFinalizersAndStatus, Cleaning, CleanupReturn
          <5>2. pc'["worker"] \notin {"cleanup", "sg"}
            BY <1>0, <5>1 DEF Return, Goto
          <5> QED
            BY <5>2 DEF Cleans
        <4> QED
          BY <4>1, <4>2
      <3>4. Deletes'
        <4>1. SUFFICES ASSUME pc'["worker"] = "delete" PROVE ~past.reserve
          BY <2>1 DEF Deletes
        <4>2. cleanUpSecurityGroup("worker")
          <5>1. \/ \E ok : Return(ok)
                \/ \E step \in Cleaning \ {"delete"} : Goto("worker", step)
                \/ cleanUpSecurityGroup("worker")
            BY <1>2, <2>4
               DEF CleanupStep, cleanupAzureLB, CleanupNil, Panic,
                   recoverDefaultAzureLoadBalancer, CleanupFailed, DeleteBalancer,
                   patachFinalizersAndStatus, Cleaning, CleanupReturn
          <5> QED
            BY <1>0, <4>1, <5>1 DEF Return, Goto
        <4> DEFINE reserve == IF arg["worker"].lb # Nil
                              THEN arg["worker"].lb.spec.reserve ELSE l.old.reserve
        <4>3. /\ pc["worker"] = "sg" /\ l.old # Nil
              /\ \/ Goto("worker", IF reserve THEN "recover" ELSE "delete")
                 \/ CleanupReturn("worker", FALSE)
          BY <4>2 DEF cleanUpSecurityGroup
        <4>4. ~reserve
          BY <1>0, <4>1, <4>3 DEF CleanupReturn, Return, Goto
        <4> QED
          BY <4>3, <4>4 DEF ReserveInv, Cleans
      <3> QED
        BY <3>0, <3>2, <3>3, <3>4 DEF ReserveInv, Syncs
    <2> QED
      BY <2>3, <2>4 DEF Threads
  <1> QED
    BY <1>1, <1>2

LEMMA EnvironmentReserve ==
    ASSUME TypeInv, StoreInv, ReserveInv,
           Watch \/ Restart \/ Exit \/ Environment \/ UNCHANGED vars
    PROVE  ReserveInv'
  <1> USE Typed
  <1>0. "worker" \in Threads /\ "stopper" \in Threads
    BY DEF Threads
  <1>1. CASE Kill \/ Exit
    BY <1>1, DownReserve DEF Kill, Exit
  <1>2. CASE Watch
    BY <1>2 DEF Watch, StoreInv, ReserveInv, Remembers, Syncs, Cleans, Deletes
  <1>3. CASE Restart
    <2>1. UNCHANGED <<l, past>> /\ store' = api /\ pc'["worker"] = "idle"
      BY <1>0, <1>3 DEF Restart
    <2> QED
      BY <2>1 DEF StoreInv, ReserveInv, Remembers, Syncs, Cleans, Deletes, Syncing
  <1>4. CASE Stop
    <2>1. /\ UNCHANGED <<l, past, store, job>>
          /\ UNCHANGED arg \/ \E new : arg' = [arg EXCEPT !["stopper"] = new]
          /\ \E step : Goto("stopper", step)
      BY <1>4 DEF Stop, Cleanup
    <2>2. pc'["worker"] = pc["worker"] /\ arg'["worker"] = arg["worker"]
      BY <1>0, <2>1 DEF Goto
    <2> QED
      BY <2>1, <2>2 DEF ReserveInv, Remembers, Syncs, Cleans, Deletes
  <1>5. CASE \/ DeleteObject \/ UNCHANGED vars
             \/ \E s \in Specs : WriteSpec(s)
             \/ \E rules \in SUBSET Rules : WatchCM(rules)
    <2>1. UNCHANGED <<l, pc, job, arg, store>>
      BY <1>5 DEF DeleteObject, WriteSpec, WatchCM, vars
    <2>2. past'.reserve = past.reserve
      BY <1>5 DEF DeleteObject, WriteSpec, WatchCM, vars, Past
    <2> QED
      BY <2>1, <2>2 DEF ReserveInv, Remembers, Syncs, Cleans, Deletes
  <1> QED
    BY <1>1, <1>2, <1>3, <1>4, <1>5 DEF Environment

LEMMA ReserveInvariant == Spec => []ReserveInv
  <1>1. Init => ReserveInv
    <2> SUFFICES ASSUME Init PROVE ReserveInv
      OBVIOUS
    <2>1. pc["worker"] = "idle" /\ l.old = Nil
      BY DEF Init, Threads, NewProvider
    <2> QED
      BY <2>1 DEF ReserveInv, Remembers, Syncs, Cleans, Deletes, Syncing
  <1>2. TypeInv /\ StoreInv /\ ReserveInv /\ [Next]_vars => ReserveInv'
    <2> SUFFICES ASSUME TypeInv, StoreInv, ReserveInv, [Next]_vars PROVE ReserveInv'
      OBVIOUS
    <2>1. CASE Sync
      BY <2>1, OnUpdateReserve, SyncReserve DEF Sync, Middle
    <2>2. CASE \E t \in Threads : CleanupStep(t)
      BY <2>2, CleanupReserve
    <2>3. CASE Watch \/ Restart \/ Exit \/ Environment \/ UNCHANGED vars
      BY <2>3, EnvironmentReserve
    <2> QED
      BY <2>1, <2>2, <2>3 DEF Next
  <1> QED
    BY <1>1, <1>2, TypeInvariant, StoreInvariant, PTL DEF Spec

\* The worker never deletes a balancer that the last Azure provider OnUpdate was given
\* asks to keep, whatever sync has failed since, whether the cleanup is that of the
\* object, of a removed Azure provider or of a vanished object, and whatever the
\* stopping thread does to oldAzureProvider meanwhile.
THEOREM ReserveRespectedCorrect == Spec => ReserveRespected
  <1>1. ReserveInv /\ [Next]_vars =>
          [az # Nil /\ az' = Nil /\ past.reserve => pc["worker"] # "delete"]_vars
    BY DEF ReserveInv, Deletes
  <1> QED
    BY <1>1, ReserveInvariant, PTL DEF Spec, ReserveRespected
=============================================================================
