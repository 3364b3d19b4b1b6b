--------------------------- MODULE GenericProvider ---------------------------
(***************************************************************************)
(* core/provider.GenericProvider: the informers, the event handlers, the   *)
(* work queue, its single worker, and the Start/Stop life cycle, around a  *)
(* backend (the Provider interface) that is started, updated and stopped.  *)
(*                                                                         *)
(* Goroutines: main (Start), one event handler per informer, the delaying  *)
(* queue's loop, the worker, and the callers of Stop.                      *)
(*                                                                         *)
(* Simplifications:                                                        *)
(*  - nothing but the informers reads the API server here, so a write is   *)
(*    modelled at the moment it reaches the informer's store;              *)
(*  - of an object, only its version, whether it is deleted, whether it    *)
(*    passes ValidateLoadBalancer and the ConfigMap names in its status    *)
(*    are kept;                                                            *)
(*  - the Node and Secret informers have no handlers and are left out.     *)
(***************************************************************************)
EXTENDS SyncQueue, Sequences

CONSTANTS Own,          \* the key of the load balancer of this provider
          Protos,       \* "tcp", "udp"
          CMNames,      \* names of ConfigMaps
          NoName,       \* the empty string
          Stoppers,     \* goroutines that may call Stop
          MaxLBWrites,  \* bound: versions of a load balancer
          MaxCMWrites,  \* bound: versions of a ConfigMap
          MaxNotes      \* bound: undelivered notifications of both informers

ASSUME ProviderAssumption ==
    /\ Own \in Keys
    /\ NoName \notin CMNames \cup Stoppers
    /\ MaxLBWrites \in Nat \ {0}
    /\ MaxCMWrites \in Nat
    /\ MaxNotes \in Nat \ {0}

VARIABLES lbs,        \* newest version of each load balancer
          cms,        \* newest version of each ConfigMap
          listed,     \* informers that have finished their first List
          lbNotes,    \* undelivered notifications of the LoadBalancer informer
          cmNotes,    \* undelivered notifications of the ConfigMap informer
          cfg,        \* cfg.TCPConfigMap and cfg.UDPConfigMap
          wpc,        \* program counter of the worker
          wkey,       \* key it is processing
          wlb,        \* load balancer it got from the lister
          wcm,        \* ConfigMap versions OnUpdate got from the lister
          seenLB,     \* load balancer of the last successful OnUpdate
          seenCM,     \* ConfigMap versions of the last successful OnUpdate
          dropped,    \* the last sync gave up after MaxRetries retries
          spc,        \* program counter of Start
          backend,    \* state of the backend
          backendStops, \* calls of Backend.Stop
          stopClosed, \* stopCh is closed
          shutdown,   \* GenericProvider.shutdown
          stopLock,   \* the stopper that holds stopLock, or NoName
          tpc,        \* program counter of each stopper
          exited      \* whether and how the process has ended

storeVars  == <<lbs, cms, listed>>
noteVars   == <<lbNotes, cmNotes>>
workerVars == <<wpc, wkey, wlb, wcm>>
seenVars   == <<seenLB, seenCM, dropped>>
lifeVars   == <<spc, backend, backendStops, stopClosed, shutdown, stopLock, tpc, exited>>
vars == <<queueVars, storeVars, noteVars, cfg, workerVars, seenVars, lifeVars>>

-----------------------------------------------------------------------------
(* Data                                                                     *)

Names == CMNames \cup {NoName}

\* A load balancer; rv 0 stands for one that never existed, and a deleted one
\* keeps its last version with live = FALSE.
LoadBalancer == [rv : 0..MaxLBWrites, live : BOOLEAN, valid : BOOLEAN, cm : [Protos -> Names]]

NoLB == [rv |-> 0, live |-> FALSE, valid |-> FALSE, cm |-> [p \in Protos |-> NoName]]

\* A ConfigMap: its version and the event that produced it.
ConfigMap == [rv : 0..MaxCMWrites, last : {"none", "add", "update", "delete"}]

NoCM == [rv |-> 0, last |-> "none"]

NoCMs == [p \in Protos |-> 0]

\* same: the old and the new object of an update have one ResourceVersion.
LBNote == [type : {"add", "update", "delete"}, key : Keys, same : BOOLEAN]
CMNote == [type : {"add", "update", "delete"}, name : CMNames, same : BOOLEAN]

Informers == {"LoadBalancer", "ConfigMap"}

\* The worker is inside SyncQueue.worker, where the wait group counts it.
Working == wpc \in {"idle", "lookup", "setcfg", "read", "apply"}

StoreTypeOK ==
    /\ lbs \in [Keys -> LoadBalancer]
    /\ cms \in [CMNames -> ConfigMap]
    /\ listed \in SUBSET Informers

NoteTypeOK ==
    /\ lbNotes \in Seq(LBNote)
    /\ cmNotes \in Seq(CMNote)

WorkerTypeOK ==
    /\ wpc \in {"off", "launched", "entering", "idle", "lookup", "setcfg", "read", "apply", "done"}
    /\ wkey \in Keys
    /\ wlb \in LoadBalancer
    /\ wcm \in [Protos -> 0..MaxCMWrites]

SeenTypeOK ==
    /\ seenLB \in LoadBalancer
    /\ seenCM \in [Protos -> 0..MaxCMWrites]
    /\ dropped \in BOOLEAN

LifeTypeOK ==
    /\ spc \in {"start", "wait", "backend", "waitstart", "run", "block", "returned"}
    /\ backend \in {"new", "running", "stopped"}
    /\ backendStops \in Nat
    /\ stopClosed \in BOOLEAN
    /\ shutdown \in BOOLEAN
    /\ stopLock \in Stoppers \cup {NoName}
    /\ tpc \in [Stoppers -> {"off", "called", "locked", "closed", "stopped", "draining", "returned"}]
    /\ exited \in {"no", "exit", "crash"}

TypeOK ==
    /\ QueueTypeOK
    /\ StoreTypeOK
    /\ NoteTypeOK
    /\ cfg \in [Protos -> Names]
    /\ WorkerTypeOK
    /\ SeenTypeOK
    /\ LifeTypeOK

\* main has read the own load balancer and passed the ConfigMap names of its
\* status to NewLoadBalancerProvider.
Init ==
    /\ QueueInit
    /\ cfg \in [Protos -> Names]
    /\ lbs = [k \in Keys |->
                IF k = Own THEN [rv |-> 1, live |-> TRUE, valid |-> TRUE, cm |-> cfg] ELSE NoLB]
    /\ cms = [c \in CMNames |-> NoCM]
    /\ listed = {}
    /\ lbNotes = <<>>
    /\ cmNotes = <<>>
    /\ wpc = "off"
    /\ wkey = Own
    /\ wlb = NoLB
    /\ wcm = NoCMs
    /\ seenLB = NoLB
    /\ seenCM = NoCMs
    /\ dropped = FALSE
    /\ spc = "start"
    /\ backend = "new"
    /\ backendStops = 0
    /\ stopClosed = FALSE
    /\ shutdown = FALSE
    /\ stopLock = NoName
    /\ tpc = [t \in Stoppers |-> "off"]
    /\ exited = "no"

-----------------------------------------------------------------------------
(* The cluster and the informers                                            *)

\* An informer that has listed stores a changed object and then notifies its
\* handler; before that the change is only part of what List will return.
NotifyLB(type, k, same) ==
    IF "LoadBalancer" \in listed
    THEN lbNotes' = Append(lbNotes, [type |-> type, key |-> k, same |-> same])
    ELSE UNCHANGED lbNotes

NotifyCM(type, c, same) ==
    IF "ConfigMap" \in listed
    THEN cmNotes' = Append(cmNotes, [type |-> type, name |-> c, same |-> same])
    ELSE UNCHANGED cmNotes

NotesBound == Len(lbNotes) + Len(cmNotes) < MaxNotes

WriteLB(k, valid, cm) ==
    /\ lbs[k].rv < MaxLBWrites
    /\ NotesBound
    /\ lbs' = [lbs EXCEPT ![k] = [rv |-> @.rv + 1, live |-> TRUE, valid |-> valid, cm |-> cm]]
    /\ NotifyLB(IF lbs[k].live THEN "update" ELSE "add", k, FALSE)
    /\ UNCHANGED <<queueVars, cms, listed, cmNotes, cfg, workerVars, seenVars, lifeVars>>

DeleteLB(k) ==
    /\ lbs[k].live
    /\ lbs[k].rv < MaxLBWrites
    /\ NotesBound
    /\ lbs' = [lbs EXCEPT ![k] = [rv |-> @.rv + 1, live |-> FALSE, valid |-> @.valid, cm |-> @.cm]]
    /\ NotifyLB("delete", k, FALSE)
    /\ UNCHANGED <<queueVars, cms, listed, cmNotes, cfg, workerVars, seenVars, lifeVars>>

ChangeCM(c, event) ==
    /\ cms[c].rv < MaxCMWrites
    /\ NotesBound
    /\ (event = "add") <=> (cms[c].last \in {"none", "delete"})
    /\ cms' = [cms EXCEPT ![c] = [rv |-> @.rv + 1, last |-> event]]
    /\ NotifyCM(event, c, FALSE)
    /\ UNCHANGED <<queueVars, lbs, listed, lbNotes, cfg, workerVars, seenVars, lifeVars>>

\* A reflector that lists again reports every stored object as an update, with
\* the version it already had.
Relist(k) ==
    /\ "LoadBalancer" \in listed
    /\ lbs[k].live
    /\ NotesBound
    /\ NotifyLB("update", k, TRUE)
    /\ UNCHANGED <<queueVars, storeVars, cmNotes, cfg, workerVars, seenVars, lifeVars>>

RelistCM(c) ==
    /\ "ConfigMap" \in listed
    /\ cms[c].last \in {"add", "update"}
    /\ NotesBound
    /\ NotifyCM("update", c, TRUE)
    /\ UNCHANGED <<queueVars, storeVars, lbNotes, cfg, workerVars, seenVars, lifeVars>>

\* The first List of an informer reports every object as added. Only the own
\* load balancer passes the handlers' filter, and added ConfigMaps have no
\* handler, so the other notifications of the list are left out.
List(i) ==
    /\ spc # "start"
    /\ i \notin listed
    /\ listed' = listed \cup {i}
    /\ IF i = "LoadBalancer" /\ lbs[Own].live
       THEN lbNotes' = Append(lbNotes, [type |-> "add", key |-> Own, same |-> FALSE])
       ELSE UNCHANGED lbNotes
    /\ UNCHANGED <<queueVars, lbs, cms, cmNotes, cfg, workerVars, seenVars, lifeVars>>

-----------------------------------------------------------------------------
(* The event handlers                                                       *)

filterLoadBalancer(k) == k # Own

filterConfigMap(c) == \A p \in Protos : c # cfg[p]

\* addLoadBalancer, updateLoadBalancer and deleteLoadBalancer: only an update
\* between equal versions is told apart.
IgnoreLB(n) == (n.type = "update" /\ n.same) \/ filterLoadBalancer(n.key)

HandleLB ==
    /\ lbNotes # <<>>
    /\ lbNotes' = Tail(lbNotes)
    /\ IF IgnoreLB(Head(lbNotes)) THEN UNCHANGED queueVars ELSE Enqueue(Head(lbNotes).key)
    /\ UNCHANGED <<storeVars, cmNotes, cfg, workerVars, seenVars, lifeVars>>

\* Mutant: an update is ignored while the load balancer is being synced.
IgnoreCMWhileSyncing(n) ==
    n.type # "update" \/ n.same \/ filterConfigMap(n.name) \/ Own \in processing

\* updateConfigMap; added and deleted ConfigMaps have no handler.
IgnoreCM(n) == n.type # "update" \/ n.same \/ filterConfigMap(n.name)

HandleCM ==
    /\ cmNotes # <<>>
    /\ cmNotes' = Tail(cmNotes)
    /\ IF IgnoreCM(Head(cmNotes)) THEN UNCHANGED queueVars ELSE Enqueue(Own)
    /\ UNCHANGED <<storeVars, lbNotes, cfg, workerVars, seenVars, lifeVars>>

\* filterConfigMap reads the two strings of cfg without synchronisation. While
\* the worker assigns one of them, the read may combine the new length with the
\* old nil pointer, and the comparison then faults.
TornRead ==
    /\ cmNotes # <<>>
    /\ LET n == Head(cmNotes) IN n.type = "update" /\ ~n.same
    /\ wpc = "setcfg"
    /\ \E p \in Protos : cfg[p] = NoName /\ wlb.cm[p] # NoName
    /\ exited' = "crash"
    /\ UNCHANGED <<queueVars, storeVars, noteVars, cfg, workerVars, seenVars, spc, backend,
                   backendStops, stopClosed, shutdown, stopLock, tpc>>

\* The loop of the delaying queue.
Requeue(k) ==
    /\ DelayOver(k)
    /\ UNCHANGED <<storeVars, noteVars, cfg, workerVars, seenVars, lifeVars>>

-----------------------------------------------------------------------------
(* The worker                                                               *)

\* wait.Until looks at the queue's own stopCh, which ShutDown closes together
\* with the queue, before it calls SyncQueue.worker.
WorkerLaunch ==
    /\ wpc = "launched"
    /\ wpc' = IF shuttingDown THEN "done" ELSE "entering"
    /\ UNCHANGED <<queueVars, storeVars, noteVars, cfg, wkey, wlb, wcm, seenVars, lifeVars>>

\* worker: waitGroup.Add(1).
WorkerEnter ==
    /\ wpc = "entering"
    /\ wpc' = "idle"
    /\ UNCHANGED <<queueVars, storeVars, noteVars, cfg, wkey, wlb, wcm, seenVars, lifeVars>>

\* processNextWorkItem: Get returns a key.
WorkerGet(k) ==
    /\ wpc = "idle"
    /\ Get(k)
    /\ wkey' = k
    /\ wpc' = "lookup"
    /\ UNCHANGED <<storeVars, noteVars, cfg, wlb, wcm, seenVars, lifeVars>>

\* processNextWorkItem: Get returns quit; the wait group is released.
WorkerQuit ==
    /\ wpc = "idle"
    /\ shuttingDown
    /\ queue = {}
    /\ wpc' = "done"
    /\ UNCHANGED <<queueVars, storeVars, noteVars, cfg, wkey, wlb, wcm, seenVars, lifeVars>>

\* The sync handler returns: handleSyncError, and the deferred Done.
SyncReturns(ok) ==
    /\ HandleSyncError(wkey, ok)
    /\ dropped' = (~ok /\ ~CanRetry(wkey))
    /\ wpc' = "idle"
    /\ wlb' = NoLB
    /\ wcm' = NoCMs

\* Mutant: a retry takes the load balancer of the last sync.
SyncLookupStale ==
    /\ wpc = "lookup"
    /\ LET found == "LoadBalancer" \in listed /\ lbs[wkey].live IN
       \/ /\ found /\ lbs[wkey].valid
          /\ wlb' = IF requeues[wkey] > 0 /\ seenLB # NoLB THEN seenLB ELSE lbs[wkey]
          /\ wpc' = "setcfg"
          /\ UNCHANGED <<queueVars, dropped, wcm>>
       \/ /\ ~(found /\ lbs[wkey].valid)
          /\ SyncReturns(~found)
    /\ UNCHANGED <<storeVars, noteVars, cfg, wkey, seenLB, seenCM, lifeVars>>

\* syncLoadBalancer up to ValidateLoadBalancer.
SyncLookup ==
    /\ wpc = "lookup"
    /\ LET found == "LoadBalancer" \in listed /\ lbs[wkey].live IN
       \/ /\ found /\ lbs[wkey].valid
          /\ wlb' = lbs[wkey]
          /\ wpc' = "setcfg"
          /\ UNCHANGED <<queueVars, dropped, wcm>>
       \/ /\ ~(found /\ lbs[wkey].valid)
          /\ SyncReturns(~found)
    /\ UNCHANGED <<storeVars, noteVars, cfg, wkey, seenLB, seenCM, lifeVars>>

\* syncLoadBalancer: a ConfigMap name that is still empty is taken over.
SyncSetConfigMaps ==
    /\ wpc = "setcfg"
    /\ cfg' = [p \in Protos |-> IF cfg[p] = NoName THEN wlb.cm[p] ELSE cfg[p]]
    /\ wpc' = "read"
    /\ UNCHANGED <<queueVars, storeVars, noteVars, wkey, wlb, wcm, seenVars, lifeVars>>

\* Backend.OnUpdate reads the ConfigMaps the load balancer names.
StoredCM(c) ==
    IF c \in CMNames /\ "ConfigMap" \in listed /\ cms[c].last # "delete" THEN cms[c].rv ELSE 0

OnUpdateRead ==
    /\ wpc = "read"
    /\ wcm' = [p \in Protos |-> StoredCM(wlb.cm[p])]
    /\ wpc' = "apply"
    /\ UNCHANGED <<queueVars, storeVars, noteVars, cfg, wkey, wlb, seenVars, lifeVars>>

\* Backend.OnUpdate applies what it read, or fails.
OnUpdateOk ==
    /\ wpc = "apply"
    /\ seenLB' = wlb
    /\ seenCM' = wcm
    /\ SyncReturns(TRUE)
    /\ UNCHANGED <<storeVars, noteVars, cfg, wkey, lifeVars>>

OnUpdateError ==
    /\ wpc = "apply"
    /\ SyncReturns(FALSE)
    /\ UNCHANGED <<storeVars, noteVars, cfg, wkey, seenLB, seenCM, lifeVars>>

-----------------------------------------------------------------------------
(* Start                                                                    *)

FactoryStart ==
    /\ spc = "start"
    /\ spc' = "wait"
    /\ UNCHANGED <<queueVars, storeVars, noteVars, cfg, workerVars, seenVars, backend,
                   backendStops, stopClosed, shutdown, stopLock, tpc, exited>>

\* WaitForCacheSync also returns when stopCh is closed; its error is only logged.
WaitForCacheSync ==
    /\ spc = "wait"
    /\ listed = Informers \/ stopClosed
    /\ spc' = "backend"
    /\ UNCHANGED <<queueVars, storeVars, noteVars, cfg, workerVars, seenVars, backend,
                   backendStops, stopClosed, shutdown, stopLock, tpc, exited>>

BackendStart ==
    /\ spc = "backend"
    /\ backend' = "running"
    /\ spc' = "waitstart"
    /\ UNCHANGED <<queueVars, storeVars, noteVars, cfg, workerVars, seenVars,
                   backendStops, stopClosed, shutdown, stopLock, tpc, exited>>

\* WaitForStart succeeds, or times out and Start returns without a worker.
WaitForStart(started) ==
    /\ spc = "waitstart"
    /\ spc' = IF started THEN "run" ELSE "returned"
    /\ UNCHANGED <<queueVars, storeVars, noteVars, cfg, workerVars, seenVars, backend,
                   backendStops, stopClosed, shutdown, stopLock, tpc, exited>>

\* Mutant: the worker is started before the backend.
QueueRunEarly ==
    /\ spc = "backend"
    /\ wpc = "off"
    /\ wpc' = "launched"
    /\ UNCHANGED <<queueVars, storeVars, noteVars, cfg, wkey, wlb, wcm, seenVars, spc, backend,
                   backendStops, stopClosed, shutdown, stopLock, tpc, exited>>

\* queue.Run(1).
QueueRun ==
    /\ spc = "run"
    /\ wpc' = "launched"
    /\ spc' = "block"
    /\ UNCHANGED <<queueVars, storeVars, noteVars, cfg, wkey, wlb, wcm, seenVars, backend,
                   backendStops, stopClosed, shutdown, stopLock, tpc, exited>>

StartReturns ==
    /\ spc = "block"
    /\ stopClosed
    /\ spc' = "returned"
    /\ UNCHANGED <<queueVars, storeVars, noteVars, cfg, workerVars, seenVars, backend,
                   backendStops, stopClosed, shutdown, stopLock, tpc, exited>>

-----------------------------------------------------------------------------
(* Stop, called by handleSigterm                                            *)

Sigterm(t) ==
    /\ tpc[t] = "off"
    /\ tpc' = [tpc EXCEPT ![t] = "called"]
    /\ UNCHANGED <<queueVars, storeVars, noteVars, cfg, workerVars, seenVars, spc, backend,
                   backendStops, stopClosed, shutdown, stopLock, exited>>

\* Mutant: Stop does not take the lock.
StopAcquireUnlocked(t) ==
    /\ tpc[t] = "called"
    /\ stopLock' = t
    /\ tpc' = [tpc EXCEPT ![t] = "locked"]
    /\ UNCHANGED <<queueVars, storeVars, noteVars, cfg, workerVars, seenVars, spc, backend,
                   backendStops, stopClosed, shutdown, exited>>

StopAcquire(t) ==
    /\ tpc[t] = "called"
    /\ stopLock = NoName
    /\ stopLock' = t
    /\ tpc' = [tpc EXCEPT ![t] = "locked"]
    /\ UNCHANGED <<queueVars, storeVars, noteVars, cfg, workerVars, seenVars, spc, backend,
                   backendStops, stopClosed, shutdown, exited>>

\* The second caller gets an error and releases the lock.
StopClose(t) ==
    /\ tpc[t] = "locked"
    /\ IF shutdown
       THEN /\ tpc' = [tpc EXCEPT ![t] = "returned"]
            /\ stopLock' = NoName
            /\ UNCHANGED <<shutdown, stopClosed>>
       ELSE /\ tpc' = [tpc EXCEPT ![t] = "closed"]
            /\ shutdown' = TRUE
            /\ stopClosed' = TRUE
            /\ UNCHANGED stopLock
    /\ UNCHANGED <<queueVars, storeVars, noteVars, cfg, workerVars, seenVars, spc, backend,
                   backendStops, exited>>

StopBackend(t) ==
    /\ tpc[t] = "closed"
    /\ backend' = "stopped"
    /\ backendStops' = backendStops + 1
    /\ tpc' = [tpc EXCEPT ![t] = "stopped"]
    /\ UNCHANGED <<queueVars, storeVars, noteVars, cfg, workerVars, seenVars, spc,
                   stopClosed, shutdown, stopLock, exited>>

StopQueue(t) ==
    /\ tpc[t] = "stopped"
    /\ QueueShutDown
    /\ tpc' = [tpc EXCEPT ![t] = "draining"]
    /\ UNCHANGED <<storeVars, noteVars, cfg, workerVars, seenVars, spc, backend,
                   backendStops, stopClosed, shutdown, stopLock, exited>>

\* waitGroup.Wait, and the deferred Unlock.
StopWait(t) ==
    /\ tpc[t] = "draining"
    /\ ~Working
    /\ stopLock' = NoName
    /\ tpc' = [tpc EXCEPT ![t] = "returned"]
    /\ UNCHANGED <<queueVars, storeVars, noteVars, cfg, workerVars, seenVars, spc, backend,
                   backendStops, stopClosed, shutdown, exited>>

\* handleSigterm: os.Exit.
Exit(t) ==
    /\ tpc[t] = "returned"
    /\ exited' = "exit"
    /\ UNCHANGED <<queueVars, storeVars, noteVars, cfg, workerVars, seenVars, spc, backend,
                   backendStops, stopClosed, shutdown, stopLock, tpc>>

-----------------------------------------------------------------------------
\* Nothing looks at the contents of another load balancer.
Cluster ==
    \/ \E v \in BOOLEAN, cm \in [Protos -> Names] : WriteLB(Own, v, cm)
    \/ \E k \in Keys \ {Own} : WriteLB(k, TRUE, [p \in Protos |-> NoName])
    \/ \E k \in Keys : DeleteLB(k) \/ Relist(k)
    \/ \E c \in CMNames, e \in {"add", "update", "delete"} : ChangeCM(c, e)
    \/ \E c \in CMNames : RelistCM(c)

Worker ==
    \/ WorkerLaunch
    \/ WorkerEnter
    \/ \E k \in Keys : WorkerGet(k)
    \/ WorkerQuit
    \/ SyncLookup
    \/ SyncSetConfigMaps
    \/ OnUpdateRead
    \/ OnUpdateOk
    \/ OnUpdateError

Start ==
    \/ FactoryStart
    \/ WaitForCacheSync
    \/ BackendStart
    \/ \E started \in BOOLEAN : WaitForStart(started)
    \/ QueueRun
    \/ StartReturns

Stop(t) ==
    \/ StopAcquire(t)
    \/ StopClose(t)
    \/ StopBackend(t)
    \/ StopQueue(t)
    \/ StopWait(t)
    \/ Exit(t)

Alive == exited = "no"

Next ==
    \/ Alive /\ Cluster
    \/ Alive /\ \E i \in Informers : List(i)
    \/ Alive /\ HandleLB
    \/ Alive /\ HandleCM
    \/ Alive /\ TornRead
    \/ Alive /\ \E k \in Keys : Requeue(k)
    \/ Alive /\ Worker
    \/ Alive /\ Start
    \/ Alive /\ \E t \in Stoppers : Sigterm(t) \/ Stop(t)
    \/ ~Alive /\ UNCHANGED vars

Spec == Init /\ [][Next]_vars

\* Every goroutine that can run eventually does: the Go scheduler is fair, a
\* List is retried until it succeeds, timers expire, and the backend's calls
\* return. Nothing makes the cluster change or a SIGTERM arrive.
Fairness ==
    /\ \A i \in Informers : WF_vars(Alive /\ List(i))
    /\ WF_vars(Alive /\ HandleLB)
    /\ WF_vars(Alive /\ HandleCM)
    /\ \A k \in Keys : WF_vars(Alive /\ Requeue(k))
    /\ WF_vars(Alive /\ Worker)
    /\ WF_vars(Alive /\ Start)
    /\ \A t \in Stoppers : WF_vars(Alive /\ Stop(t))

FairSpec == Spec /\ Fairness

-----------------------------------------------------------------------------
(* Properties                                                               *)

\* A notification that will put the own key on the queue.
LBEvent == \E i \in 1..Len(lbNotes) : ~IgnoreLB(lbNotes[i])

CMEvent(c) == \E i \in 1..Len(cmNotes) :
    cmNotes[i].name = c /\ cmNotes[i].type = "update" /\ ~cmNotes[i].same

\* The own key waits for the worker, for its retry, or is being processed.
Queued == Own \in dirty \cup processing \cup delayed

\* The work queue's own contract (comment at Type.queue): what is ready is
\* exactly what is dirty and not being processed; and the handlers' filter and
\* the single worker keep every key but the own one out of it.
QueueConsistent ==
    /\ queue = dirty \ processing
    /\ dirty \cup processing \cup delayed \subseteq {Own}
    /\ processing = IF wpc \in {"lookup", "setcfg", "read", "apply"} THEN {wkey} ELSE {}

\* No update of the load balancer is lost: unless the last sync gave up or the
\* provider is shutting down, a version of the load balancer that the backend
\* has not applied is announced by a pending notification or the queue.
NoLostLBUpdate ==
    ("LoadBalancer" \in listed /\ lbs[Own].live /\ ~dropped /\ ~shuttingDown)
        => (seenLB = lbs[Own] \/ LBEvent \/ Queued)

\* No update of a watched ConfigMap is lost: after the backend applied a load
\* balancer that names the ConfigMap the provider watches, an update of that
\* ConfigMap it has not applied is still announced.
NoLostCMUpdate ==
    \A p \in Protos :
        LET c == seenLB.cm[p] IN
        (c # NoName /\ c = cfg[p] /\ cms[c].last = "update" /\ lbs[Own].live
            /\ ~dropped /\ ~shutdown)
        => (seenCM[p] = cms[c].rv \/ CMEvent(c) \/ LBEvent \/ Queued)

\* The backend is updated only after it was started: OnUpdate runs in the
\* worker, which Start launches after Backend.Start and WaitForStart.
UpdateAfterStart == wpc \in {"read", "apply"} => backend # "new"

\* Concurrent callers of Stop shut the provider down once (comment at
\* stopLock), and the one that does holds the lock while it drains.
StopOnce ==
    /\ backendStops <= 1
    /\ \A t, u \in Stoppers :
        (t # u /\ tpc[t] \in {"closed", "stopped", "draining"}) =>
            tpc[u] \in {"off", "called"}

\* Stop terminates the process: the worker drains the queue and quits.
StopTerminates == \A t \in Stoppers : (tpc[t] = "called") ~> (exited # "no")

\* With a running worker and without a shutdown, the newest load balancer is
\* applied for good, or its sync was dropped, or it is deleted.
EventuallySynced ==
    (wpc # "off") ~>
        [](\/ seenLB = lbs[Own] \/ ~lbs[Own].live \/ dropped \/ shutdown \/ exited # "no")

\* The provider as its backend sees it. OnUpdate is prepared by the lookup of
\* syncLoadBalancer, and the version it gets is the one found there.
Contract == INSTANCE ProviderContract WITH
    version <- lbs[Own].rv,
    handed  <- wlb.rv,
    applied <- seenLB.rv,
    started <- spc \notin {"start", "wait", "backend"},
    stopped <- backendStops > 0

\* The provider keeps the promises a backend relies on, although four kinds of
\* goroutines drive it: one Start, one Stop, OnUpdate one at a time, after Start,
\* each with the newest load balancer of its moment.
ImplementsContract == Contract!Spec

\* "make sure the right ConfigMaps cache" (syncLoadBalancer): an update of a
\* ConfigMap that the applied load balancer names is applied or announced.
RightConfigMaps ==
    \A p \in Protos :
        LET c == seenLB.cm[p] IN
        (c # NoName /\ cms[c].last = "update" /\ lbs[Own].live /\ ~dropped /\ ~shutdown)
        => (seenCM[p] = cms[c].rv \/ CMEvent(c) \/ LBEvent \/ Queued)

=============================================================================
