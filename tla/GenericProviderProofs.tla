------------------------ MODULE GenericProviderProofs ------------------------
(* Proofs of the invariants of GenericProvider, for all constants.          *)
EXTENDS GenericProvider, SequenceTheorems, TLAPS

\* The work queue keeps its types whatever the queue operation.
LEMMA QueueTyping ==
    ASSUME QueueTypeOK, NEW k \in Keys, NEW ok \in BOOLEAN,
           \/ Enqueue(k) \/ Get(k) \/ HandleSyncError(k, ok) \/ DelayOver(k) \/ QueueShutDown
           \/ UNCHANGED queueVars
    PROVE  QueueTypeOK'
<1> USE QueueAssumption
<1>1. CASE Enqueue(k)
  BY <1>1 DEF Enqueue, Add, QueueTypeOK
<1>2. CASE Get(k)
  BY <1>2 DEF Get, QueueTypeOK
<1>3. CASE HandleSyncError(k, ok)
  BY <1>3 DEF HandleSyncError, CanRetry, Done, QueueTypeOK
<1>4. CASE DelayOver(k)
  BY <1>4 DEF DelayOver, Add, QueueTypeOK
<1>5. CASE QueueShutDown
  BY <1>5 DEF QueueShutDown, QueueTypeOK
<1>6. CASE UNCHANGED queueVars
  BY <1>6 DEF queueVars, QueueTypeOK
<1>7. QED
  BY <1>1, <1>2, <1>3, <1>4, <1>5, <1>6

-----------------------------------------------------------------------------
(* Type correctness                                                         *)

\* The inputs of the cluster's writes are well typed.
LEMMA ClusterActions ==
    ASSUME Cluster
    PROVE  \/ \E k \in Keys, v \in BOOLEAN, cm \in [Protos -> Names] : WriteLB(k, v, cm)
           \/ \E k \in Keys : DeleteLB(k) \/ Relist(k)
           \/ \E c \in CMNames, e \in {"add", "update", "delete"} : ChangeCM(c, e)
           \/ \E c \in CMNames : RelistCM(c)
<1>1. Own \in Keys
  BY ProviderAssumption
<1>2. TRUE \in BOOLEAN /\ [p \in Protos |-> NoName] \in [Protos -> Names]
  BY DEF Names
<1>3. QED
  BY <1>1, <1>2 DEF Cluster

\* A group of variables that a step leaves alone keeps its type.
LEMMA UnchangedTyping ==
    /\ StoreTypeOK /\ UNCHANGED storeVars => StoreTypeOK'
    /\ NoteTypeOK /\ UNCHANGED noteVars => NoteTypeOK'
    /\ WorkerTypeOK /\ UNCHANGED workerVars => WorkerTypeOK'
    /\ SeenTypeOK /\ UNCHANGED seenVars => SeenTypeOK'
    /\ LifeTypeOK /\ UNCHANGED lifeVars => LifeTypeOK'
    /\ QueueTypeOK /\ UNCHANGED queueVars => QueueTypeOK'
BY DEF StoreTypeOK, storeVars, NoteTypeOK, noteVars, WorkerTypeOK, workerVars, SeenTypeOK,
       seenVars, LifeTypeOK, lifeVars, QueueTypeOK, queueVars

\* NotifyLB and NotifyCM only append a well-typed notification.
LEMMA NotifyTyping ==
    ASSUME NoteTypeOK, NEW e \in {"add", "update", "delete"}, NEW same \in BOOLEAN
    PROVE  /\ \A k \in Keys : NotifyLB(e, k, same) /\ UNCHANGED cmNotes => NoteTypeOK'
           /\ \A c \in CMNames : NotifyCM(e, c, same) /\ UNCHANGED lbNotes => NoteTypeOK'
<1>1. \A k \in Keys : [type |-> e, key |-> k, same |-> same] \in LBNote
  BY DEF LBNote
<1>2. \A c \in CMNames : [type |-> e, name |-> c, same |-> same] \in CMNote
  BY DEF CMNote
<1>3. QED
  <2>1. \A n \in LBNote : Append(lbNotes, n) \in Seq(LBNote)
    BY AppendProperties DEF NoteTypeOK
  <2>2. \A n \in CMNote : Append(cmNotes, n) \in Seq(CMNote)
    BY AppendProperties DEF NoteTypeOK
  <2>3. ASSUME NEW k \in Keys, NotifyLB(e, k, same), UNCHANGED cmNotes PROVE NoteTypeOK'
    BY <1>1, <2>1, <2>3 DEF NoteTypeOK, NotifyLB
  <2>4. ASSUME NEW c \in CMNames, NotifyCM(e, c, same), UNCHANGED lbNotes PROVE NoteTypeOK'
    BY <1>2, <2>2, <2>4 DEF NoteTypeOK, NotifyCM
  <2>5. QED
    BY <2>3, <2>4

\* The sync handler's return keeps the types of the worker and the queue.
LEMMA ReturnTyping ==
    ASSUME QueueTypeOK, WorkerTypeOK, NEW ok \in BOOLEAN, SyncReturns(ok), UNCHANGED wkey
    PROVE  QueueTypeOK' /\ WorkerTypeOK' /\ dropped' \in BOOLEAN
<1> USE ProviderAssumption, QueueAssumption
<1>1. QueueTypeOK'
  BY QueueTyping DEF SyncReturns, WorkerTypeOK
<1>2. WorkerTypeOK'
  BY DEF SyncReturns, WorkerTypeOK, NoLB, NoCMs, LoadBalancer, Names
<1>3. QED
  BY <1>1, <1>2 DEF SyncReturns

\* The provider's variables have the types the code gives them, whatever the
\* interleaving of its goroutines.
THEOREM TypeCorrect == Spec => []TypeOK
<1> USE ProviderAssumption, QueueAssumption
<1>1. Init => TypeOK
  <2> SUFFICES ASSUME Init PROVE TypeOK
    OBVIOUS
  <2>1. NoLB \in LoadBalancer /\ NoCM \in ConfigMap /\ NoCMs \in [Protos -> 0..MaxCMWrites]
    BY DEF NoLB, LoadBalancer, NoCM, ConfigMap, NoCMs, Names
  <2>2. [rv |-> 1, live |-> TRUE, valid |-> TRUE, cm |-> cfg] \in LoadBalancer
    BY DEF Init, LoadBalancer
  <2>3. QueueInit
    BY DEF Init
  <2>9. QueueTypeOK
    <3>1. [k \in Keys |-> 0] \in [Keys -> 0..MaxRetries]
      OBVIOUS
    <3>2. QED
      BY <2>3, <3>1, Zenon DEF QueueInit, QueueTypeOK
  <2>4. StoreTypeOK
    BY <2>1, <2>2 DEF Init, StoreTypeOK
  <2>5. NoteTypeOK
    BY DEF Init, NoteTypeOK
  <2>6. WorkerTypeOK /\ SeenTypeOK
    BY <2>1 DEF Init, WorkerTypeOK, SeenTypeOK
  <2>7. LifeTypeOK
    BY DEF Init, LifeTypeOK
  <2>8. QED
    BY <2>9, <2>4, <2>5, <2>6, <2>7 DEF Init, TypeOK
<1>2. TypeOK /\ [Next]_vars => TypeOK'
  <2> SUFFICES ASSUME TypeOK, [Next]_vars PROVE TypeOK'
    OBVIOUS
  <2> USE UnchangedTyping DEF TypeOK
  <2>1. ASSUME NEW k \in Keys, NEW v \in BOOLEAN, NEW cm \in [Protos -> Names],
               WriteLB(k, v, cm)
        PROVE  TypeOK'
    <3>1. StoreTypeOK'
      BY <2>1 DEF WriteLB, StoreTypeOK, LoadBalancer
    <3>2. NoteTypeOK'
      BY <2>1, NotifyTyping DEF WriteLB
    <3>3. QED
      BY <2>1, <3>1, <3>2 DEF WriteLB
  <2>2. ASSUME NEW k \in Keys, DeleteLB(k) PROVE TypeOK'
    <3>1. StoreTypeOK'
      BY <2>2 DEF DeleteLB, StoreTypeOK, LoadBalancer
    <3>2. NoteTypeOK'
      BY <2>2, NotifyTyping DEF DeleteLB
    <3>3. QED
      BY <2>2, <3>1, <3>2 DEF DeleteLB
  <2>3. ASSUME NEW k \in Keys, Relist(k) PROVE TypeOK'
    <3>1. NoteTypeOK'
      BY <2>3, NotifyTyping DEF Relist
    <3>2. QED
      BY <2>3, <3>1 DEF Relist
  <2>4. ASSUME NEW c \in CMNames, NEW e \in {"add", "update", "delete"}, ChangeCM(c, e) PROVE TypeOK'
    <3>1. StoreTypeOK'
      BY <2>4 DEF ChangeCM, StoreTypeOK, ConfigMap
    <3>2. NoteTypeOK'
      BY <2>4, NotifyTyping DEF ChangeCM
    <3>3. QED
      BY <2>4, <3>1, <3>2 DEF ChangeCM
  <2>5. ASSUME NEW c \in CMNames, RelistCM(c) PROVE TypeOK'
    <3>1. NoteTypeOK'
      BY <2>5, NotifyTyping DEF RelistCM
    <3>2. QED
      BY <2>5, <3>1 DEF RelistCM
  <2>6. ASSUME NEW i \in Informers, List(i) PROVE TypeOK'
    <3>1. StoreTypeOK'
      BY <2>6 DEF List, StoreTypeOK
    <3>2. NoteTypeOK'
      <4>1. [type |-> "add", key |-> Own, same |-> FALSE] \in LBNote
        BY DEF LBNote
      <4>2. QED
        <5>1. lbNotes \in Seq(LBNote) /\ cmNotes \in Seq(CMNote) /\ UNCHANGED cmNotes
          BY <2>6 DEF List, NoteTypeOK
        <5>2. \A n \in LBNote : Append(lbNotes, n) \in Seq(LBNote)
          BY <5>1, AppendProperties
        <5>3. lbNotes' \in Seq(LBNote)
          BY <2>6, <4>1, <5>1, <5>2, Zenon DEF List
        <5>4. QED
          BY <5>1, <5>3 DEF NoteTypeOK
    <3>3. QED
      BY <2>6, <3>1, <3>2 DEF List
  <2>7. ASSUME HandleLB PROVE TypeOK'
    <3>1. NoteTypeOK'
      BY <2>7 DEF HandleLB, NoteTypeOK
    <3>2. QueueTypeOK'
      <4>1. Head(lbNotes) \in LBNote
        BY <2>7 DEF HandleLB, NoteTypeOK
      <4>2. Head(lbNotes).key \in Keys
        BY <4>1 DEF LBNote
      <4>3. QED
        BY <2>7, <4>2, QueueTyping DEF HandleLB
    <3>3. QED
      BY <2>7, <3>1, <3>2 DEF HandleLB
  <2>8. ASSUME HandleCM PROVE TypeOK'
    <3>1. NoteTypeOK'
      BY <2>8 DEF HandleCM, NoteTypeOK
    <3>2. QueueTypeOK'
      BY <2>8, QueueTyping DEF HandleCM
    <3>3. QED
      BY <2>8, <3>1, <3>2 DEF HandleCM
  <2>9. ASSUME TornRead PROVE TypeOK'
    <3>1. LifeTypeOK'
      BY <2>9 DEF TornRead, LifeTypeOK
    <3>2. QED
      BY <2>9, <3>1 DEF TornRead
  <2>10. ASSUME NEW k \in Keys, Requeue(k) PROVE TypeOK'
    BY <2>10, QueueTyping DEF Requeue
  <2>11. ASSUME WorkerLaunch \/ WorkerEnter \/ WorkerQuit PROVE TypeOK'
    <3>1. WorkerTypeOK'
      BY <2>11 DEF WorkerLaunch, WorkerEnter, WorkerQuit, WorkerTypeOK
    <3>2. QED
      BY <2>11, <3>1 DEF WorkerLaunch, WorkerEnter, WorkerQuit
  <2>12. ASSUME NEW k \in Keys, WorkerGet(k) PROVE TypeOK'
    <3>1. WorkerTypeOK'
      BY <2>12 DEF WorkerGet, WorkerTypeOK
    <3>2. QueueTypeOK'
      BY <2>12, QueueTyping DEF WorkerGet
    <3>3. QED
      BY <2>12, <3>1, <3>2 DEF WorkerGet
  <2>13. ASSUME SyncLookup PROVE TypeOK'
    <3>1. QueueTypeOK' /\ WorkerTypeOK' /\ dropped' \in BOOLEAN
      <4> DEFINE found == "LoadBalancer" \in listed /\ lbs[wkey].live
      <4>1. CASE found /\ lbs[wkey].valid
        <5>1. wlb' = lbs[wkey] /\ wpc' = "setcfg" /\ UNCHANGED <<queueVars, dropped, wcm, wkey>>
          BY <2>13, <4>1 DEF SyncLookup
        <5>2. lbs[wkey] \in LoadBalancer
          BY DEF StoreTypeOK, WorkerTypeOK
        <5>3. QED
          BY <5>1, <5>2 DEF WorkerTypeOK, SeenTypeOK
      <4>2. CASE ~(found /\ lbs[wkey].valid)
        <5>1. SyncReturns(~found) /\ UNCHANGED wkey
          BY <2>13, <4>2 DEF SyncLookup
        <5>2. (~found) \in BOOLEAN
          OBVIOUS
        <5> HIDE DEF found
        <5>3. QED
          BY <5>1, <5>2, ReturnTyping
      <4>3. QED
        BY <4>1, <4>2
    <3>2. SeenTypeOK'
      BY <2>13, <3>1 DEF SyncLookup, SeenTypeOK
    <3>3. QED
      BY <2>13, <3>1, <3>2 DEF SyncLookup
  <2>14. ASSUME SyncSetConfigMaps PROVE TypeOK'
    <3>1. cfg' \in [Protos -> Names]
      BY <2>14 DEF SyncSetConfigMaps, WorkerTypeOK, LoadBalancer
    <3>2. WorkerTypeOK'
      BY <2>14 DEF SyncSetConfigMaps, WorkerTypeOK
    <3>3. QED
      BY <2>14, <3>1, <3>2 DEF SyncSetConfigMaps
  <2>15. ASSUME OnUpdateRead PROVE TypeOK'
    <3>1. WorkerTypeOK'
      BY <2>15 DEF OnUpdateRead, WorkerTypeOK, StoredCM, StoreTypeOK, ConfigMap
    <3>2. QED
      BY <2>15, <3>1 DEF OnUpdateRead
  <2>16. ASSUME OnUpdateOk PROVE TypeOK'
    <3>1. QueueTypeOK' /\ WorkerTypeOK' /\ dropped' \in BOOLEAN
      BY <2>16, ReturnTyping DEF OnUpdateOk
    <3>2. SeenTypeOK'
      BY <2>16, <3>1 DEF OnUpdateOk, SeenTypeOK, WorkerTypeOK
    <3>3. QED
      BY <2>16, <3>1, <3>2 DEF OnUpdateOk
  <2>17. ASSUME OnUpdateError PROVE TypeOK'
    <3>1. QueueTypeOK' /\ WorkerTypeOK' /\ dropped' \in BOOLEAN
      BY <2>17, ReturnTyping DEF OnUpdateError
    <3>2. SeenTypeOK'
      BY <2>17, <3>1 DEF OnUpdateError, SeenTypeOK
    <3>3. QED
      BY <2>17, <3>1, <3>2 DEF OnUpdateError
  <2>18. ASSUME FactoryStart \/ WaitForCacheSync \/ BackendStart \/ StartReturns PROVE TypeOK'
    <3>1. LifeTypeOK'
      BY <2>18 DEF FactoryStart, WaitForCacheSync, BackendStart, StartReturns, LifeTypeOK
    <3>2. QED
      BY <2>18, <3>1 DEF FactoryStart, WaitForCacheSync, BackendStart, StartReturns
  <2>19. ASSUME NEW started \in BOOLEAN, WaitForStart(started) PROVE TypeOK'
    <3>1. LifeTypeOK'
      BY <2>19 DEF WaitForStart, LifeTypeOK
    <3>2. QED
      BY <2>19, <3>1 DEF WaitForStart
  <2>20. ASSUME QueueRun PROVE TypeOK'
    <3>1. LifeTypeOK'
      BY <2>20 DEF QueueRun, LifeTypeOK
    <3>2. WorkerTypeOK'
      BY <2>20 DEF QueueRun, WorkerTypeOK
    <3>3. QED
      BY <2>20, <3>1, <3>2 DEF QueueRun
  <2>21. ASSUME NEW t \in Stoppers, Sigterm(t) \/ StopAcquire(t) \/ StopClose(t) PROVE TypeOK'
    <3>1. LifeTypeOK'
      BY <2>21 DEF Sigterm, StopAcquire, StopClose, LifeTypeOK
    <3>2. QED
      BY <2>21, <3>1 DEF Sigterm, StopAcquire, StopClose
  <2>22. ASSUME NEW t \in Stoppers, StopBackend(t) \/ StopWait(t) \/ Exit(t) PROVE TypeOK'
    <3>1. LifeTypeOK'
      BY <2>22 DEF StopBackend, StopWait, Exit, LifeTypeOK
    <3>2. QED
      BY <2>22, <3>1 DEF StopBackend, StopWait, Exit
  <2>23. ASSUME NEW t \in Stoppers, StopQueue(t) PROVE TypeOK'
    <3>1. LifeTypeOK'
      BY <2>23 DEF StopQueue, LifeTypeOK
    <3>2. QueueTypeOK'
      BY <2>23, QueueTyping DEF StopQueue
    <3>3. QED
      BY <2>23, <3>1, <3>2 DEF StopQueue
  <2>24. ASSUME UNCHANGED vars PROVE TypeOK'
    BY <2>24 DEF vars
  <2>99. QED
    BY <2>1, <2>2, <2>3, <2>4, <2>5, <2>6, <2>7, <2>8, <2>9, <2>10, <2>11, <2>12,
       <2>13, <2>14, <2>15, <2>16, <2>17, <2>18, <2>19, <2>20, <2>21, <2>22, <2>23, <2>24,
       ClusterActions
       DEF Next, Worker, Start, Stop
<1>3. QED
  BY <1>1, <1>2, PTL DEF Spec

-----------------------------------------------------------------------------
(* Start                                                                    *)

\* The worker does not exist before queue.Run, and the backend has been started
\* by the time Start waits for it.
StartOrder ==
    /\ spc \in {"start", "wait", "backend", "waitstart", "run"} => wpc = "off"
    /\ spc \notin {"start", "wait", "backend"} => backend # "new"

\* StartOrder is inductive.
THEOREM StartOrderCorrect == Spec => []StartOrder
<1>1. Init => StartOrder
  BY DEF Init, StartOrder
<1>2. TypeOK /\ StartOrder /\ [Next]_vars => StartOrder'
  <2> SUFFICES ASSUME TypeOK, StartOrder, [Next]_vars PROVE StartOrder'
    OBVIOUS
  <2> USE DEF StartOrder, workerVars, lifeVars
  <2>1. ASSUME Cluster \/ (\E i \in Informers : List(i)) \/ HandleLB \/ HandleCM \/ TornRead
               \/ \E k \in Keys : Requeue(k)
        PROVE  StartOrder'
    BY <2>1 DEF Cluster, WriteLB, DeleteLB, Relist, ChangeCM, RelistCM, List, HandleLB, HandleCM,
                TornRead, Requeue
  <2>2. ASSUME Worker PROVE StartOrder'
    BY <2>2 DEF Worker, WorkerLaunch, WorkerEnter, WorkerGet, WorkerQuit, SyncLookup, SyncReturns,
                SyncSetConfigMaps, OnUpdateRead, OnUpdateOk, OnUpdateError
  <2>3. ASSUME Start PROVE StartOrder'
    BY <2>3 DEF Start, FactoryStart, WaitForCacheSync, BackendStart, WaitForStart, QueueRun,
                StartReturns
  <2>4. ASSUME NEW t \in Stoppers, Sigterm(t) \/ Stop(t) PROVE StartOrder'
    BY <2>4 DEF Sigterm, Stop, StopAcquire, StopClose, StopBackend, StopQueue, StopWait, Exit
  <2>5. ASSUME UNCHANGED vars PROVE StartOrder'
    BY <2>5 DEF vars
  <2>6. QED
    BY <2>1, <2>2, <2>3, <2>4, <2>5 DEF Next
<1>3. QED
  BY <1>1, <1>2, TypeCorrect, PTL DEF Spec

\* The backend is never updated before it was started.
THEOREM UpdateAfterStartCorrect == Spec => []UpdateAfterStart
<1>1. TypeOK /\ StartOrder => UpdateAfterStart
  BY DEF StartOrder, UpdateAfterStart, TypeOK, LifeTypeOK
<1>2. QED
  BY <1>1, TypeCorrect, StartOrderCorrect, PTL

-----------------------------------------------------------------------------
(* The queue                                                                *)

\* What a step of the provider does to the queue and the worker's key: every
\* step is one of a few queue operations on the own key.
QueueStep ==
    \/ Enqueue(Own) /\ UNCHANGED <<wpc, wkey>>
    \/ wpc = "idle" /\ wpc' = "lookup" /\ \E k \in Keys : Get(k) /\ wkey' = k
    \/ /\ wpc \in {"lookup", "apply"} /\ wpc' = "idle" /\ wkey' = wkey
       /\ \E ok \in BOOLEAN : HandleSyncError(wkey, ok)
    \/ (\E k \in Keys : DelayOver(k)) /\ UNCHANGED <<wpc, wkey>>
    \/ QueueShutDown /\ UNCHANGED <<wpc, wkey>>
    \/ UNCHANGED <<queueVars, wpc, wkey>>
    \/ /\ UNCHANGED <<queueVars, wkey>>
       /\ \/ {wpc, wpc'} \subseteq {"off", "launched", "entering", "idle", "done"}
          \/ {wpc, wpc'} \subseteq {"lookup", "setcfg", "read", "apply"}

\* The queue stays consistent under every queue operation of the provider.
LEMMA QueueStepConsistent ==
    ASSUME TypeOK, QueueConsistent, QueueStep
    PROVE  QueueConsistent'
<1> USE DEF QueueConsistent
<1>1. CASE Enqueue(Own) /\ UNCHANGED <<wpc, wkey>>
  BY <1>1 DEF Enqueue, Add
<1>2. CASE wpc = "idle" /\ wpc' = "lookup" /\ \E k \in Keys : Get(k) /\ wkey' = k
  BY <1>2 DEF Get
<1>3. CASE /\ wpc \in {"lookup", "apply"} /\ wpc' = "idle" /\ wkey' = wkey
           /\ \E ok \in BOOLEAN : HandleSyncError(wkey, ok)
  BY <1>3 DEF HandleSyncError, Done
<1>4. CASE (\E k \in Keys : DelayOver(k)) /\ UNCHANGED <<wpc, wkey>>
  BY <1>4 DEF DelayOver, Add
<1>5. CASE QueueShutDown /\ UNCHANGED <<wpc, wkey>>
  BY <1>5 DEF QueueShutDown
<1>6. CASE UNCHANGED <<queueVars, wpc, wkey>>
  BY <1>6 DEF queueVars
<1>7. CASE /\ UNCHANGED <<queueVars, wkey>>
           /\ \/ {wpc, wpc'} \subseteq {"off", "launched", "entering", "idle", "done"}
              \/ {wpc, wpc'} \subseteq {"lookup", "setcfg", "read", "apply"}
  BY <1>7 DEF queueVars
<1>8. QED
  BY <1>1, <1>2, <1>3, <1>4, <1>5, <1>6, <1>7 DEF QueueStep

\* Every step of the provider is such a queue operation.
LEMMA NextIsQueueStep ==
    ASSUME TypeOK, StartOrder, [Next]_vars
    PROVE  QueueStep
<1> USE DEF workerVars
<1>1. ASSUME Cluster \/ (\E i \in Informers : List(i)) \/ TornRead PROVE QueueStep
  BY <1>1 DEF QueueStep, Cluster, WriteLB, DeleteLB, Relist, ChangeCM, RelistCM, List, TornRead
<1>2. ASSUME HandleLB PROVE QueueStep
  BY <1>2 DEF QueueStep, HandleLB, IgnoreLB, filterLoadBalancer
<1>3. ASSUME HandleCM PROVE QueueStep
  BY <1>3 DEF QueueStep, HandleCM
<1>4. ASSUME NEW k \in Keys, Requeue(k) PROVE QueueStep
  BY <1>4 DEF QueueStep, Requeue
<1>5. ASSUME WorkerLaunch \/ WorkerEnter \/ WorkerQuit PROVE QueueStep
  BY <1>5 DEF QueueStep, WorkerLaunch, WorkerEnter, WorkerQuit
<1>6. ASSUME NEW k \in Keys, WorkerGet(k) PROVE QueueStep
  BY <1>6 DEF QueueStep, WorkerGet
<1>7. ASSUME SyncLookup PROVE QueueStep
  BY <1>7 DEF QueueStep, SyncLookup, SyncReturns
<1>8. ASSUME SyncSetConfigMaps \/ OnUpdateRead PROVE QueueStep
  BY <1>8 DEF QueueStep, SyncSetConfigMaps, OnUpdateRead
<1>9. ASSUME OnUpdateOk \/ OnUpdateError PROVE QueueStep
  BY <1>9 DEF QueueStep, OnUpdateOk, OnUpdateError, SyncReturns
<1>10. ASSUME FactoryStart \/ WaitForCacheSync \/ BackendStart \/ StartReturns
              \/ \E started \in BOOLEAN : WaitForStart(started)
       PROVE  QueueStep
  BY <1>10 DEF QueueStep, FactoryStart, WaitForCacheSync, BackendStart, StartReturns, WaitForStart
<1>11. ASSUME QueueRun PROVE QueueStep
  BY <1>11 DEF QueueStep, QueueRun, StartOrder
<1>12. ASSUME NEW t \in Stoppers, Sigterm(t) \/ Stop(t) PROVE QueueStep
  BY <1>12 DEF QueueStep, Sigterm, Stop, StopAcquire, StopClose, StopBackend, StopQueue, StopWait,
               Exit
<1>13. ASSUME UNCHANGED vars PROVE QueueStep
  BY <1>13 DEF QueueStep, vars
<1>14. QED
  BY <1>1, <1>2, <1>3, <1>4, <1>5, <1>6, <1>7, <1>8, <1>9, <1>10, <1>11, <1>12, <1>13
     DEF Next, Worker, Start

\* The work queue keeps its contract and holds nothing but the own key.
THEOREM QueueCorrect == Spec => []QueueConsistent
<1>1. Init => QueueConsistent
  BY DEF Init, QueueInit, QueueConsistent
<1>2. TypeOK /\ StartOrder /\ QueueConsistent /\ [Next]_vars => QueueConsistent'
  BY QueueStepConsistent, NextIsQueueStep
<1>3. QED
  BY <1>1, <1>2, TypeCorrect, StartOrderCorrect, PTL DEF Spec

-----------------------------------------------------------------------------
(* Stop                                                                     *)

InStop(t) == tpc[t] \in {"locked", "closed", "stopped", "draining"}
Stopping(t) == tpc[t] \in {"closed", "stopped", "draining"}

\* A caller inside Stop holds the lock; the shutdown flag is set by the first
\* one, who stops the backend once; nobody returns while it is at work.
StopLocked ==
    /\ \A t \in Stoppers : InStop(t) => stopLock = t
    /\ \A t \in Stoppers : Stopping(t) => shutdown
    /\ ~shutdown => backendStops = 0
    /\ \A t \in Stoppers : tpc[t] = "closed" => backendStops = 0
    /\ backendStops <= 1
    /\ \A t, u \in Stoppers : tpc[u] = "returned" => shutdown /\ ~Stopping(t)

\* StopLocked is inductive.
LEMMA StopLockedCorrect == Spec => []StopLocked
<1> USE ProviderAssumption
<1>1. Init => StopLocked
  BY DEF Init, StopLocked, InStop, Stopping
<1>2. TypeOK /\ StopLocked /\ [Next]_vars => StopLocked'
  <2> SUFFICES ASSUME TypeOK, StopLocked, [Next]_vars PROVE StopLocked'
    OBVIOUS
  <2> USE DEF StopLocked, InStop, Stopping
  <2>0. /\ tpc \in [Stoppers -> {"off", "called", "locked", "closed", "stopped", "draining", "returned"}]
        /\ backendStops \in Nat
    BY DEF TypeOK, LifeTypeOK
  <2>1. ASSUME UNCHANGED <<tpc, stopLock, shutdown, backendStops>> PROVE StopLocked'
    BY <2>1
  <2>2. ASSUME NEW t \in Stoppers, Sigterm(t) PROVE StopLocked'
    BY <2>0, <2>2 DEF Sigterm
  <2>3. ASSUME NEW t \in Stoppers, StopAcquire(t) PROVE StopLocked'
    BY <2>0, <2>3 DEF StopAcquire
  <2>4. ASSUME NEW t \in Stoppers, StopClose(t) PROVE StopLocked'
    <3>1. CASE shutdown
      BY <2>0, <2>4, <3>1 DEF StopClose
    <3>2. CASE ~shutdown
      BY <2>0, <2>4, <3>2 DEF StopClose
    <3>3. QED
      BY <3>1, <3>2
  <2>5. ASSUME NEW t \in Stoppers, StopBackend(t) PROVE StopLocked'
    BY <2>0, <2>5 DEF StopBackend
  <2>6. ASSUME NEW t \in Stoppers, StopQueue(t) PROVE StopLocked'
    BY <2>0, <2>6 DEF StopQueue
  <2>7. ASSUME NEW t \in Stoppers, StopWait(t) PROVE StopLocked'
    BY <2>0, <2>7 DEF StopWait
  <2>8. ASSUME NEW t \in Stoppers, Exit(t) PROVE StopLocked'
    BY <2>1, <2>8 DEF Exit
  <2>9. ASSUME Cluster \/ (\E i \in Informers : List(i)) \/ HandleLB \/ HandleCM \/ TornRead
               \/ (\E k \in Keys : Requeue(k)) \/ Start
        PROVE  StopLocked'
    BY <2>1, <2>9 DEF Cluster, WriteLB, DeleteLB, Relist, ChangeCM, RelistCM, List, HandleLB,
         HandleCM, TornRead, Requeue, Start, FactoryStart, WaitForCacheSync, BackendStart,
         WaitForStart, QueueRun, StartReturns, lifeVars
  <2>10. ASSUME Worker PROVE StopLocked'
    BY <2>1, <2>10 DEF Worker, WorkerLaunch, WorkerEnter, WorkerGet, WorkerQuit, SyncLookup,
         SyncReturns, SyncSetConfigMaps, OnUpdateRead, OnUpdateOk, OnUpdateError, lifeVars
  <2>11. ASSUME UNCHANGED vars PROVE StopLocked'
    BY <2>1, <2>11 DEF vars, lifeVars
  <2>12. QED
    BY <2>2, <2>3, <2>4, <2>5, <2>6, <2>7, <2>8, <2>9, <2>10, <2>11 DEF Next, Stop
<1>3. QED
  BY <1>1, <1>2, TypeCorrect, PTL DEF Spec

\* Concurrent callers of Stop shut the provider down exactly once.
THEOREM StopOnceCorrect == Spec => []StopOnce
<1>1. TypeOK /\ StopLocked => StopOnce
  BY DEF TypeOK, LifeTypeOK, StopLocked, InStop, Stopping, StopOnce
<1>2. QED
  BY <1>1, TypeCorrect, StopLockedCorrect, PTL

-----------------------------------------------------------------------------
(* Load balancer updates                                                    *)

\* A notification that counts survives in a longer list of notifications, and
\* appending one that counts makes the list have one.
LEMMA LBEventAppend ==
    ASSUME lbNotes \in Seq(LBNote), NEW n \in LBNote, lbNotes' = Append(lbNotes, n),
           LBEvent \/ ~IgnoreLB(n)
    PROVE  LBEvent'
<1>1. /\ Len(lbNotes') = Len(lbNotes) + 1
      /\ lbNotes'[Len(lbNotes) + 1] = n
      /\ \A i \in 1..Len(lbNotes) : lbNotes'[i] = lbNotes[i]
      /\ Len(lbNotes) \in Nat
  BY AppendProperties
<1>2. CASE LBEvent
  <2>1. PICK i \in 1..Len(lbNotes) : ~IgnoreLB(lbNotes[i])
    BY <1>2 DEF LBEvent
  <2>2. i \in 1..Len(lbNotes') /\ lbNotes'[i] = lbNotes[i]
    BY <1>1, <2>1
  <2>3. QED
    BY <2>1, <2>2 DEF LBEvent, IgnoreLB, filterLoadBalancer
<1>3. CASE ~IgnoreLB(n)
  <2>1. Len(lbNotes) + 1 \in 1..Len(lbNotes')
    BY <1>1
  <2>2. QED
    BY <1>1, <1>3, <2>1 DEF LBEvent, IgnoreLB, filterLoadBalancer
<1>4. QED
  BY <1>2, <1>3

\* Delivering a notification that is ignored loses none that counts.
LEMMA LBEventTail ==
    ASSUME lbNotes \in Seq(LBNote), lbNotes # <<>>, lbNotes' = Tail(lbNotes),
           LBEvent, IgnoreLB(Head(lbNotes))
    PROVE  LBEvent'
<1>1. PICK i \in 1..Len(lbNotes) : ~IgnoreLB(lbNotes[i])
  BY DEF LBEvent
<1>2. i # 1 /\ i - 1 \in 1..Len(lbNotes') /\ lbNotes'[i - 1] = lbNotes[i]
  BY <1>1, HeadTailProperties
<1>3. QED
  BY <1>1, <1>2 DEF LBEvent, IgnoreLB, filterLoadBalancer

InSync == wpc \in {"setcfg", "read", "apply"}

\* The strengthening of NoLostLBUpdate: a newer version than the one the
\* worker holds is announced by a notification or by the dirty set, because
\* the worker looked its version up after it took the key off the queue.
LBAnnounced ==
    /\ InSync => "LoadBalancer" \in listed
    /\ (InSync /\ lbs[Own].live /\ ~shuttingDown) => (wlb = lbs[Own] \/ LBEvent \/ Own \in dirty)
    /\ NoLostLBUpdate

\* The variables LBAnnounced depends on.
lbFrame == <<lbs, listed, lbNotes, queueVars, wpc, wkey, wlb, seenLB, dropped>>

\* No update of the load balancer is lost, for any number of writes, pending
\* notifications, retries and stoppers.
THEOREM NoLostLBUpdateCorrect == Spec => []NoLostLBUpdate
<1> USE ProviderAssumption
<1>1. Init => LBAnnounced
  BY DEF Init, LBAnnounced, InSync, NoLostLBUpdate
<1>2. TypeOK /\ StartOrder /\ QueueConsistent /\ QueueConsistent' /\ LBAnnounced /\ [Next]_vars
        => LBAnnounced'
  <2> SUFFICES ASSUME TypeOK, StartOrder, QueueConsistent, QueueConsistent', LBAnnounced, [Next]_vars
               PROVE  LBAnnounced'
    OBVIOUS
  <2> USE DEF LBAnnounced, InSync, NoLostLBUpdate, Queued
  <2>0. /\ lbNotes \in Seq(LBNote) /\ lbs \in [Keys -> LoadBalancer]
        /\ dirty \subseteq {Own} /\ processing \subseteq {Own} /\ wkey \in Keys
    BY DEF TypeOK, NoteTypeOK, StoreTypeOK, WorkerTypeOK, QueueConsistent
  <2>1. ASSUME UNCHANGED lbFrame PROVE LBAnnounced'
    <3>1. UNCHANGED LBEvent
      BY <2>1 DEF lbFrame, LBEvent, IgnoreLB, filterLoadBalancer
    <3>2. QED
      BY <2>1, <3>1 DEF lbFrame, queueVars
  <2>2. ASSUME NEW k \in Keys, NEW v \in BOOLEAN, NEW cm \in [Protos -> Names], WriteLB(k, v, cm)
        PROVE  LBAnnounced'
    <3>1. \A e \in {"add", "update"} : [type |-> e, key |-> k, same |-> FALSE] \in LBNote
      BY DEF LBNote
    <3>2. k = Own => \A e \in {"add", "update"} : ~IgnoreLB([type |-> e, key |-> k, same |-> FALSE])
      BY DEF IgnoreLB, filterLoadBalancer
    <3>3. (LBEvent \/ k = Own) /\ "LoadBalancer" \in listed => LBEvent'
      BY <2>0, <2>2, <3>1, <3>2, LBEventAppend DEF WriteLB, NotifyLB
    <3>4. UNCHANGED <<queueVars, listed, wpc, wlb, seenLB, dropped>>
      BY <2>2 DEF WriteLB, workerVars, seenVars
    <3>5. k # Own => UNCHANGED lbs[Own]
      BY <2>0, <2>2 DEF WriteLB
    <3>6. QED
      BY <3>3, <3>4, <3>5 DEF queueVars
  <2>3. ASSUME NEW k \in Keys, DeleteLB(k) PROVE LBAnnounced'
    <3>1. [type |-> "delete", key |-> k, same |-> FALSE] \in LBNote
      BY DEF LBNote
    <3>2. LBEvent /\ "LoadBalancer" \in listed => LBEvent'
      BY <2>0, <2>3, <3>1, LBEventAppend DEF DeleteLB, NotifyLB
    <3>3. UNCHANGED <<queueVars, listed, wpc, wlb, seenLB, dropped>>
      BY <2>3 DEF DeleteLB, workerVars, seenVars
    <3>4. k # Own => UNCHANGED lbs[Own]
      BY <2>0, <2>3 DEF DeleteLB
    <3>5. k = Own => lbs'[Own].live = FALSE
      BY <2>0, <2>3 DEF DeleteLB
    <3>6. QED
      BY <3>2, <3>3, <3>4, <3>5 DEF queueVars
  <2>4. ASSUME NEW k \in Keys, Relist(k) PROVE LBAnnounced'
    <3>1. [type |-> "update", key |-> k, same |-> TRUE] \in LBNote
      BY DEF LBNote
    <3>2. LBEvent => LBEvent'
      BY <2>0, <2>4, <3>1, LBEventAppend DEF Relist, NotifyLB
    <3>3. QED
      BY <2>4, <3>2 DEF Relist, queueVars, storeVars, workerVars, seenVars
  <2>5. ASSUME NEW i \in Informers, List(i) PROVE LBAnnounced'
    <3>1. [type |-> "add", key |-> Own, same |-> FALSE] \in LBNote
      BY DEF LBNote
    <3>2. ~IgnoreLB([type |-> "add", key |-> Own, same |-> FALSE])
      BY DEF IgnoreLB, filterLoadBalancer
    <3>3. i = "LoadBalancer" /\ lbs[Own].live => LBEvent'
      BY <2>0, <2>5, <3>1, <3>2, LBEventAppend DEF List
    <3>4. ~(i = "LoadBalancer" /\ lbs[Own].live) => UNCHANGED LBEvent
      BY <2>5 DEF List, LBEvent, IgnoreLB, filterLoadBalancer
    <3>5. QED
      BY <2>5, <3>3, <3>4 DEF List, queueVars, workerVars, seenVars
  <2>6. ASSUME HandleLB PROVE LBAnnounced'
    <3>1. UNCHANGED <<lbs, listed, wpc, wlb, seenLB, dropped>>
      BY <2>6 DEF HandleLB, storeVars, workerVars, seenVars
    <3>2. CASE IgnoreLB(Head(lbNotes))
      <4>1. LBEvent => LBEvent'
        BY <2>0, <2>6, <3>2, LBEventTail DEF HandleLB
      <4>2. QED
        BY <2>6, <3>1, <3>2, <4>1 DEF HandleLB, queueVars
    <3>3. CASE ~IgnoreLB(Head(lbNotes))
      <4>1. Enqueue(Own)
        BY <2>6, <3>3 DEF HandleLB, IgnoreLB, filterLoadBalancer
      <4>2. shuttingDown \/ Own \in dirty'
        BY <4>1 DEF Enqueue, Add
      <4>3. QED
        BY <3>1, <4>1, <4>2 DEF Enqueue
    <3>4. QED
      BY <3>2, <3>3
  <2>7. ASSUME HandleCM PROVE LBAnnounced'
    <3>1. UNCHANGED <<lbs, listed, lbNotes, wpc, wlb, seenLB, dropped>>
      BY <2>7 DEF HandleCM, storeVars, workerVars, seenVars
    <3>2. UNCHANGED LBEvent
      BY <3>1 DEF LBEvent, IgnoreLB, filterLoadBalancer
    <3>3. dirty \subseteq dirty' /\ UNCHANGED <<processing, delayed, shuttingDown>>
      BY <2>7 DEF HandleCM, Enqueue, Add, queueVars
    <3>4. QED
      BY <3>1, <3>2, <3>3
  <2>8. ASSUME NEW k \in Keys, Requeue(k) PROVE LBAnnounced'
    <3>1. UNCHANGED <<lbs, listed, lbNotes, wpc, wlb, seenLB, dropped>>
      BY <2>8 DEF Requeue, storeVars, noteVars, workerVars, seenVars
    <3>2. UNCHANGED LBEvent
      BY <3>1 DEF LBEvent, IgnoreLB, filterLoadBalancer
    <3>3. /\ dirty \subseteq dirty' /\ UNCHANGED <<processing, shuttingDown>>
          /\ Own \in delayed => Own \in dirty' \cup delayed'
      BY <2>8 DEF Requeue, DelayOver, Add
    <3>4. QED
      BY <3>1, <3>2, <3>3
  <2>9. ASSUME NEW k \in Keys, WorkerGet(k) PROVE LBAnnounced'
    <3>1. UNCHANGED <<lbs, listed, lbNotes, seenLB, dropped>>
      BY <2>9 DEF WorkerGet, storeVars, noteVars, seenVars
    <3>2. UNCHANGED LBEvent
      BY <3>1 DEF LBEvent, IgnoreLB, filterLoadBalancer
    <3>3. Own \in dirty \cup processing \cup delayed => Own \in dirty' \cup processing' \cup delayed'
      BY <2>9 DEF WorkerGet, Get
    <3>4. QED
      BY <2>9, <3>1, <3>2, <3>3 DEF WorkerGet, Get
  <2>10. ASSUME wpc \in {"lookup", "apply"}, NEW ok \in BOOLEAN, SyncReturns(ok),
                UNCHANGED <<lbs, listed, lbNotes>>,
                \/ ~ok /\ UNCHANGED seenLB
                \/ wpc = "apply" /\ seenLB' = wlb
                \/ ~("LoadBalancer" \in listed /\ lbs[Own].live)
         PROVE  LBAnnounced'
    <3>1. UNCHANGED LBEvent
      BY <2>10 DEF LBEvent, IgnoreLB, filterLoadBalancer
    <3>2. UNCHANGED <<dirty, shuttingDown>> /\ wpc' = "idle" /\ wkey = Own
      BY <2>10 DEF SyncReturns, HandleSyncError, QueueConsistent
    <3>3. ~ok => dropped' \/ shuttingDown \/ Own \in delayed'
      BY <2>10, <3>2 DEF SyncReturns, HandleSyncError
    <3>4. QED
      BY <2>10, <3>1, <3>2, <3>3
  <2>11. ASSUME SyncLookup PROVE LBAnnounced'
    <3> DEFINE found == "LoadBalancer" \in listed /\ lbs[wkey].live
    <3>1. wkey = Own /\ wpc = "lookup" /\ UNCHANGED <<lbs, listed, lbNotes, seenLB>>
      BY <2>11 DEF SyncLookup, QueueConsistent, storeVars, noteVars
    <3>2. CASE found /\ lbs[wkey].valid
      <4>1. /\ wlb' = lbs[Own] /\ wpc' = "setcfg" /\ "LoadBalancer" \in listed
            /\ UNCHANGED <<queueVars, dropped>>
        BY <2>11, <3>1, <3>2 DEF SyncLookup
      <4>2. UNCHANGED LBEvent
        BY <3>1 DEF LBEvent, IgnoreLB, filterLoadBalancer
      <4>3. QED
        BY <3>1, <4>1, <4>2 DEF queueVars
    <3>3. CASE ~(found /\ lbs[wkey].valid)
      <4>1. SyncReturns(~found)
        BY <2>11, <3>3 DEF SyncLookup
      <4>2. (~found) \in BOOLEAN /\ (found => ~(~found))
        OBVIOUS
      <4>3. found \/ ~("LoadBalancer" \in listed /\ lbs[Own].live)
        BY <3>1
      <4> HIDE DEF found
      <4>4. QED
        BY <2>10, <3>1, <4>1, <4>2, <4>3
    <3>4. QED
      BY <3>2, <3>3
  <2>12. ASSUME SyncSetConfigMaps \/ OnUpdateRead PROVE LBAnnounced'
    <3>1. /\ wpc \in {"setcfg", "read"} /\ wpc' \in {"read", "apply"}
          /\ UNCHANGED <<lbs, listed, lbNotes, queueVars, wlb, seenLB, dropped>>
      BY <2>12 DEF SyncSetConfigMaps, OnUpdateRead, storeVars, noteVars, seenVars
    <3>2. UNCHANGED LBEvent
      BY <3>1 DEF LBEvent, IgnoreLB, filterLoadBalancer
    <3>3. QED
      BY <3>1, <3>2 DEF queueVars
  <2>13. ASSUME OnUpdateOk PROVE LBAnnounced'
    BY <2>10, <2>13 DEF OnUpdateOk, storeVars, noteVars
  <2>14. ASSUME OnUpdateError PROVE LBAnnounced'
    BY <2>10, <2>14 DEF OnUpdateError, storeVars, noteVars
  <2>15. ASSUME WorkerLaunch \/ WorkerEnter \/ WorkerQuit \/ QueueRun PROVE LBAnnounced'
    <3>1. /\ ~InSync /\ ~InSync'
          /\ UNCHANGED <<lbs, listed, lbNotes, queueVars, wlb, seenLB, dropped>>
      BY <2>15 DEF WorkerLaunch, WorkerEnter, WorkerQuit, QueueRun, StartOrder, storeVars, noteVars,
                   seenVars
    <3>2. UNCHANGED LBEvent
      BY <3>1 DEF LBEvent, IgnoreLB, filterLoadBalancer
    <3>3. QED
      BY <3>1, <3>2 DEF queueVars
  <2>16. ASSUME NEW t \in Stoppers, StopQueue(t) PROVE LBAnnounced'
    BY <2>16 DEF StopQueue, QueueShutDown, storeVars, workerVars
  <2>17. ASSUME (\E c \in CMNames, e \in {"add", "update", "delete"} : ChangeCM(c, e))
                \/ (\E c \in CMNames : RelistCM(c)) \/ TornRead
         PROVE  LBAnnounced'
    BY <2>1, <2>17 DEF ChangeCM, RelistCM, TornRead, lbFrame, storeVars, noteVars, workerVars, seenVars
  <2>18. ASSUME FactoryStart \/ WaitForCacheSync \/ BackendStart \/ StartReturns
                \/ (\E started \in BOOLEAN : WaitForStart(started))
         PROVE  LBAnnounced'
    BY <2>1, <2>18 DEF FactoryStart, WaitForCacheSync, BackendStart, StartReturns, WaitForStart,
         lbFrame, storeVars, noteVars, workerVars, seenVars
  <2>19. ASSUME NEW t \in Stoppers, Sigterm(t) \/ StopAcquire(t) \/ StopClose(t) \/ StopBackend(t)
                \/ StopWait(t) \/ Exit(t)
         PROVE  LBAnnounced'
    BY <2>1, <2>19 DEF Sigterm, StopAcquire, StopClose, StopBackend, StopWait, Exit, lbFrame,
         storeVars, noteVars, workerVars, seenVars
  <2>20. ASSUME UNCHANGED vars PROVE LBAnnounced'
    BY <2>1, <2>20 DEF vars, lbFrame, storeVars, noteVars, workerVars, seenVars
  <2>21. QED
    BY <2>2, <2>3, <2>4, <2>5, <2>6, <2>7, <2>8, <2>9, <2>11, <2>12, <2>13, <2>14, <2>15, <2>16,
       <2>17, <2>18, <2>19, <2>20, ClusterActions DEF Next, Worker, Start, Stop
<1>3. QED
  BY <1>1, <1>2, TypeCorrect, StartOrderCorrect, QueueCorrect, PTL DEF Spec, LBAnnounced

-----------------------------------------------------------------------------
(* ConfigMap updates                                                        *)

\* The notifications announce an update of ConfigMap c, or a change of the own
\* load balancer.
Updates(c, notes) ==
    \E i \in 1..Len(notes) : notes[i].name = c /\ notes[i].type = "update" /\ ~notes[i].same
Changes(notes) == \E i \in 1..Len(notes) : ~IgnoreLB(notes[i])

\* Version v of the ConfigMap c that is watched for protocol p is the newest, or the
\* newer one is announced.
Covers(p, c, v) ==
    (c # NoName /\ c = cfg[p] /\ cms[c].last = "update" /\ lbs[Own].live) =>
        (v = cms[c].rv \/ Updates(c, cmNotes) \/ Changes(lbNotes))

\* The same after a step.
CoversNext(p, c, v) ==
    (c # NoName /\ c = cfg'[p] /\ cms'[c].last = "update" /\ lbs'[Own].live) =>
        (v = cms'[c].rv \/ Updates(c, cmNotes') \/ Changes(lbNotes'))

\* A worker exists only when both informers have listed, unless the provider was
\* stopped before; and nothing is applied before there is a worker.
Ready ==
    /\ stopClosed \/ shuttingDown => shutdown
    /\ spc \notin {"start", "wait"} => shutdown \/ listed = Informers
    /\ wpc = "off" => seenLB = NoLB

\* Ready is inductive.
LEMMA ReadyCorrect == Spec => []Ready
<1>1. Init => Ready
  BY DEF Init, QueueInit, Ready
<1>2. TypeOK /\ StartOrder /\ StopLocked /\ Ready /\ [Next]_vars => Ready'
  <2> SUFFICES ASSUME TypeOK, StartOrder, StopLocked, Ready, [Next]_vars PROVE Ready'
    OBVIOUS
  <2> USE DEF Ready
  <2>0. listed \subseteq Informers
    BY DEF TypeOK, StoreTypeOK
  <2>1. ASSUME UNCHANGED <<stopClosed, shuttingDown, shutdown, spc, wpc, seenLB>>,
               listed \subseteq listed', listed' \subseteq Informers
        PROVE  Ready'
    BY <2>1
  <2>2. ASSUME Cluster \/ HandleLB \/ HandleCM \/ TornRead \/ (\E k \in Keys : Requeue(k))
        PROVE  Ready'
    BY <2>0, <2>1, <2>2 DEF Cluster, WriteLB, DeleteLB, Relist, ChangeCM, RelistCM, HandleLB,
         HandleCM, TornRead, Requeue, DelayOver, Enqueue, storeVars, workerVars, seenVars, lifeVars,
         queueVars
  <2>3. ASSUME NEW i \in Informers, List(i) PROVE Ready'
    BY <2>0, <2>1, <2>3 DEF List, workerVars, seenVars, lifeVars, queueVars
  <2>4. ASSUME Worker PROVE Ready'
    <3>1. /\ wpc # "off" /\ wpc' # "off"
          /\ UNCHANGED <<stopClosed, shuttingDown, shutdown, spc, listed>>
      BY <2>4 DEF Worker, WorkerLaunch, WorkerEnter, WorkerGet, Get, WorkerQuit, SyncLookup,
           SyncReturns, HandleSyncError, SyncSetConfigMaps, OnUpdateRead, OnUpdateOk,
           OnUpdateError, storeVars, lifeVars, queueVars
    <3>2. QED
      BY <3>1
  <2>5. ASSUME Start PROVE Ready'
    BY <2>5 DEF Start, FactoryStart, WaitForCacheSync, BackendStart, WaitForStart, QueueRun,
         StartReturns, storeVars, workerVars, seenVars, queueVars
  <2>6. ASSUME NEW t \in Stoppers, Sigterm(t) \/ Stop(t) PROVE Ready'
    <3>1. UNCHANGED <<spc, listed, wpc, seenLB>>
      BY <2>6 DEF Sigterm, Stop, StopAcquire, StopClose, StopBackend, StopQueue, StopWait, Exit,
           storeVars, workerVars, seenVars, lifeVars
    <3>2. CASE StopQueue(t)
      BY <3>1, <3>2 DEF StopQueue, QueueShutDown, StopLocked, Stopping
    <3>3. CASE ~StopQueue(t)
      BY <2>6, <3>1, <3>3 DEF Sigterm, Stop, StopAcquire, StopClose, StopBackend, StopWait, Exit,
           queueVars
    <3>4. QED
      BY <3>2, <3>3
  <2>7. ASSUME UNCHANGED vars PROVE Ready'
    BY <2>7 DEF vars, storeVars, workerVars, seenVars, lifeVars, queueVars
  <2>8. QED
    BY <2>2, <2>3, <2>4, <2>5, <2>6, <2>7 DEF Next
<1>3. QED
  BY <1>1, <1>2, TypeCorrect, StartOrderCorrect, StopLockedCorrect, PTL DEF Spec

\* Appending a notification loses none, and adds what it announces.
LEMMA UpdatesAppend ==
    ASSUME NEW notes \in Seq(CMNote), NEW n \in CMNote, NEW c,
           Updates(c, notes) \/ (n.name = c /\ n.type = "update" /\ ~n.same)
    PROVE  Updates(c, Append(notes, n))
<1>1. /\ Len(Append(notes, n)) = Len(notes) + 1
      /\ Append(notes, n)[Len(notes) + 1] = n
      /\ \A i \in 1..Len(notes) : Append(notes, n)[i] = notes[i]
      /\ Len(notes) \in Nat
  BY AppendProperties
<1>2. Len(notes) + 1 \in 1..(Len(notes) + 1) /\ 1..Len(notes) \subseteq 1..(Len(notes) + 1)
  BY <1>1
<1>3. QED
  BY <1>1, <1>2 DEF Updates

LEMMA ChangesAppend ==
    ASSUME NEW notes \in Seq(LBNote), NEW n \in LBNote, Changes(notes) \/ ~IgnoreLB(n)
    PROVE  Changes(Append(notes, n))
<1>1. /\ Len(Append(notes, n)) = Len(notes) + 1
      /\ Append(notes, n)[Len(notes) + 1] = n
      /\ \A i \in 1..Len(notes) : Append(notes, n)[i] = notes[i]
      /\ Len(notes) \in Nat
  BY AppendProperties
<1>2. Len(notes) + 1 \in 1..(Len(notes) + 1) /\ 1..Len(notes) \subseteq 1..(Len(notes) + 1)
  BY <1>1
<1>3. QED
  BY <1>1, <1>2 DEF Changes

\* Taking a notification loses only what it announces.
LEMMA UpdatesTail ==
    ASSUME NEW notes \in Seq(CMNote), notes # <<>>, NEW c, Updates(c, notes),
           ~Updates(c, Tail(notes))
    PROVE  Head(notes).name = c /\ Head(notes).type = "update" /\ ~Head(notes).same
<1>1. PICK i \in 1..Len(notes) : notes[i].name = c /\ notes[i].type = "update" /\ ~notes[i].same
  BY DEF Updates
<1>2. i # 1 => i - 1 \in 1..Len(Tail(notes)) /\ Tail(notes)[i - 1] = notes[i]
  BY HeadTailProperties
<1>3. i = 1
  BY <1>1, <1>2 DEF Updates
<1>4. QED
  BY <1>1, <1>3

LEMMA ChangesTail ==
    ASSUME NEW notes \in Seq(LBNote), notes # <<>>, Changes(notes), ~Changes(Tail(notes))
    PROVE  ~IgnoreLB(Head(notes))
<1>1. PICK i \in 1..Len(notes) : ~IgnoreLB(notes[i])
  BY DEF Changes
<1>2. i # 1 => i - 1 \in 1..Len(Tail(notes)) /\ Tail(notes)[i - 1] = notes[i]
  BY HeadTailProperties
<1>3. i = 1
  BY <1>1, <1>2 DEF Changes
<1>4. QED
  BY <1>1, <1>3

\* A change of the cluster is announced: the informers have listed.
LEMMA ClusterCovers ==
    ASSUME TypeOK, Cluster, listed = Informers, NEW p \in Protos, NEW c \in Names, NEW v,
           Covers(p, c, v)
    PROVE  CoversNext(p, c, v)
<1> USE ProviderAssumption
<1> USE DEF Covers, CoversNext
<1>0. /\ lbNotes \in Seq(LBNote) /\ cmNotes \in Seq(CMNote)
      /\ lbs \in [Keys -> LoadBalancer] /\ cms \in [CMNames -> ConfigMap]
      /\ "LoadBalancer" \in listed /\ "ConfigMap" \in listed
  BY DEF TypeOK, NoteTypeOK, StoreTypeOK, Informers
<1>1. ASSUME NEW k \in Keys, NEW valid \in BOOLEAN, NEW cm \in [Protos -> Names],
             WriteLB(k, valid, cm)
      PROVE  CoversNext(p, c, v)
  <2>1. PICK e \in {"add", "update"} :
          lbNotes' = Append(lbNotes, [type |-> e, key |-> k, same |-> FALSE])
    BY <1>0, <1>1 DEF WriteLB, NotifyLB
  <2>2. [type |-> e, key |-> k, same |-> FALSE] \in LBNote
    BY DEF LBNote
  <2>3. k = Own => ~IgnoreLB([type |-> e, key |-> k, same |-> FALSE])
    BY DEF IgnoreLB, filterLoadBalancer
  <2>4. Changes(lbNotes) \/ k = Own => Changes(lbNotes')
    BY <1>0, <2>1, <2>2, <2>3, ChangesAppend
  <2>5. /\ UNCHANGED <<cfg, cms, cmNotes>>
        /\ k # Own => lbs'[Own] = lbs[Own]
    BY <1>0, <1>1 DEF WriteLB
  <2>6. QED
    BY <2>4, <2>5
<1>2. ASSUME NEW k \in Keys, DeleteLB(k) PROVE CoversNext(p, c, v)
  <2>1. lbNotes' = Append(lbNotes, [type |-> "delete", key |-> k, same |-> FALSE])
    BY <1>0, <1>2 DEF DeleteLB, NotifyLB
  <2>2. [type |-> "delete", key |-> k, same |-> FALSE] \in LBNote
    BY DEF LBNote
  <2>3. Changes(lbNotes) => Changes(lbNotes')
    BY <1>0, <2>1, <2>2, ChangesAppend
  <2>4. /\ UNCHANGED <<cfg, cms, cmNotes>>
        /\ lbs'[Own].live => lbs'[Own] = lbs[Own]
    BY <1>0, <1>2 DEF DeleteLB
  <2>5. QED
    BY <2>3, <2>4
<1>3. ASSUME NEW k \in Keys, Relist(k) PROVE CoversNext(p, c, v)
  <2>1. lbNotes' = Append(lbNotes, [type |-> "update", key |-> k, same |-> TRUE])
    BY <1>0, <1>3 DEF Relist, NotifyLB
  <2>2. [type |-> "update", key |-> k, same |-> TRUE] \in LBNote
    BY DEF LBNote
  <2>3. Changes(lbNotes) => Changes(lbNotes')
    BY <1>0, <2>1, <2>2, ChangesAppend
  <2>4. UNCHANGED <<cfg, cms, cmNotes, lbs>>
    BY <1>3 DEF Relist, storeVars
  <2>5. QED
    BY <2>3, <2>4
<1>4. ASSUME NEW d \in CMNames, NEW e \in {"add", "update", "delete"}, ChangeCM(d, e)
      PROVE  CoversNext(p, c, v)
  <2>1. cmNotes' = Append(cmNotes, [type |-> e, name |-> d, same |-> FALSE])
    BY <1>0, <1>4 DEF ChangeCM, NotifyCM
  <2>2. [type |-> e, name |-> d, same |-> FALSE] \in CMNote
    BY DEF CMNote
  <2>3. Updates(c, cmNotes) \/ (c = d /\ e = "update") => Updates(c, cmNotes')
    BY <1>0, <2>1, <2>2, UpdatesAppend
  <2>4. /\ UNCHANGED <<cfg, lbs, lbNotes>>
        /\ c \in CMNames /\ c # d => cms'[c] = cms[c]
        /\ cms'[d].last = e
    BY <1>0, <1>4 DEF ChangeCM
  <2>5. c # NoName => c \in CMNames
    BY DEF Names
  <2>6. QED
    BY <2>3, <2>4, <2>5
<1>5. ASSUME NEW d \in CMNames, RelistCM(d) PROVE CoversNext(p, c, v)
  <2>1. cmNotes' = Append(cmNotes, [type |-> "update", name |-> d, same |-> TRUE])
    BY <1>0, <1>5 DEF RelistCM, NotifyCM
  <2>2. [type |-> "update", name |-> d, same |-> TRUE] \in CMNote
    BY DEF CMNote
  <2>3. Updates(c, cmNotes) => Updates(c, cmNotes')
    BY <1>0, <2>1, <2>2, UpdatesAppend
  <2>4. UNCHANGED <<cfg, cms, lbs, lbNotes>>
    BY <1>5 DEF RelistCM, storeVars
  <2>5. QED
    BY <2>3, <2>4
<1>6. QED
  BY <1>1, <1>2, <1>3, <1>4, <1>5, ClusterActions

\* What a handler takes off the list it puts on the queue.
LEMMA HandlerCovers ==
    ASSUME TypeOK, HandleLB \/ HandleCM, ~shuttingDown, NEW p \in Protos, NEW c \in Names, NEW v,
           Covers(p, c, v)
    PROVE  CoversNext(p, c, v) \/ Own \in dirty'
<1>0. lbNotes \in Seq(LBNote) /\ cmNotes \in Seq(CMNote)
  BY DEF TypeOK, NoteTypeOK
<1>1. CASE HandleLB
  <2>1. /\ UNCHANGED <<cfg, cms, lbs, cmNotes>>
        /\ lbNotes # <<>> /\ lbNotes' = Tail(lbNotes)
    BY <1>1 DEF HandleLB, storeVars
  <2>2. ASSUME ~IgnoreLB(Head(lbNotes)) PROVE Own \in dirty'
    BY <1>1, <2>2 DEF HandleLB, IgnoreLB, filterLoadBalancer, Enqueue, Add
  <2>3. Changes(lbNotes) => Changes(lbNotes') \/ ~IgnoreLB(Head(lbNotes))
    BY <1>0, <2>1, ChangesTail
  <2>4. QED
    BY <2>1, <2>2, <2>3 DEF Covers, CoversNext
<1>2. CASE HandleCM
  <2>1. /\ UNCHANGED <<cfg, cms, lbs, lbNotes>>
        /\ cmNotes # <<>> /\ cmNotes' = Tail(cmNotes)
    BY <1>2 DEF HandleCM, storeVars
  <2>2. ASSUME ~IgnoreCM(Head(cmNotes)) PROVE Own \in dirty'
    BY <1>2, <2>2 DEF HandleCM, Enqueue, Add
  <2>3. ASSUME c = cfg[p], Updates(c, cmNotes), ~Updates(c, cmNotes') PROVE ~IgnoreCM(Head(cmNotes))
    BY <1>0, <2>1, <2>3, UpdatesTail DEF IgnoreCM, filterConfigMap
  <2>4. QED
    BY <2>1, <2>2, <2>3 DEF Covers, CoversNext
<1>3. QED
  BY <1>1, <1>2

\* The strengthening of NoLostCMUpdate: a newer version than the one OnUpdate has
\* read is announced by a notification or by the dirty set.
CMAnnounced ==
    ~shutdown => \A p \in Protos :
        /\ wpc = "apply" => Covers(p, wlb.cm[p], wcm[p]) \/ Own \in dirty
        /\ ~dropped => Covers(p, seenLB.cm[p], seenCM[p]) \/ Queued

\* No update of a watched ConfigMap is lost, for any number of ConfigMaps, writes,
\* pending notifications, retries and stoppers.
THEOREM NoLostCMUpdateCorrect == Spec => []NoLostCMUpdate
<1> USE ProviderAssumption
<1>1. Init => CMAnnounced
  BY DEF Init, CMAnnounced, Covers, NoLB
<1>2. TypeOK /\ StartOrder /\ QueueConsistent /\ QueueConsistent' /\ Ready /\ CMAnnounced
        /\ [Next]_vars => CMAnnounced'
  <2> SUFFICES ASSUME TypeOK, StartOrder, QueueConsistent, QueueConsistent', Ready, CMAnnounced,
                      [Next]_vars, ~shutdown', NEW p \in Protos
               PROVE  /\ wpc' = "apply" => CoversNext(p, wlb'.cm[p], wcm'[p]) \/ Own \in dirty'
                      /\ ~dropped' => CoversNext(p, seenLB'.cm[p], seenCM'[p]) \/ Queued'
    BY DEF CMAnnounced, Covers, CoversNext
  <2> DEFINE Goal == /\ wpc' = "apply" => CoversNext(p, wlb'.cm[p], wcm'[p]) \/ Own \in dirty'
                     /\ ~dropped' => CoversNext(p, seenLB'.cm[p], seenCM'[p]) \/ Queued'
  <2>0. /\ wlb.cm[p] \in Names /\ seenLB.cm[p] \in Names
        /\ wkey \in Keys
    BY DEF TypeOK, WorkerTypeOK, SeenTypeOK, LoadBalancer
  <2>1. ASSUME ~shutdown, UNCHANGED <<wpc, wlb, wcm, seenLB, seenCM, dropped>>,
               dirty \subseteq dirty', Queued => Queued',
               \A c \in Names : \A v : Covers(p, c, v) => CoversNext(p, c, v) \/ Own \in dirty'
        PROVE  Goal
    BY <2>0, <2>1 DEF CMAnnounced, Queued
  <2>2. ASSUME UNCHANGED <<cfg, cms, lbs, cmNotes, lbNotes>>, NEW c, NEW v, Covers(p, c, v)
        PROVE  CoversNext(p, c, v)
    BY <2>2 DEF Covers, CoversNext
  <2>3. ASSUME Cluster PROVE Goal
    <3>1. UNCHANGED <<wpc, wlb, wcm, seenLB, seenCM, dropped, shutdown, spc, queueVars>>
      BY <2>3 DEF Cluster, WriteLB, DeleteLB, Relist, ChangeCM, RelistCM, workerVars, seenVars,
           lifeVars
    <3>2. CASE wpc = "off"
      BY <3>1, <3>2 DEF Ready, NoLB, CoversNext
    <3>3. CASE wpc # "off"
      <4>1. listed = Informers
        BY <3>1, <3>3 DEF Ready, StartOrder, TypeOK, LifeTypeOK
      <4>2. QED
        BY <2>1, <2>3, <3>1, <4>1, ClusterCovers DEF queueVars, Queued
    <3>4. QED
      BY <3>2, <3>3
  <2>4. ASSUME NEW i \in Informers, List(i) PROVE Goal
    <3>1. UNCHANGED <<wpc, wlb, wcm, seenLB, seenCM, dropped, shutdown, spc, queueVars>>
      BY <2>4 DEF List, workerVars, seenVars, lifeVars
    <3>2. i \notin listed
      BY <2>4 DEF List
    <3>3. wpc = "off"
      BY <2>4, <3>1, <3>2 DEF Ready, StartOrder, TypeOK, LifeTypeOK
    <3>4. QED
      BY <3>1, <3>3 DEF Ready, NoLB, CoversNext
  <2>5. ASSUME HandleLB \/ HandleCM PROVE Goal
    <3>1. /\ UNCHANGED <<wpc, wlb, wcm, seenLB, seenCM, dropped, shutdown>>
          /\ dirty \subseteq dirty' /\ UNCHANGED <<processing, delayed>>
      BY <2>5 DEF HandleLB, HandleCM, Enqueue, Add, queueVars, workerVars, seenVars, lifeVars
    <3>2. ~shuttingDown
      BY <3>1 DEF Ready
    <3>3. QED
      BY <2>1, <2>5, <3>1, <3>2, HandlerCovers DEF Queued
  <2>6. ASSUME NEW k \in Keys, Requeue(k) PROVE Goal
    <3>1. UNCHANGED <<wpc, wlb, wcm, seenLB, seenCM, dropped, shutdown, cfg, cms, lbs, cmNotes,
                      lbNotes>>
      BY <2>6 DEF Requeue, storeVars, noteVars, workerVars, seenVars, lifeVars
    <3>2. /\ dirty \subseteq dirty' /\ UNCHANGED processing
          /\ Own \in delayed => Own \in dirty' \cup delayed'
      BY <2>6 DEF Requeue, DelayOver, Add
    <3>3. QED
      BY <2>1, <2>2, <3>1, <3>2 DEF Queued
  <2>7. ASSUME WorkerLaunch \/ WorkerEnter \/ WorkerQuit \/ QueueRun PROVE Goal
    <3>1. /\ wpc' \in {"done", "entering", "idle", "launched"}
          /\ UNCHANGED <<seenLB, seenCM, dropped, shutdown, cfg, cms, lbs, cmNotes, lbNotes,
                         queueVars>>
      BY <2>7 DEF WorkerLaunch, WorkerEnter, WorkerQuit, QueueRun, storeVars, noteVars, seenVars,
           lifeVars
    <3>2. QED
      BY <2>2, <3>1 DEF CMAnnounced, Queued, queueVars
  <2>8. ASSUME wpc' \in {"lookup", "setcfg", "read"} PROVE Goal
    <3>1. Queued'
      BY <2>8 DEF QueueConsistent, Queued
    <3>2. QED
      BY <2>8, <3>1
  <2>9. ASSUME OnUpdateRead PROVE Goal
    <3>1. /\ wpc' = "apply" /\ wpc = "read" /\ wcm'[p] = StoredCM(wlb.cm[p])
          /\ UNCHANGED <<wlb, cms, spc, shutdown, listed>>
      BY <2>9 DEF OnUpdateRead, storeVars, lifeVars
    <3>2. Queued'
      BY <3>1 DEF QueueConsistent, Queued
    <3>3. listed = Informers
      BY <3>1 DEF Ready, StartOrder, TypeOK, LifeTypeOK
    <3>4. CoversNext(p, wlb'.cm[p], wcm'[p])
      BY <2>0, <3>1, <3>3 DEF CoversNext, StoredCM, Names, Informers
    <3>5. QED
      BY <3>2, <3>4
  <2>10. ASSUME wpc \in {"lookup", "apply"}, NEW ok \in BOOLEAN, SyncReturns(ok),
                UNCHANGED <<cfg, cms, lbs, cmNotes, lbNotes, shutdown>>,
                \/ ~ok
                \/ wpc = "apply" /\ seenLB' = wlb /\ seenCM' = wcm
                \/ ~lbs[Own].live
         PROVE  Goal
    <3>1. UNCHANGED <<dirty, shuttingDown>> /\ wpc' = "idle" /\ wkey = Own
      BY <2>10 DEF SyncReturns, HandleSyncError, QueueConsistent
    <3>2. ~shuttingDown
      BY <2>10 DEF Ready
    <3>3. CASE ~ok
      BY <2>10, <3>1, <3>2, <3>3 DEF SyncReturns, HandleSyncError, Queued
    <3>4. CASE wpc = "apply" /\ seenLB' = wlb /\ seenCM' = wcm
      BY <2>2, <2>10, <3>1, <3>4 DEF CMAnnounced, Queued
    <3>5. CASE ~lbs[Own].live
      BY <2>10, <3>1, <3>5 DEF CoversNext
    <3>6. QED
      BY <2>10, <3>3, <3>4, <3>5
  <2>11. ASSUME SyncLookup PROVE Goal
    <3> DEFINE found == "LoadBalancer" \in listed /\ lbs[wkey].live
    <3>1. /\ wkey = Own /\ wpc = "lookup"
          /\ UNCHANGED <<cfg, cms, lbs, cmNotes, lbNotes, shutdown>>
      BY <2>11 DEF SyncLookup, QueueConsistent, storeVars, noteVars, lifeVars
    <3>2. CASE found /\ lbs[wkey].valid
      BY <2>8, <2>11, <3>2 DEF SyncLookup
    <3>3. CASE ~(found /\ lbs[wkey].valid)
      <4>1. SyncReturns(~found)
        BY <2>11, <3>3 DEF SyncLookup
      <4>2. (~found) \in BOOLEAN /\ (found => ~(~found))
        OBVIOUS
      <4>3. listed = Informers
        BY <3>1 DEF Ready, StartOrder, TypeOK, LifeTypeOK
      <4>4. found \/ ~lbs[Own].live
        BY <3>1, <4>3 DEF Informers
      <4> HIDE DEF found
      <4>5. QED
        BY <2>10, <3>1, <4>1, <4>2, <4>4
    <3>4. QED
      BY <3>2, <3>3
  <2>12. ASSUME OnUpdateOk PROVE Goal
    BY <2>10, <2>12 DEF OnUpdateOk, storeVars, noteVars, lifeVars
  <2>13. ASSUME OnUpdateError PROVE Goal
    BY <2>10, <2>13 DEF OnUpdateError, storeVars, noteVars, lifeVars
  <2>14. ASSUME SyncSetConfigMaps \/ (\E k \in Keys : WorkerGet(k)) PROVE Goal
    BY <2>8, <2>14 DEF SyncSetConfigMaps, WorkerGet
  <2>15. ASSUME UNCHANGED <<wpc, wlb, wcm, seenLB, seenCM, dropped, cfg, cms, lbs, cmNotes, lbNotes,
                            dirty, processing, delayed>>,
                shutdown => shutdown'
         PROVE  Goal
    BY <2>1, <2>2, <2>15 DEF Queued
  <2>16. ASSUME TornRead \/ FactoryStart \/ WaitForCacheSync \/ BackendStart \/ StartReturns
                \/ (\E started \in BOOLEAN : WaitForStart(started))
         PROVE  Goal
    BY <2>15, <2>16 DEF TornRead, FactoryStart, WaitForCacheSync, BackendStart, StartReturns,
         WaitForStart, storeVars, noteVars, workerVars, seenVars, queueVars
  <2>17. ASSUME NEW t \in Stoppers, Sigterm(t) \/ Stop(t) PROVE Goal
    BY <2>15, <2>17 DEF Sigterm, Stop, StopAcquire, StopClose, StopBackend, StopQueue, QueueShutDown,
         StopWait, Exit, storeVars, noteVars, workerVars, seenVars, lifeVars, queueVars
  <2>18. ASSUME UNCHANGED vars PROVE Goal
    BY <2>15, <2>18 DEF vars, storeVars, noteVars, workerVars, seenVars, lifeVars, queueVars
  <2> HIDE DEF Goal
  <2>19. Goal
    BY <2>3, <2>4, <2>5, <2>6, <2>7, <2>9, <2>11, <2>12, <2>13, <2>14, <2>16, <2>17, <2>18
       DEF Next, Worker, Start
  <2>20. QED
    BY <2>19 DEF Goal
<1>3. CMAnnounced => NoLostCMUpdate
  BY DEF CMAnnounced, NoLostCMUpdate, Covers, Updates, Changes, CMEvent, LBEvent
<1>4. QED
  BY <1>1, <1>2, <1>3, TypeCorrect, StartOrderCorrect, QueueCorrect, ReadyCorrect, PTL DEF Spec

-----------------------------------------------------------------------------
(* The contract with the backend                                            *)

\* The worker holds a load balancer exactly while OnUpdate is being prepared or
\* runs; version 0 stands for none.
Handed ==
    /\ lbs[Own].rv # 0
    /\ wpc \in {"setcfg", "read", "apply"} <=> wlb.rv # 0

\* Handed is inductive.
LEMMA HandedCorrect == Spec => []Handed
<1> USE ProviderAssumption
<1>1. Init => Handed
  BY DEF Init, Handed, NoLB
<1>2. TypeOK /\ QueueConsistent /\ StartOrder /\ Handed /\ [Next]_vars => Handed'
  <2> SUFFICES ASSUME TypeOK, QueueConsistent, StartOrder, Handed, [Next]_vars PROVE Handed'
    OBVIOUS
  <2> USE DEF Handed
  <2>1. lbs \in [Keys -> LoadBalancer] /\ Own \in Keys /\ lbs[Own].rv \in Nat
    BY DEF TypeOK, StoreTypeOK, LoadBalancer
  <2>2. ASSUME UNCHANGED <<lbs, wlb, wpc>> PROVE Handed'
    BY <2>2
  <2>3. ASSUME NEW k \in Keys, NEW v, NEW cm, WriteLB(k, v, cm) PROVE Handed'
    BY <2>1, <2>3 DEF WriteLB, workerVars
  <2>4. ASSUME NEW k \in Keys, DeleteLB(k) PROVE Handed'
    BY <2>1, <2>4 DEF DeleteLB, workerVars
  <2>5. ASSUME \/ \E k \in Keys : Relist(k) \/ Requeue(k)
               \/ \E c \in CMNames : RelistCM(c) \/ \E e \in {"add", "update", "delete"} : ChangeCM(c, e)
               \/ \E i \in Informers : List(i)
               \/ HandleLB \/ HandleCM \/ TornRead
               \/ \E t \in Stoppers : Sigterm(t) \/ Stop(t)
        PROVE  Handed'
    BY <2>2, <2>5 DEF Relist, Requeue, RelistCM, ChangeCM, List, HandleLB, HandleCM, TornRead, Sigterm,
         Stop, StopAcquire, StopClose, StopBackend, StopQueue, StopWait, Exit, storeVars, workerVars
  <2>6. ASSUME Start PROVE Handed'
    BY <2>6 DEF Start, FactoryStart, WaitForCacheSync, BackendStart, WaitForStart, QueueRun,
         StartReturns, StartOrder, storeVars, workerVars
  <2>7. ASSUME SyncLookup PROVE Handed'
    <3>1. wkey = Own
      BY <2>7 DEF SyncLookup, QueueConsistent
    <3>2. QED
      BY <2>7, <3>1 DEF SyncLookup, SyncReturns, NoLB, storeVars
  <2>8. ASSUME WorkerLaunch \/ WorkerEnter \/ WorkerQuit \/ \E k \in Keys : WorkerGet(k) PROVE Handed'
    BY <2>8 DEF WorkerLaunch, WorkerEnter, WorkerQuit, WorkerGet, storeVars
  <2>9. ASSUME SyncSetConfigMaps \/ OnUpdateRead \/ OnUpdateOk \/ OnUpdateError PROVE Handed'
    <3>1. CASE SyncSetConfigMaps
      BY <3>1 DEF SyncSetConfigMaps, storeVars
    <3>2. CASE OnUpdateRead
      BY <3>2 DEF OnUpdateRead, storeVars
    <3>3. CASE OnUpdateOk
      BY <3>3 DEF OnUpdateOk, SyncReturns, NoLB, storeVars
    <3>4. CASE OnUpdateError
      BY <3>4 DEF OnUpdateError, SyncReturns, NoLB, storeVars
    <3>5. QED
      BY <2>9, <3>1, <3>2, <3>3, <3>4
  <2>10. ASSUME UNCHANGED vars PROVE Handed'
    BY <2>2, <2>10 DEF vars, storeVars, workerVars
  <2>11. QED
    BY <2>3, <2>4, <2>5, <2>6, <2>7, <2>8, <2>9, <2>10, ClusterActions DEF Next, Worker
<1>3. QED
  BY <1>1, <1>2, TypeCorrect, QueueCorrect, StartOrderCorrect, PTL DEF Spec

\* What the backend sees of a step that leaves its side of the provider alone.
LEMMA ContractStutter ==
    ASSUME UNCHANGED <<lbs, wlb, seenLB, backendStops>>,
           spc \in {"start", "wait", "backend"} <=> spc' \in {"start", "wait", "backend"}
    PROVE  UNCHANGED Contract!vars
BY DEF Contract!vars

\* Every step of the provider is a step of the contract, or one the backend does
\* not see.
LEMMA ContractStep ==
    ASSUME TypeOK, StartOrder, QueueConsistent, StopLocked, Handed, [Next]_vars
    PROVE  [Contract!Next]_Contract!vars
<1> USE ProviderAssumption
<1>1. lbs \in [Keys -> LoadBalancer] /\ Own \in Keys /\ lbs[Own].rv \in Nat
  BY DEF TypeOK, StoreTypeOK, LoadBalancer
<1>2. ASSUME NEW k \in Keys, NEW v, NEW cm, WriteLB(k, v, cm) PROVE [Contract!Next]_Contract!vars
  <2>1. CASE k = Own
    BY <1>1, <1>2, <2>1 DEF WriteLB, workerVars, seenVars, lifeVars, Contract!Next, Contract!Write
  <2>2. CASE k # Own
    BY <1>1, <1>2, <2>2 DEF WriteLB, workerVars, seenVars, lifeVars, Contract!vars
  <2>3. QED
    BY <2>1, <2>2
<1>3. ASSUME NEW k \in Keys, DeleteLB(k) PROVE [Contract!Next]_Contract!vars
  <2>1. CASE k = Own
    BY <1>1, <1>3, <2>1 DEF DeleteLB, workerVars, seenVars, lifeVars, Contract!Next, Contract!Write
  <2>2. CASE k # Own
    BY <1>1, <1>3, <2>2 DEF DeleteLB, workerVars, seenVars, lifeVars, Contract!vars
  <2>3. QED
    BY <2>1, <2>2
<1>4. ASSUME \/ \E k \in Keys : Relist(k) \/ Requeue(k)
             \/ \E c \in CMNames : RelistCM(c) \/ \E e \in {"add", "update", "delete"} : ChangeCM(c, e)
             \/ \E i \in Informers : List(i)
             \/ HandleLB \/ HandleCM \/ TornRead
      PROVE  UNCHANGED Contract!vars
  BY <1>4, ContractStutter DEF Relist, Requeue, RelistCM, ChangeCM, List, HandleLB, HandleCM, TornRead,
       storeVars, workerVars, seenVars, lifeVars
<1>5. ASSUME NEW t \in Stoppers, \/ Sigterm(t) \/ StopAcquire(t) \/ StopClose(t) \/ StopQueue(t)
                                 \/ StopWait(t) \/ Exit(t)
      PROVE  UNCHANGED Contract!vars
  BY <1>5, ContractStutter DEF Sigterm, StopAcquire, StopClose, StopQueue, StopWait, Exit, storeVars,
       workerVars, seenVars
<1>6. ASSUME NEW t \in Stoppers, StopBackend(t) PROVE Contract!Next
  BY <1>6 DEF StopBackend, StopLocked, storeVars, workerVars, seenVars, Contract!Next, Contract!Stop
<1>7. ASSUME FactoryStart \/ WaitForCacheSync \/ QueueRun \/ StartReturns
             \/ \E started \in BOOLEAN : WaitForStart(started)
      PROVE  UNCHANGED Contract!vars
  BY <1>7, ContractStutter DEF FactoryStart, WaitForCacheSync, QueueRun, StartReturns, WaitForStart,
       storeVars, workerVars, seenVars
<1>8. ASSUME BackendStart PROVE Contract!Next
  BY <1>8 DEF BackendStart, storeVars, workerVars, seenVars, Contract!Next, Contract!Start
<1>9. ASSUME SyncLookup PROVE [Contract!Next]_Contract!vars
  <2>1. wkey = Own
    BY <1>9 DEF SyncLookup, QueueConsistent
  <2>2. wlb.rv = 0 /\ spc \notin {"start", "wait", "backend"}
    BY <1>9 DEF SyncLookup, Handed, StartOrder
  <2>3. CASE wpc' = "setcfg"
    BY <1>9, <2>1, <2>2, <2>3 DEF SyncLookup, SyncReturns, storeVars, lifeVars, Contract!Next,
         Contract!OnUpdate
  <2>4. CASE wpc' # "setcfg"
    BY <1>9, <2>2, <2>4 DEF SyncLookup, SyncReturns, NoLB, storeVars, lifeVars, Contract!vars
  <2>5. QED
    BY <2>3, <2>4
<1>10. ASSUME WorkerLaunch \/ WorkerEnter \/ WorkerQuit \/ (\E k \in Keys : WorkerGet(k))
              \/ SyncSetConfigMaps \/ OnUpdateRead
       PROVE  UNCHANGED Contract!vars
  BY <1>10, ContractStutter DEF WorkerLaunch, WorkerEnter, WorkerQuit, WorkerGet, SyncSetConfigMaps,
       OnUpdateRead, storeVars, seenVars, lifeVars
<1>11. ASSUME OnUpdateOk PROVE Contract!Next
  <2>1. Contract!OnUpdateReturns(TRUE)
    BY <1>11 DEF OnUpdateOk, SyncReturns, NoLB, Handed, storeVars, lifeVars, Contract!OnUpdateReturns
  <2>2. QED
    BY <2>1 DEF Contract!Next
<1>12. ASSUME OnUpdateError PROVE Contract!Next
  <2>1. Contract!OnUpdateReturns(FALSE)
    BY <1>12 DEF OnUpdateError, SyncReturns, NoLB, Handed, storeVars, lifeVars,
         Contract!OnUpdateReturns
  <2>2. QED
    BY <2>1 DEF Contract!Next
<1>13. ASSUME UNCHANGED vars PROVE UNCHANGED Contract!vars
  BY <1>13, ContractStutter DEF vars, storeVars, workerVars, seenVars, lifeVars
<1>14. QED
  BY <1>2, <1>3, <1>4, <1>5, <1>6, <1>7, <1>8, <1>9, <1>10, <1>11, <1>12, <1>13, ClusterActions
     DEF Next, Worker, Start, Stop

\* The generic provider implements its contract with the backend.
THEOREM ContractImplemented == Spec => ImplementsContract
<1>1. Init => Contract!Init
  BY ProviderAssumption DEF Init, Contract!Init, NoLB
<1>2. TypeOK /\ StartOrder /\ QueueConsistent /\ StopLocked /\ Handed /\ [Next]_vars
        => [Contract!Next]_Contract!vars
  BY ContractStep
<1>3. QED
  BY <1>1, <1>2, TypeCorrect, StartOrderCorrect, QueueCorrect, StopLockedCorrect, HandedCorrect, PTL
     DEF Spec, ImplementsContract, Contract!Spec

\* A backend never goes back to an older load balancer: a retry or a delayed key
\* of the queue cannot bring an overwritten version to OnUpdate.
THEOREM NeverOlderCorrect == Spec => []Contract!NeverOlder
<1> USE DEF Contract!NeverOlder
<1>1. Init => Contract!NeverOlder
  BY ProviderAssumption DEF Init, NoLB
<1>2. TypeOK /\ TypeOK' /\ Contract!NeverOlder /\ [Contract!Next]_Contract!vars
        => Contract!NeverOlder'
  <2> SUFFICES ASSUME TypeOK, TypeOK', Contract!NeverOlder, [Contract!Next]_Contract!vars
               PROVE  Contract!NeverOlder'
    OBVIOUS
  <2>1. /\ lbs[Own].rv \in Nat /\ wlb.rv \in Nat /\ seenLB.rv \in Nat
        /\ (lbs[Own].rv)' \in Nat /\ (wlb.rv)' \in Nat /\ (seenLB.rv)' \in Nat
    BY ProviderAssumption DEF TypeOK, StoreTypeOK, WorkerTypeOK, SeenTypeOK, LoadBalancer
  <2>2. CASE Contract!Write \/ Contract!Start \/ Contract!Stop
    BY <2>1, <2>2 DEF Contract!Write, Contract!Start, Contract!Stop
  <2>3. CASE Contract!OnUpdate
    BY <2>1, <2>3 DEF Contract!OnUpdate
  <2>4. ASSUME NEW ok \in BOOLEAN, Contract!OnUpdateReturns(ok) PROVE Contract!NeverOlder'
    BY <2>1, <2>4 DEF Contract!OnUpdateReturns
  <2>5. CASE UNCHANGED Contract!vars
    BY <2>1, <2>5 DEF Contract!vars
  <2>6. QED
    BY <2>2, <2>3, <2>4, <2>5 DEF Contract!Next
<1>3. TypeOK /\ StartOrder /\ QueueConsistent /\ StopLocked /\ Handed /\ [Next]_vars
        => [Contract!Next]_Contract!vars
  BY ContractStep
<1>4. QED
  BY <1>1, <1>2, <1>3, TypeCorrect, StartOrderCorrect, QueueCorrect, StopLockedCorrect, HandedCorrect,
     PTL DEF Spec
=============================================================================
