------------------------------ MODULE SyncQueue ------------------------------
(***************************************************************************)
(* The rate limited work queue behind the generic provider                 *)
(* (clientset/util/syncqueue on top of client-go/util/workqueue).          *)
(*                                                                         *)
(* Simplifications:                                                        *)
(*  - the FIFO slice Type.queue is a set: no property depends on the order *)
(*    in which two different keys are handed out;                          *)
(*  - the delay of a retry is not measured, a delayed key becomes ready at *)
(*    any later moment.                                                    *)
(* The operators below are the queue's methods; the module of the provider *)
(* conjoins them with the steps of the goroutine that calls them.          *)
(***************************************************************************)
EXTENDS Integers

CONSTANTS Keys,        \* the namespace/name keys that may be enqueued
          MaxRetries   \* syncqueue.maxRetries

ASSUME QueueAssumption == MaxRetries \in Nat

VARIABLES queue,        \* keys ready for a worker
          dirty,        \* keys that need processing
          processing,   \* keys a worker has taken and not yet marked done
          delayed,      \* keys waiting in the delaying queue for their retry
          requeues,     \* failures counted by the rate limiter for each key
          shuttingDown  \* Type.shuttingDown

queueVars == <<queue, dirty, processing, delayed, requeues, shuttingDown>>

QueueTypeOK ==
    /\ queue \in SUBSET Keys
    /\ dirty \in SUBSET Keys
    /\ processing \in SUBSET Keys
    /\ delayed \in SUBSET Keys
    /\ requeues \in [Keys -> 0..MaxRetries]
    /\ shuttingDown \in BOOLEAN

QueueInit ==
    /\ queue = {}
    /\ dirty = {}
    /\ processing = {}
    /\ delayed = {}
    /\ requeues = [k \in Keys |-> 0]
    /\ shuttingDown = FALSE

\* Mutant: Add forgets that the key is being processed.
AddWhileProcessing(k) ==
    IF shuttingDown \/ k \in dirty
    THEN UNCHANGED <<queue, dirty>>
    ELSE /\ dirty' = dirty \cup {k}
         /\ queue' = queue \cup {k}

\* Mutant: Add ignores a key that is being processed.
AddUnlessProcessing(k) ==
    IF shuttingDown \/ k \in dirty \cup processing
    THEN UNCHANGED <<queue, dirty>>
    ELSE /\ dirty' = dirty \cup {k}
         /\ queue' = queue \cup {k}

\* Type.Add: a key that is already dirty, or comes after ShutDown, is ignored;
\* a key being processed is only marked dirty.
Add(k) ==
    IF shuttingDown \/ k \in dirty
    THEN UNCHANGED <<queue, dirty>>
    ELSE /\ dirty' = dirty \cup {k}
         /\ queue' = queue \cup ({k} \ processing)

\* SyncQueue.Enqueue, called by the event handlers.
Enqueue(k) ==
    /\ Add(k)
    /\ UNCHANGED <<processing, delayed, requeues, shuttingDown>>

\* Type.Get hands out a ready key; it still drains the queue after ShutDown.
Get(k) ==
    /\ k \in queue
    /\ queue' = queue \ {k}
    /\ processing' = processing \cup {k}
    /\ dirty' = dirty \ {k}
    /\ UNCHANGED <<delayed, requeues, shuttingDown>>

\* Type.Done puts a key that became dirty meanwhile back on the queue.
Done(k) ==
    /\ processing' = processing \ {k}
    /\ queue' = queue \cup ({k} \cap dirty)

\* Mutant: one retry too many.
CanRetryOnceMore(k) == requeues[k] <= MaxRetries

CanRetry(k) == requeues[k] < MaxRetries

\* SyncQueue.handleSyncError followed by the deferred Done, after the sync
\* handler has returned: success forgets the failures of the key, an error is
\* retried with a delay MaxRetries times and then dropped and forgotten.
HandleSyncError(k, ok) ==
    /\ \/ /\ ok \/ ~CanRetry(k)
          /\ requeues' = [requeues EXCEPT ![k] = 0]
          /\ UNCHANGED delayed
       \/ /\ ~ok /\ CanRetry(k)
          /\ requeues' = [requeues EXCEPT ![k] = @ + 1]
          /\ delayed' = IF shuttingDown THEN delayed ELSE delayed \cup {k}
    /\ Done(k)
    /\ UNCHANGED <<dirty, shuttingDown>>

\* Mutant: a delayed key is taken off the heap and not added.
DelayOverLost(k) ==
    /\ k \in delayed
    /\ ~shuttingDown
    /\ delayed' = delayed \ {k}
    /\ UNCHANGED <<queue, dirty, processing, requeues, shuttingDown>>

\* delayingType.waitingLoop adds a delayed key whose time has come.
DelayOver(k) ==
    /\ k \in delayed
    /\ ~shuttingDown
    /\ delayed' = delayed \ {k}
    /\ Add(k)
    /\ UNCHANGED <<processing, requeues, shuttingDown>>

\* Mutant: the work queue is not told to shut down.
QueueShutDownSkipped == UNCHANGED queueVars

\* SyncQueue.ShutDown up to waitGroup.Wait.
QueueShutDown ==
    /\ shuttingDown' = TRUE
    /\ UNCHANGED <<queue, dirty, processing, delayed, requeues>>

=============================================================================
