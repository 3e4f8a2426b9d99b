------------------------- MODULE KeyedCoalescingWorker -------------------------
(***************************************************************************)
(* A worker that keeps only the latest value of every key                  *)
(* (packages/shared/src/KeyedCoalescingWorker.ts); the terminal manager    *)
(* writes its history files with one.  A value enqueued while its key      *)
(* waits or is processed is merged into the value that waits; one fiber    *)
(* processes the keys of the queue, a failing process included.            *)
(*                                                                         *)
(* A value is the set of the numbers of the items merged into it, so that  *)
(* a lost, repeated or reordered item shows; {} is no value.  Whatever the *)
(* source runs in one transaction (Effect.tx) is one action.               *)
(***************************************************************************)
EXTENDS Naturals, Sequences, FiniteSets

CONSTANTS Keys, NoKey,
          MaxEnqueues   \* bound: items enqueued per key

ASSUME KeysAssumption == NoKey \notin Keys

VARIABLES
  queue,         \* keys waiting for the worker
  latestByKey,   \* the value that waits, by key
  queuedKeys,    \* keys in the queue, or about to be
  activeKeys,    \* keys being processed
  worker,        \* where the fiber is, with the key and value it holds
  enqueued,      \* history: number of items enqueued, by key
  settled        \* history: items whose processing is over, by key

workerVars == <<queue, latestByKey, queuedKeys, activeKeys, worker, enqueued, settled>>

AtRest == [step |-> "idle", key |-> NoKey, value |-> {}]
Fiber(step, key, value) == [step |-> step, key |-> key, value |-> value]

WorkerInit ==
  /\ queue = <<>> /\ queuedKeys = {} /\ activeKeys = {} /\ worker = AtRest
  /\ latestByKey = [k \in Keys |-> {}]
  /\ enqueued = [k \in Keys |-> 0]
  /\ settled = [k \in Keys |-> {}]

-----------------------------------------------------------------------------
(* enqueue.  Fault: the value that waits is replaced.                      *)
MergedByReplacing(current, item) == {item}

Offers(k) == k \notin queuedKeys \cup activeKeys
Merged(current, item) == current \cup {item}

Enqueue(k) ==
  /\ enqueued[k] < MaxEnqueues
  /\ enqueued' = [enqueued EXCEPT ![k] = @ + 1]
  /\ latestByKey' = [latestByKey EXCEPT ![k] = Merged(@, enqueued[k] + 1)]
  /\ IF Offers(k)
     THEN queue' = Append(queue, k) /\ queuedKeys' = queuedKeys \cup {k}
     ELSE UNCHANGED <<queue, queuedKeys>>
  /\ UNCHANGED <<activeKeys, worker, settled>>

-----------------------------------------------------------------------------
(* The fiber: TxQueue.take and the transaction that follows are two steps. *)
Take ==
  /\ worker = AtRest /\ queue # <<>>
  /\ worker' = Fiber("taken", Head(queue), {}) /\ queue' = Tail(queue)
  /\ UNCHANGED <<latestByKey, queuedKeys, activeKeys, enqueued, settled>>

Begin ==
  LET k == worker.key IN
  /\ worker.step = "taken"
  /\ queuedKeys' = queuedKeys \ {k}
  /\ IF latestByKey[k] = {}
     THEN worker' = AtRest /\ UNCHANGED <<latestByKey, activeKeys>>
     ELSE /\ worker' = Fiber("processing", k, latestByKey[k])
          /\ latestByKey' = [latestByKey EXCEPT ![k] = {}]
          /\ activeKeys' = activeKeys \cup {k}
  /\ UNCHANGED <<queue, enqueued, settled>>

(* The process given to the worker succeeds or fails.                      *)
Finish(step) ==
  /\ worker.step = "processing"
  /\ worker' = Fiber(step, worker.key, worker.value)
  /\ settled' = [settled EXCEPT ![worker.key] = @ \cup worker.value]
  /\ UNCHANGED <<queue, latestByKey, queuedKeys, activeKeys, enqueued>>

GoesOn(k) == latestByKey[k] # {}

(* processKey: the value that came meanwhile is next.                      *)
Continue ==
  LET k == worker.key IN
  /\ worker.step = "succeeded"
  /\ IF GoesOn(k)
     THEN /\ worker' = Fiber("processing", k, latestByKey[k])
          /\ latestByKey' = [latestByKey EXCEPT ![k] = {}]
          /\ UNCHANGED activeKeys
     ELSE worker' = AtRest /\ activeKeys' = activeKeys \ {k} /\ UNCHANGED latestByKey
  /\ UNCHANGED <<queue, queuedKeys, enqueued, settled>>

(* Fault: what came while the process failed is left waiting.              *)
RequeuesNever(k) == FALSE

Requeues(k) == latestByKey[k] # {} /\ k \notin queuedKeys

(* cleanupFailedKey: the transaction, then the offer outside it.           *)
CleanUp ==
  LET k == worker.key IN
  /\ worker.step = "failed"
  /\ activeKeys' = activeKeys \ {k}
  /\ IF Requeues(k)
     THEN worker' = Fiber("requeue", k, {}) /\ queuedKeys' = queuedKeys \cup {k}
     ELSE worker' = AtRest /\ UNCHANGED queuedKeys
  /\ UNCHANGED <<queue, latestByKey, enqueued, settled>>

Requeue ==
  /\ worker.step = "requeue"
  /\ queue' = Append(queue, worker.key) /\ worker' = AtRest
  /\ UNCHANGED <<latestByKey, queuedKeys, activeKeys, enqueued, settled>>

Work == \/ Take \/ Begin \/ Finish("succeeded") \/ Finish("failed")
        \/ Continue \/ CleanUp \/ Requeue

WorkerNext == Work \/ \E k \in Keys : Enqueue(k)

WorkerSpec == WorkerInit /\ [][WorkerNext]_workerVars

(* The runtime keeps the fiber running, and every process ends.            *)
FairWorkerSpec == WorkerSpec /\ WF_workerVars(Work)

-----------------------------------------------------------------------------
(* Fault: drainKey does not look at the key being processed.               *)
DrainedUnlessActive(k) == latestByKey[k] = {} /\ k \notin queuedKeys

(* When drainKey(k) returns.                                               *)
Drained(k) == latestByKey[k] = {} /\ k \notin queuedKeys /\ k \notin activeKeys

(* Every variable has its type; a process is never given an absent value.  *)
WorkerTypeOK ==
  /\ queue \in Seq(Keys) /\ queuedKeys \subseteq Keys /\ activeKeys \subseteq Keys
  /\ latestByKey \in [Keys -> SUBSET Nat] /\ settled \in [Keys -> SUBSET Nat]
  /\ enqueued \in [Keys -> Nat]
  /\ \/ worker = AtRest
     \/ worker \in [step: {"taken", "requeue"}, key: Keys, value: {{}}]
     \/ worker \in [step: {"processing", "succeeded", "failed"}, key: Keys,
                    value: (SUBSET Nat) \ {{}}]

(* The items of the value being processed.                                 *)
InHand(k) == IF worker.step = "processing" /\ worker.key = k THEN worker.value ELSE {}

(* Whatever interleaves with the worker, and whichever processes fail, no  *)
(* item is lost, processed twice, or overtaken by an older one: the items  *)
(* of a key are those already processed, then those in hand, then those    *)
(* that wait.                                                              *)
NothingLost ==
  \A k \in Keys :
    /\ settled[k] \cup InHand(k) \cup latestByKey[k] = 1..enqueued[k]
    /\ \A i \in settled[k], j \in InHand(k) \cup latestByKey[k] : i < j
    /\ \A i \in InHand(k), j \in latestByKey[k] : i < j

(* A client that enqueued and then drained a key finds that everything it  *)
(* enqueued has been processed: the terminal manager answers close and     *)
(* clear only when the history file is written.                            *)
DrainMeansDone == \A k \in Keys : Drained(k) => settled[k] = 1..enqueued[k]

(* The unbounded queue never holds a key twice, so it is as long as there  *)
(* are keys at most.                                                       *)
KeyQueuedOnce == \A i, j \in DOMAIN queue : queue[i] = queue[j] => i = j

(* An item that was enqueued is processed eventually, also when it came    *)
(* while the process of its key failed.  (That clients stop enqueueing is  *)
(* the bound: an endless stream for one key does starve the others.)       *)
EveryItemSettled ==
  \A k \in Keys : \A n \in 1..MaxEnqueues : enqueued[k] >= n ~> n \in settled[k]
=============================================================================
