-------------------------- MODULE OrchestrationEngine --------------------------
(***************************************************************************)
(* The orchestration engine: one worker takes commands off an unbounded    *)
(* queue, answers a known command id from its receipt, decides a fresh one *)
(* against the in-memory read model, and stores its events, their          *)
(* projection and its receipt in one SQL transaction; then it adopts the   *)
(* new read model, publishes the events and answers the client.  When any  *)
(* of this fails it re-reads what is stored beyond the point it started    *)
(* from, and a command that broke an invariant gets a rejected receipt.    *)
(*                                                                         *)
(* Durable: log, receipts, applied, tables and the sequence counter.  All  *)
(* else is lost in a crash, after which the projectors are bootstrapped    *)
(* from the log and the read model is loaded from their tables.            *)
(*                                                                         *)
(* Sources: orchestration/Layers/OrchestrationEngine.ts and                *)
(* ProjectionPipeline.ts, persistence/Layers/OrchestrationEventStore.ts,   *)
(* OrchestrationCommandReceipts.ts and ProjectionState.ts.                 *)
(***************************************************************************)
EXTENDS OrchestrationDecider, ProjectionTables

CONSTANTS
  CommandIds,          \* ids the clients give their commands
  Requests,            \* what a command can ask: [type, stream, arg, source]
  ReadLimit,           \* default limit of readFromSequence
  Gapless,             \* TRUE: a rolled back sequence number is reused (SQLite)
  InitialLog,          \* the events an earlier server left
  InitialApplied,      \* and the projector cursors it left
  MaxQueue,            \* bound: envelopes waiting at once
  MaxFailures,         \* bound: storage failures
  MaxRuns              \* bound: server starts

ProjectorSet == Range(Projectors)

(* The shapes of planned and stored events, for the type invariant.        *)
Args == {None} \cup {r.arg : r \in Requests} \cup {r.source : r \in Requests}
          \cup {r.arg.id : r \in {q \in Requests : q.type = "thread.turn.start"}}
          \cup UNION {Range(r.arg) : r \in {q \in Requests : q.type = "chat.import"}}
          \cup {InitialLog[i].arg : i \in DOMAIN InitialLog}
PlannedEvent == [stream: Projects \cup Threads, type: EventTypes, arg: Args]
RowToInsert  == [event: PlannedEvent, version: Nat \cup {None}, rank: Nat]
StoredEvent  == [sequence: Nat, version: Nat, stream: Projects \cup Threads,
                 type: EventTypes, arg: Args, cmd: CommandIds \cup {None}]
Receipt      == [status: {"none", "accepted", "rejected"}, seq: Nat]
Answer       == [kind: {"none", "pending", "ok", "rejected", "failed", "lost"}, seq: Nat]

-----------------------------------------------------------------------------
(* What the table of events promises of its rows.  Sequence numbers grow;  *)
(* versions count the events of a stream.                                  *)
InSequence(events) ==
  /\ \A i \in DOMAIN events : events[i].sequence > 0
  /\ \A i, j \in DOMAIN events : i < j => events[i].sequence < events[j].sequence
InVersion(events) ==
  \A i \in DOMAIN events :
    /\ \A j \in DOMAIN events :
         i < j /\ events[i].stream = events[j].stream => events[i].version < events[j].version
    /\ events[i].version > 0 =>
         \E j \in DOMAIN events : /\ events[j].stream = events[i].stream
                                 /\ events[j].version = events[i].version - 1

(* Projects and threads have streams, and event types, of their own.       *)
OwnStream(e) ==
  e.stream \in Projects <=>
    e.type \in {"project.created", "project.meta-updated", "project.deleted"}

IsCreation(type) == type \in {"thread.created", "project.created"}
CreationsFirst(events) ==
  \A i \in DOMAIN events : events[i].version = 0 <=> IsCreation(events[i].type)

(* A fork of a fork has the thread.forked of its source among its copies:  *)
(* its own is the last one.                                                *)
IsForkMarker(events, i) ==
  /\ events[i].type = "thread.forked"
  /\ \A j \in DOMAIN events :
       events[j].type = "thread.forked" /\ events[j].stream = events[i].stream => j <= i
EventsBefore(events, i, stream) ==
  {<<events[j].version, events[j].type>> : j \in {k \in 1..i - 1 : events[k].stream = stream}}
ForksArePrefixes(events) ==
  \A i \in DOMAIN events : IsForkMarker(events, i) =>
    /\ EventsBefore(events, i, events[i].stream) = EventsBefore(events, i, events[i].arg)
    /\ \A e \in EventsBefore(events, i, events[i].stream) : e[1] < events[i].version

(* What the proofs use of the constants.                                   *)
ASSUME NamesAssumption ==
  None \notin CommandIds /\ None \notin Nat /\ IsFiniteSet(Threads) /\ Projects \cap Threads = {}
ASSUME RequestsAssumption ==
  \A r \in Requests :
    /\ r.stream \in IF r.type \in {"project.create", "project.meta.update", "project.delete"}
                    THEN Projects ELSE Threads
    /\ r.type = "thread.create" => r.arg \in Projects
    /\ r.type = "chat.fork" => r.source \in Threads
    /\ r.type = "chat.import" => r.arg \in Seq(Range(r.arg)) /\ r.source \in Projects \cup {None}
ASSUME InitialLogAssumption ==
  /\ InitialLog \in Seq(StoredEvent)
  /\ \A i \in DOMAIN InitialLog : InitialLog[i].cmd = None /\ OwnStream(InitialLog[i])
  /\ InSequence(InitialLog) /\ InVersion(InitialLog) /\ ForksArePrefixes(InitialLog)
  /\ InitialApplied \in [ProjectorSet ->
                           {0} \cup {InitialLog[i].sequence : i \in DOMAIN InitialLog}]
ASSUME ReadLimitAssumption == ReadLimit \in Nat

VARIABLES
  log,               \* orchestration_events, by sequence
  nextSequence,      \* the sequence number the table hands out next
  receipts,          \* orchestration_command_receipts, by command id
  applied,           \* projection_state: last applied sequence per projector
  tables,            \* the projection tables
  phase,             \* what the server's worker is doing
  projector,         \* bootstrap: position in Projectors
  replay,            \* bootstrap: events it has yet to apply
  readModel,         \* the worker's read model
  snapshotSequence,  \* the sequence number it reflects
  queue,             \* commands waiting for the worker
  current,           \* the command being processed
  startSequence,     \* snapshotSequence when the worker took it
  todo,              \* rows its transaction has yet to insert
  saved,             \* events it has inserted
  nextModel,         \* the read model with saved applied
  outcome,           \* how processing ended
  toPublish,         \* events not yet published to the subscribers
  published,         \* sequence numbers published since the server started
  runStart,          \* snapshotSequence when the server started
  issued,            \* clients: the request each command id stands for
  answer,            \* clients: what each command id was last answered
  unreconciled,      \* history: stored events were not all read back (this run)
  truncated,         \* history: the limit cut off the backlog of a projector
  failures, runs     \* bounded counters

durable  == <<log, nextSequence, receipts, applied, tables>>
boot     == <<projector, replay, runStart>>
memory   == <<readModel, snapshotSequence>>
work     == <<current, startSequence, todo, saved, nextModel, outcome>>
outbox   == <<toPublish, published>>
clients  == <<issued, answer>>
counters == <<unreconciled, truncated, failures, runs>>
vars == <<durable, phase, boot, memory, queue, work, outbox, clients, counters>>

-----------------------------------------------------------------------------
(* The event store.                                                        *)
LastSequence(events) == IF events = <<>> THEN 0 ELSE Last(events).sequence

(* The log is in sequence order, so what follows from is a suffix of it.  *)
EventsAfter(events, from) ==
  LET later == {i \in DOMAIN events : events[i].sequence > from}
  IN  IF later = {} THEN <<>> ELSE SubSeq(events, Min(later), Len(events))

(* readFromSequence(from): a page loop that stops after limit events.      *)
ReadFromSequence(from) ==
  LET found == EventsAfter(log, from)
  IN  IF Len(found) > ReadLimit THEN SubSeq(found, 1, ReadLimit) ELSE found

(* History: the limit left out some of what is stored.                     *)
CutOff(from) == ReadFromSequence(from) # EventsAfter(log, from)

(* append: one more than the highest version of the stream, 0 when none.   *)
NextVersion(events, stream) ==
  LET versions == {events[i].version : i \in {j \in DOMAIN events : events[j].stream = stream}}
  IN  IF versions = {} THEN 0 ELSE Max(versions) + 1

(* UNIQUE (aggregate_kind, stream_id, stream_version).                     *)
VersionTaken(events, stream, version) ==
  \E i \in DOMAIN events : events[i].stream = stream /\ events[i].version = version

(* forkThreadEvents: every event of the source with the target's id and    *)
(* the source's version, in version order, and a trailing thread.forked.   *)
(* Only the project of thread.created is overridden; ids inside payloads   *)
(* stay the same.                                                          *)
ForkRows(cmd) ==
  LET copied == {log[i] : i \in {j \in DOMAIN log : log[j].stream = cmd.source}}
      arg(e) == IF e.type = "thread.created" /\ cmd.arg # None THEN cmd.arg ELSE e.arg
      marker == Max({e.version : e \in copied} \cup {0}) + 1
  IN  {[event |-> Planned(cmd.stream, e.type, arg(e)), version |-> e.version,
        rank |-> e.version] : e \in copied}
      \cup {[event |-> Planned(cmd.stream, "thread.forked", cmd.source),
             version |-> marker, rank |-> marker]}

(* The rows a command inserts, in order of rank.                           *)
RowsToInsert(cmd) ==
  IF cmd.type = "chat.fork" THEN ForkRows(cmd)
  ELSE LET planned == Plan(readModel, cmd)
       IN  {[event |-> planned[i], version |-> None, rank |-> i] : i \in DOMAIN planned}

(* Fault: the fork transaction does not look at the pending approvals.     *)
AcceptableToDecider(cmd) == Admits(readModel, cmd)

(* The invariants a command must meet: those of the decider, and, inside   *)
(* the fork transaction, no unresolved approval.                           *)
Acceptable(cmd) ==
  /\ Admits(readModel, cmd)
  /\ cmd.type = "chat.fork" => ~HasPendingApprovals(tables, cmd.source)

-----------------------------------------------------------------------------
NoCommand == [id |-> None, type |-> "none", stream |-> None, arg |-> None, source |-> None]
CommandFor(id, r) ==
  [id |-> id, type |-> r.type, stream |-> r.stream, arg |-> r.arg, source |-> r.source]
Commands == {CommandFor(id, r) : id \in CommandIds, r \in Requests}

(* What an earlier server projected: each projector up to its cursor.      *)
ApplyWhatIsRecorded(rows, e) ==
  FoldLeft(LAMBDA acc, name : IF e.sequence <= InitialApplied[name]
                              THEN ApplyProjector(name, acc, e) ELSE acc,
           rows, Projectors)

Init ==
  /\ log = InitialLog /\ nextSequence = LastSequence(InitialLog) + 1
  /\ receipts = [id \in CommandIds |-> [status |-> "none", seq |-> 0]]
  /\ applied = InitialApplied
  /\ tables = FoldLeft(ApplyWhatIsRecorded, EmptyTables, InitialLog)
  /\ phase = "down" /\ projector = 1 /\ replay = <<>> /\ runStart = 0
  /\ readModel = EmptyReadModel /\ snapshotSequence = 0
  /\ queue = <<>> /\ current = NoCommand /\ startSequence = 0
  /\ todo = {} /\ saved = <<>> /\ nextModel = EmptyReadModel /\ outcome = "none"
  /\ toPublish = <<>> /\ published = <<>>
  /\ issued = [id \in CommandIds |-> None]
  /\ answer = [id \in CommandIds |-> [kind |-> "none", seq |-> 0]]
  /\ unreconciled = FALSE /\ truncated = FALSE /\ failures = 0 /\ runs = 0

-----------------------------------------------------------------------------
(* Startup: each projector in turn replays what readFromSequence returns   *)
(* beyond its cursor, one transaction per event.                           *)
(* Faults: the backlog is read from the cursor of the first projector, or  *)
(* from the beginning.                                                     *)
BacklogOfFirst(p) == ReadFromSequence(applied[Projectors[1]])
BacklogFromZero(p) == ReadFromSequence(0)

Backlog(p) == ReadFromSequence(applied[Projectors[p]])

StartServer ==
  /\ phase = "down" /\ runs < MaxRuns
  /\ phase' = "bootstrap" /\ runs' = runs + 1
  /\ projector' = 1 /\ replay' = Backlog(1)
  /\ truncated' = (truncated \/ CutOff(applied[Projectors[1]]))
  /\ UNCHANGED <<durable, runStart, memory, queue, work, outbox, clients, unreconciled, failures>>

BootstrapEvent ==
  LET name == Projectors[projector]
      e    == Head(replay)
  IN  /\ phase = "bootstrap" /\ replay # <<>>
      /\ applied' = [applied EXCEPT ![name] = e.sequence]
      /\ tables' = ApplyProjector(name, tables, e)
      /\ replay' = Tail(replay)
      /\ UNCHANGED <<log, nextSequence, receipts, phase, projector, runStart, memory,
                     queue, work, outbox, clients, counters>>

BootstrapNext ==
  /\ phase = "bootstrap" /\ replay = <<>> /\ projector < Len(Projectors)
  /\ projector' = projector + 1 /\ replay' = Backlog(projector + 1)
  /\ truncated' = (truncated \/ CutOff(applied[Projectors[projector + 1]]))
  /\ UNCHANGED <<durable, phase, runStart, memory, queue, work, outbox, clients, unreconciled,
                 failures, runs>>

(* getSnapshot: the read model is loaded from the rows, and its sequence   *)
(* is the lowest cursor of the projectors the snapshot requires.           *)
LoadSnapshot ==
  /\ phase = "bootstrap" /\ replay = <<>> /\ projector = Len(Projectors)
  /\ readModel' = Snapshot(tables)
  /\ snapshotSequence' = Min({applied[p] : p \in RequiredSnapshotProjectors})
  /\ runStart' = snapshotSequence'
  /\ phase' = "idle"
  /\ UNCHANGED <<durable, projector, replay, queue, work, outbox, clients, counters>>

-----------------------------------------------------------------------------
(* Clients.  A command id always stands for the same request, but a client *)
(* that saw no answer may send it again, even while it is still queued.    *)
Running == phase \notin {"down", "bootstrap"}

Enqueue(id) ==
  /\ Running /\ Len(queue) < MaxQueue
  /\ queue' = Append(queue, CommandFor(id, issued'[id]))
  /\ answer' = [answer EXCEPT ![id] = [kind |-> "pending", seq |-> 0]]
  /\ UNCHANGED <<durable, phase, boot, memory, work, outbox, counters>>

Dispatch(id, request) ==
  /\ issued[id] = None
  /\ issued' = [issued EXCEPT ![id] = request]
  /\ Enqueue(id)

Redispatch(id) ==
  /\ issued[id] # None
  /\ issued' = issued
  /\ Enqueue(id)

-----------------------------------------------------------------------------
(* The worker takes the next envelope.                                     *)
(* Faults: the answer carries the sequence number of the read model, or a  *)
(* command that failed is left without one.                                *)
RepliedWithSnapshot(id, kind, seq) ==
  answer' = [answer EXCEPT ![id] = [kind |-> kind, seq |-> snapshotSequence]]
RepliedUnlessFailed(id, kind, seq) ==
  answer' = IF kind = "failed" THEN answer
            ELSE [answer EXCEPT ![id] = [kind |-> kind, seq |-> seq]]

Replied(id, kind, seq) == answer' = [answer EXCEPT ![id] = [kind |-> kind, seq |-> seq]]

(* A known command id is answered from its receipt.                        *)
ReplayReceipt ==
  /\ phase = "idle" /\ queue # <<>>
  /\ LET id == Head(queue).id IN
       \/ receipts[id].status = "accepted" /\ Replied(id, "ok", receipts[id].seq)
       \/ receipts[id].status = "rejected" /\ Replied(id, "rejected", 0)
  /\ queue' = Tail(queue)
  /\ UNCHANGED <<durable, phase, boot, memory, work, outbox, issued, counters>>

Take ==
  /\ phase = "idle" /\ queue # <<>>
  /\ current' = Head(queue) /\ queue' = Tail(queue)
  /\ startSequence' = snapshotSequence
  /\ UNCHANGED <<durable, boot, memory, outbox, clients, unreconciled, truncated, runs>>

(* Faults: a rejected command is decided again, or every command is.       *)
FreshUnlessAccepted == receipts[Head(queue).id].status # "accepted"
FreshAlways == TRUE

Fresh == receipts[Head(queue).id].status = "none"

BeginTransaction ==
  /\ Take /\ Fresh /\ Acceptable(Head(queue))
  /\ phase' = "append" /\ outcome' = "ok"
  /\ todo' = RowsToInsert(Head(queue)) /\ saved' = <<>> /\ nextModel' = readModel
  /\ UNCHANGED failures

BreakInvariant ==
  /\ Take /\ Fresh /\ ~Acceptable(Head(queue))
  /\ phase' = "recover" /\ outcome' = "rejected"
  /\ UNCHANGED <<todo, saved, nextModel, failures>>

FailLookup ==
  /\ Take /\ failures < MaxFailures
  /\ phase' = "recover" /\ outcome' = "failed" /\ failures' = failures + 1
  /\ UNCHANGED <<todo, saved, nextModel>>

-----------------------------------------------------------------------------
(* The transaction: insert an event, project it in memory and in the       *)
(* tables; nothing of it is visible before Commit.                         *)
(* Fault: the store assigns no version.                                    *)
InsertVersionAsPlanned(row) == row.version

InsertVersion(row) ==
  IF row.version = None THEN NextVersion(log \o saved, row.event.stream) ELSE row.version

Insertable(row) == ~VersionTaken(log \o saved, row.event.stream, InsertVersion(row))

(* Fault: rows are inserted in any order.                                  *)
NextRowInAnyOrder(row) == row \in todo

NextRow(row) == row \in todo /\ \A other \in todo : row.rank <= other.rank

AppendEvent ==
  /\ phase = "append"
  /\ \E row \in todo :
       /\ NextRow(row) /\ Insertable(row)
       /\ LET e == [sequence |-> nextSequence, version |-> InsertVersion(row),
                    stream |-> row.event.stream, type |-> row.event.type,
                    arg |-> row.event.arg, cmd |-> current.id]
          IN  saved' = Append(saved, e) /\ nextModel' = ProjectEvent(nextModel, e)
       /\ todo' = todo \ {row}
  /\ nextSequence' = nextSequence + 1
  /\ UNCHANGED <<log, receipts, applied, tables, phase, boot, memory, queue, current,
                 startSequence, outcome, outbox, clients, counters>>

(* What the sequence counter shows after an uncommitted transaction.       *)
SequenceAfterRollback == IF Gapless THEN LastSequence(log) + 1 ELSE nextSequence

Rollback ==
  /\ phase' = "recover" /\ outcome' = "failed"
  /\ todo' = {} /\ saved' = <<>> /\ nextModel' = readModel
  /\ nextSequence' = SequenceAfterRollback
  /\ UNCHANGED <<log, receipts, applied, tables, boot, memory, queue, current,
                 startSequence, outbox, clients, unreconciled, truncated, runs>>

FailTransaction ==
  /\ phase = "append" /\ failures < MaxFailures
  /\ failures' = failures + 1 /\ Rollback

ViolateUnique ==
  /\ phase = "append"
  /\ \E row \in todo : NextRow(row) /\ ~Insertable(row)
  /\ UNCHANGED failures /\ Rollback

(* The durable effect: events, projections, cursors and receipt at once.   *)
Commit ==
  /\ phase = "append" /\ todo = {}
  /\ log' = log \o saved
  /\ tables' = FoldLeft(ApplyEvent, tables, saved)
  /\ applied' = [p \in ProjectorSet |-> Last(saved).sequence]
  /\ receipts' = [receipts EXCEPT ![current.id] =
                    [status |-> "accepted", seq |-> Last(saved).sequence]]
  /\ UNCHANGED <<nextSequence, boot, queue, current, startSequence, todo, nextModel,
                 clients, unreconciled, truncated, runs>>

(* Faults: the read model stays behind, or the events of a command are     *)
(* published from the last to the first.                                   *)
CommitKeepingModel ==
  /\ Commit
  /\ readModel' = readModel /\ snapshotSequence' = Last(saved).sequence
  /\ toPublish' = saved /\ saved' = saved /\ phase' = "publish"
  /\ UNCHANGED <<outcome, published, failures>>
CommitPublishingBackwards ==
  /\ Commit
  /\ readModel' = nextModel /\ snapshotSequence' = Last(saved).sequence
  /\ toPublish' = Reverse(saved) /\ saved' = saved /\ phase' = "publish"
  /\ UNCHANGED <<outcome, published, failures>>

CommitAcknowledged ==
  /\ Commit
  /\ readModel' = nextModel /\ snapshotSequence' = Last(saved).sequence
  /\ toPublish' = saved /\ saved' = saved /\ phase' = "publish"
  /\ UNCHANGED <<outcome, published, failures>>

(* Fault: a failing commit is taken for one that left nothing behind.      *)
CommitLost ==
  /\ failures < MaxFailures
  /\ Commit
  /\ failures' = failures + 1
  /\ saved' = <<>> /\ phase' = "publish" /\ outcome' = "failed"
  /\ UNCHANGED <<memory, outbox>>

(* The commit is durable, but the connection fails before it says so.      *)
CommitUnacknowledged ==
  /\ failures < MaxFailures
  /\ Commit
  /\ failures' = failures + 1
  /\ saved' = <<>> /\ phase' = "recover" /\ outcome' = "failed"
  /\ UNCHANGED <<memory, outbox>>

-----------------------------------------------------------------------------
(* reconcileReadModelAfterDispatchFailure: what is stored beyond the start *)
(* is projected in memory and published; a failing read is only logged.    *)
Reconcile ==
  /\ phase = "recover"
  /\ LET found == ReadFromSequence(startSequence) IN
       \/ /\ found # <<>>
          /\ readModel' = FoldLeft(ProjectEvent, readModel, found)
          /\ snapshotSequence' = Last(found).sequence
          /\ toPublish' = found
       \/ found = <<>> /\ UNCHANGED <<memory, toPublish>>
  /\ phase' = "publish"
  /\ unreconciled' = (unreconciled \/ CutOff(startSequence))
  /\ UNCHANGED <<durable, boot, queue, work, published, clients, truncated, failures, runs>>

FailReconcile ==
  /\ phase = "recover" /\ failures < MaxFailures
  /\ failures' = failures + 1 /\ phase' = "publish"
  /\ unreconciled' = (unreconciled \/ LastSequence(log) > startSequence)
  /\ UNCHANGED <<durable, boot, memory, queue, work, outbox, clients, truncated, runs>>

PublishEvent ==
  /\ phase = "publish" /\ toPublish # <<>>
  /\ published' = Append(published, Head(toPublish).sequence)
  /\ toPublish' = Tail(toPublish)
  /\ UNCHANGED <<durable, phase, boot, memory, queue, work, clients, counters>>

(* Fault: every error gets a rejected receipt.                             *)
RejectsAnyError == outcome # "ok"

(* Only a command that broke an invariant gets a receipt for its error.    *)
RejectsForGood == outcome = "rejected"

(* The receipt is written last, and a failure to write it is ignored.      *)
RecordRejection ==
  /\ phase = "publish" /\ toPublish = <<>> /\ RejectsForGood
  /\ \/ /\ receipts' = [receipts EXCEPT ![current.id] =
                          [status |-> "rejected", seq |-> snapshotSequence]]
        /\ UNCHANGED failures
     \/ failures < MaxFailures /\ failures' = failures + 1 /\ UNCHANGED receipts
  /\ phase' = "answer"
  /\ UNCHANGED <<log, nextSequence, applied, tables, boot, memory, queue, work, outbox,
                 clients, unreconciled, truncated, runs>>

(* Deferred.succeed or Deferred.fail, and back to the queue.               *)
AnswerClient ==
  /\ \/ phase = "answer"
     \/ phase = "publish" /\ toPublish = <<>> /\ ~RejectsForGood
  /\ Replied(current.id, outcome, IF outcome = "ok" THEN Last(saved).sequence ELSE 0)
  /\ phase' = "idle" /\ current' = NoCommand /\ outcome' = "none" /\ startSequence' = 0
  /\ todo' = {} /\ saved' = <<>> /\ nextModel' = EmptyReadModel
  /\ UNCHANGED <<durable, boot, memory, queue, outbox, issued, counters>>

-----------------------------------------------------------------------------
(* The process dies: an open transaction is rolled back by the database    *)
(* and every waiting client loses its answer.                              *)
Crash ==
  /\ phase # "down"
  /\ phase' = "down" /\ nextSequence' = SequenceAfterRollback
  /\ projector' = 1 /\ replay' = <<>> /\ runStart' = 0
  /\ readModel' = EmptyReadModel /\ snapshotSequence' = 0
  /\ queue' = <<>> /\ current' = NoCommand /\ startSequence' = 0
  /\ todo' = {} /\ saved' = <<>> /\ nextModel' = EmptyReadModel /\ outcome' = "none"
  /\ toPublish' = <<>> /\ published' = <<>>
  /\ answer' = [id \in CommandIds |->
                  IF answer[id].kind = "pending" THEN [kind |-> "lost", seq |-> 0]
                  ELSE answer[id]]
  /\ unreconciled' = FALSE
  /\ UNCHANGED <<log, receipts, applied, tables, issued, truncated, failures, runs>>

Startup == StartServer \/ BootstrapEvent \/ BootstrapNext \/ LoadSnapshot
Process == \/ ReplayReceipt \/ BeginTransaction \/ BreakInvariant \/ AppendEvent
           \/ ViolateUnique \/ CommitAcknowledged \/ Reconcile \/ PublishEvent
           \/ RecordRejection \/ AnswerClient
StorageFailure == FailLookup \/ FailTransaction \/ CommitUnacknowledged \/ FailReconcile
Client == \E id \in CommandIds : Redispatch(id) \/ \E r \in Requests : Dispatch(id, r)

Next == Startup \/ Process \/ StorageFailure \/ Client \/ Crash

Spec == Init /\ [][Next]_vars

(* The runtime keeps the worker fiber running.                             *)
FairSpec == Spec /\ WF_vars(Process)

-----------------------------------------------------------------------------
(* Every variable the control depends on has its type; the read models are *)
(* left to the comparison MemoryMatchesStore makes between them.           *)
TypeOK ==
  /\ log \in Seq(StoredEvent) /\ nextSequence \in Nat
  /\ receipts \in [CommandIds -> Receipt]
  /\ applied \in [ProjectorSet -> Nat]
  /\ phase \in {"down", "bootstrap", "idle", "append", "recover", "publish", "answer"}
  /\ projector \in DOMAIN Projectors /\ replay \in Seq(StoredEvent)
  /\ snapshotSequence \in Nat /\ startSequence \in Nat /\ runStart \in Nat
  /\ queue \in Seq(Commands) /\ current \in Commands \cup {NoCommand}
  /\ todo \in SUBSET RowToInsert /\ saved \in Seq(StoredEvent)
  /\ outcome \in {"none", "ok", "rejected", "failed"}
  /\ toPublish \in Seq(StoredEvent) /\ published \in Seq(Nat)
  /\ issued \in [CommandIds -> Requests \cup {None}]
  /\ answer \in [CommandIds -> Answer]
  /\ unreconciled \in BOOLEAN /\ truncated \in BOOLEAN /\ failures \in Nat /\ runs \in Nat

(* A command takes effect at most once, and wholly: however often its id   *)
(* is dispatched and whatever fails in between, its events form one block  *)
(* of the log that ends at the sequence number of its accepted receipt,    *)
(* and a command without such a receipt has no event.                      *)
ExactlyOnce ==
  \A id \in CommandIds :
    IF receipts[id].status = "accepted"
    THEN \E first, last \in DOMAIN log :
           /\ first <= last /\ log[last].sequence = receipts[id].seq
           /\ \A i \in DOMAIN log : log[i].cmd = id <=> first <= i /\ i <= last
    ELSE \A i \in DOMAIN log : log[i].cmd # id

(* No step stores an event of a project or thread before its creation, or  *)
(* a second creation, as long as the read model that admits commands is    *)
(* current: the decider's checks are as good as checks of the log itself.  *)
(* (A second creation that a stale read model let in can still be forked.) *)
CreatedFirstAndOnce ==
  [][~unreconciled /\ ~truncated /\ CreationsFirst(log) => CreationsFirst(log')]_vars

(* Between commands the read model that decides the next one is what the   *)
(* projection tables hold, and it reflects the whole log, unless a commit  *)
(* whose acknowledgement was lost could not be read back either, or more   *)
(* was left to project than one read returns.                              *)
MemoryMatchesStore ==
  phase = "idle" /\ ~unreconciled /\ ~truncated =>
    /\ snapshotSequence = LastSequence(log)
    /\ readModel = Snapshot(tables)
    /\ \A p \in ProjectorSet : applied[p] = LastSequence(log)

(* Subscribers are sent the stored events in log order, each once, without *)
(* a gap, starting after the snapshot the server began with; once a        *)
(* command is over nothing is left out.                                    *)
PublishedIsLog ==
  ~unreconciled /\ ~truncated =>
    LET stored == EventsAfter(log, runStart)
    IN  /\ Len(published) <= Len(stored)
        /\ \A i \in DOMAIN published : published[i] = stored[i].sequence
        /\ phase = "idle" => Len(published) = Len(stored)

(* A verdict on a command id is final: no later dispatch, failure or       *)
(* restart changes a receipt, so a retry gets the answer of the original.  *)
ReceiptsFinal ==
  [][\A id \in CommandIds : receipts[id].status # "none" => receipts'[id] = receipts[id]]_vars

(* A client that is told "ok" is told the sequence number of its receipt,  *)
(* and by then the event with that number is in the log.                   *)
OkMeansStored ==
  \A id \in CommandIds : answer[id].kind = "ok" =>
    /\ receipts[id] = [status |-> "accepted", seq |-> answer[id].seq]
    /\ \E i \in DOMAIN log : log[i].cmd = id /\ log[i].sequence = answer[id].seq

(* A fork is a copy of its source at one moment: below its thread.forked   *)
(* it has, version by version, the events its source had by then, all of   *)
(* them, and the marker's version follows theirs.                          *)
ForkIsPrefixOfSource == ForksArePrefixes(log)

(* Whatever the cursors a projector starts from, once the server runs      *)
(* every projector has applied the whole log (if one read returns what it  *)
(* has yet to apply) ...                                                   *)
BootstrapCatchesUp ==
  phase = "idle" /\ ~truncated => \A p \in ProjectorSet : applied[p] = LastSequence(log)

(* ... and the tables are those that projecting every event as it came     *)
(* would have left, although projectors now replay one after the other.    *)
(* (Ranging over {rows} makes TLC evaluate the rows of one event before    *)
(* the next; left to the end, the log is deeper than its stack.)           *)
ApplyEventNow(rows, e) == CHOOSE next \in {ApplyEvent(r, e) : r \in {rows}} : TRUE

TablesAreProjectionOfLog ==
  phase = "idle" => tables = FoldLeft(ApplyEventNow, EmptyTables, log)

(* What the decider reads of a thread.                                     *)
AdmissionView(model) ==
  [t \in Threads |->
     LET thread == model.threads[t]
     IN  [exists |-> thread.exists, project |-> thread.project,
          archived |-> thread.archived, deleted |-> thread.deleted,
          busy |-> thread.session.status \in {"running", "starting"},
          streaming |-> \E i \in DOMAIN thread.messages : thread.messages[i].streaming,
          plans |-> {x.id : x \in thread.plans}]]

(* A restart changes no verdict: the read model the worker has, and the    *)
(* one a restarted server would load, decide every command alike, although *)
(* the one is kept by the projector and the other by SQL statements.       *)
RestartKeepsVerdicts ==
  phase = "idle" /\ ~unreconciled /\ ~truncated =>
    AdmissionView(readModel) = AdmissionView(Snapshot(tables))

(* A command leaves the tables of every other thread alone: what a thread  *)
(* shows after a restart changes only by events of its own stream.         *)
OthersUntouched ==
  [][\A t \in Threads :
       phase = "append" /\ (\A i \in DOMAIN saved : saved[i].stream # t)
         => Snapshot(tables').threads[t] = Snapshot(tables).threads[t]]_vars

(* When it does so for sure: no thread is forked, as the copies keep the   *)
(* ids of what they copy, and no message, plan or activity of the initial  *)
(* log or of a request has the id of one on another thread.                *)
ItemTypes == {"thread.message-sent", "thread.proposed-plan-upserted", "thread.activity-appended"}
Drafts ==
  Range(InitialLog) \cup UNION {Range(Plan(EmptyReadModel, CommandFor(None, r))) : r \in Requests}
DraftsOf(type) == {e \in Drafts : e.type = type}
Carriers == {e \in Drafts : e.type \in ItemTypes}
OneThreadPerItem ==
  /\ \A r \in Requests : r.type # "chat.fork"
  /\ \A e \in Carriers : "id" \in DOMAIN e.arg
  /\ \A e, f \in Carriers : e.type = f.type /\ e.arg.id = f.arg.id => e.stream = f.stream

(* What messages and plans are made of; no item names its thread itself.   *)
ItemShapes ==
  /\ \A e \in Carriers : Without(e.arg, "thread") = e.arg
  /\ \A e \in DraftsOf("thread.message-sent") :
       /\ DOMAIN e.arg = {"id", "role", "turn", "streaming", "text"}
       /\ e.arg.streaming \in BOOLEAN /\ e.arg.text \in Nat
  /\ \A e \in DraftsOf("thread.proposed-plan-upserted") : DOMAIN e.arg = {"id", "turn"}

(* RestartKeepsVerdicts holds for sure when a turn number stands for one   *)
(* turn of a thread, whatever is streamed belongs to one turn, and neither *)
(* a checkpoint of another turn nor a turn start names it: then the two    *)
(* ways to find what a revert leaves behind, by the checkpoints in memory  *)
(* and by the turn rows in the store, agree on what the decider looks at.  *)
StreamedIds == {e.arg.id : e \in {d \in DraftsOf("thread.message-sent") : d.arg.streaming}}
TurnsToldApart ==
  /\ \A c, d \in DraftsOf("thread.turn-diff-completed") :
       /\ c.arg.count \in Nat
       /\ c.stream = d.stream => (c.arg.turn = d.arg.turn <=> c.arg.count = d.arg.count)
  /\ \A e \in DraftsOf("thread.message-sent") : e.arg.id \in StreamedIds =>
       /\ e.arg.role = "assistant" /\ e.arg.turn # None
       /\ \A f \in DraftsOf("thread.message-sent") : f.arg.id = e.arg.id => f.arg.turn = e.arg.turn
       /\ \A c \in DraftsOf("thread.turn-diff-completed") :
            c.arg.message = e.arg.id => c.arg.turn = e.arg.turn
  /\ \A e \in DraftsOf("thread.turn-start-requested") : e.arg \notin StreamedIds
  /\ None \notin StreamedIds

(* MemoryMatchesStore does when no turn is run, only asked for: of a turn  *)
(* the store keeps more than the projector does.                           *)
NoTurnRuns ==
  /\ DraftsOf("thread.turn-diff-completed") = {} /\ DraftsOf("thread.reverted") = {}
  /\ \A e \in DraftsOf("thread.session-set") : e.arg.status = "running" => e.arg.turn = None
  /\ \A e \in DraftsOf("thread.turn-interrupt-requested") : e.arg = None
  /\ \A e \in DraftsOf("thread.message-sent") :
       /\ e.arg.role = "assistant" => e.arg.turn = None
       /\ \A f \in DraftsOf("thread.message-sent") : f.arg.id = e.arg.id => f.arg.role = e.arg.role

(* Both from a log that begins each stream with its creation and that the  *)
(* projectors have all applied, as a server leaves it between commands.    *)
StartsSettled ==
  /\ \A p \in ProjectorSet : InitialApplied[p] = LastSequence(InitialLog)
  /\ \A i \in DOMAIN InitialLog : \E j \in 1..i :
       InitialLog[j].stream = InitialLog[i].stream /\ IsCreation(InitialLog[j].type)

(* A live thread is never forked while an approval it asked for is open:   *)
(* the projected counter the fork transaction reads is what the log says,  *)
(* whichever of the activities and responses came first.                   *)
OpenApprovals(t) ==
  LET appended(kind) == {log[i].arg.request : i \in {j \in DOMAIN log :
                            /\ log[j].type = "thread.activity-appended" /\ log[j].stream = t
                            /\ log[j].arg.kind = kind}}
      answered == {log[i].arg : i \in {j \in DOMAIN log :
                      log[j].type = "thread.approval-response-requested"}}
      stale == {r \in appended("approval.respond.stale") :
                  \E i, j \in DOMAIN log :
                    /\ i < j /\ log[i].type = log[j].type
                    /\ log[i].type = "thread.activity-appended"
                    /\ log[i].arg.request = r /\ log[i].arg.kind = "approval.requested"
                    /\ log[j].arg.request = r /\ log[j].arg.kind = "approval.respond.stale"}
  IN  appended("approval.requested") \ (appended("approval.resolved") \cup answered \cup stale)

ForkWaitsForApprovals ==
  [][\A i \in Len(log) + 1 .. Len(log') :
       IsForkMarker(log', i) /\ ~tables.threads[log'[i].arg].deleted
         => OpenApprovals(log'[i].arg) = {}]_vars

(* Every dispatched command is answered, or its connection dies with the   *)
(* server: no failure path forgets the waiting client.                     *)
EveryCommandAnswered ==
  \A id \in CommandIds : answer[id].kind = "pending" ~> answer[id].kind # "pending"

(* The engine implements the abstract command log.                         *)
Promise == INSTANCE CommandLog WITH
  Before  <- [i \in DOMAIN InitialLog |-> InitialLog[i].cmd],
  entries <- [i \in DOMAIN log |-> log[i].cmd],
  verdict <- [id \in CommandIds |-> receipts[id].status],
  told    <- [id \in CommandIds |-> answer[id].kind]

ImplementsCommandLog == Promise!Spec
=============================================================================
