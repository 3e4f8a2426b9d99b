---------------------------- MODULE TurnCheckpoints ----------------------------
(***************************************************************************)
(* Checkpoints of the turns of one thread.  A provider edits the workspace *)
(* turn by turn and publishes runtime events.  Two workers consume them:   *)
(* the ingestion, which tracks the running turn and leaves a placeholder   *)
(* when the provider reports a diff, and the checkpoint reactor, which     *)
(* captures the workspace into hidden git refs and restores it when the    *)
(* user reverts.  Each reads the read model, awaits git or the engine, and *)
(* dispatches what it concluded from what it read.                         *)
(*                                                                         *)
(* The engine is what it promises: a dispatched command is one step that   *)
(* appends an event, projects it (OrchestrationProjector) and publishes it *)
(* to the reactor.  The fibers that move published events into a worker's  *)
(* queue do nothing else, so a queue holds events in publication order.    *)
(* The workspace is a git repository and its session has a directory.      *)
(*                                                                         *)
(* Sources: orchestration/Layers/CheckpointReactor.ts and                  *)
(* ProviderRuntimeIngestion.ts, checkpointing/Layers/CheckpointStore.ts.   *)
(***************************************************************************)
EXTENDS OrchestrationProjector

CONSTANTS
  Outcomes,      \* how turns end: "completed", "failed", "interrupted"
  Notices,       \* the provider reports diffs "atEnd" of a turn or at "anyTime"
  MaxTurns, MaxEdits, MaxReverts, MaxFailures,  \* bounds
  MaxHurriedTurns

Turns  == 1..MaxTurns
Edits  == Turns \X (1..MaxEdits)
Counts == 0..MaxTurns

(* None is no workspace and no turn count.                                 *)
ASSUME CheckpointsAssumption ==
  /\ MaxTurns \in Nat /\ MaxHurriedTurns \in 0..MaxTurns
  /\ (\A s \in SUBSET Edits : s # None) /\ (\A n \in Counts : n # None)

VARIABLES
  hurried,       \* user and provider do not wait for the workers, ever
  files,         \* edits the workspace holds; the HEAD commit holds none
  refs,          \* checkpoint refs in git: files by turn count, or None
  thread,        \* the thread in the read model
  running,       \* provider: the turn it runs, or None
  conversation,  \* provider: the turns it remembers
  asked,         \* the turn the user asked for and the provider has to start
  lastTurn,      \* turns are numbered as they are asked for
  ingestInbox, ingesting,   \* ingestion: its queue, and the event in hand
  reactorInbox, reactor,    \* reactor: its queue, and what it is doing
  made,          \* history: every edit made
  filesAfter,    \* history: the workspace when a turn ended, or None
  torn,          \* history: a revert ended between its first deleted ref and its report
  reverts, failures         \* bounded counters

workspace == <<files, made>>
provider  == <<running, conversation, asked, lastTurn, filesAfter>>
ingestion == <<ingestInbox, ingesting>>
vars == <<hurried, files, refs, thread, running, conversation, asked, lastTurn, ingestInbox,
          ingesting, reactorInbox, reactor, made, filesAfter, torn, reverts, failures>>
counters == <<hurried, torn, reverts, failures>>

Idle == [step |-> "idle"]

Init ==
  /\ hurried \in BOOLEAN
  /\ files = {} /\ made = {} /\ refs = [n \in Counts |-> None]
  /\ thread = NewThread(None)
  /\ running = None /\ conversation = <<>> /\ asked = None /\ lastTurn = 0
  /\ filesAfter = [t \in Turns |-> None]
  /\ ingestInbox = <<>> /\ ingesting = Idle /\ reactorInbox = <<>> /\ reactor = Idle
  /\ torn = FALSE /\ reverts = 0 /\ failures = 0

-----------------------------------------------------------------------------
Event(type, turn) == [type |-> type, turn |-> turn]
Completed(turn, outcome) == [type |-> "turn.completed", turn |-> turn, outcome |-> outcome]

(* Nothing is left to do for either worker.                                *)
Settled ==
  ingestInbox = <<>> /\ reactorInbox = <<>> /\ ingesting = Idle /\ reactor = Idle

MayAct == hurried \/ Settled

(* Who hurries is followed for fewer turns, without reverts and failures.  *)
MayAsk == lastTurn < (IF hurried THEN MaxHurriedTurns ELSE MaxTurns)
MayFail == ~hurried /\ failures < MaxFailures

(* The user asks for a turn; the reactor hears of it as a domain event,    *)
(* while the provider is told by another reactor.  (The user's message is  *)
(* an event as well, published just before and handled alike.)             *)
AskTurn ==
  /\ MayAct /\ running = None /\ asked = None /\ MayAsk
  /\ lastTurn' = lastTurn + 1 /\ asked' = lastTurn'
  /\ reactorInbox' = Append(reactorInbox, Event("thread.turn-start-requested", lastTurn'))
  /\ UNCHANGED <<workspace, refs, thread, running, conversation, filesAfter, ingestion,
                 reactor, counters>>

StartTurn ==
  /\ MayAct /\ asked # None
  /\ running' = asked /\ asked' = None /\ conversation' = Append(conversation, asked)
  /\ ingestInbox' = Append(ingestInbox, Event("turn.started", asked))
  /\ reactorInbox' = Append(reactorInbox, Event("turn.started", asked))
  /\ UNCHANGED <<workspace, refs, thread, lastTurn, filesAfter, ingesting, reactor,
                 counters>>

(* An edit, and perhaps turn.diff.updated, which only the ingestion hears. *)
Edit ==
  /\ MayAct /\ running # None
  /\ \E n \in 1..MaxEdits :
       /\ <<running, n>> \notin made /\ \A m \in 1..n - 1 : <<running, m>> \in made
       /\ made' = made \cup {<<running, n>>} /\ files' = files \cup {<<running, n>>}
  /\ \E reported \in {FALSE, Notices = "anyTime"} :
       ingestInbox' = IF reported
                      THEN Append(ingestInbox, Event("turn.diff.updated", running))
                      ELSE ingestInbox
  /\ UNCHANGED <<refs, thread, provider, ingesting, reactorInbox, reactor, counters>>

EndTurn ==
  /\ MayAct /\ running # None
  /\ \E outcome \in Outcomes :
       /\ reactorInbox' = Append(reactorInbox, Completed(running, outcome))
       /\ ingestInbox' =
            ingestInbox
              \o (IF Notices = "atEnd" THEN <<Event("turn.diff.updated", running)>> ELSE <<>>)
              \o <<Completed(running, outcome)>>
  /\ filesAfter' = [filesAfter EXCEPT ![running] = files] /\ running' = None
  /\ UNCHANGED <<workspace, refs, thread, conversation, asked, lastTurn, ingesting, reactor,
                 counters>>

(* The web client offers a revert unless the thread shows a running turn.  *)
AskRevert ==
  /\ Settled /\ ~hurried /\ reverts < MaxReverts
  /\ thread.session.status # "running" /\ asked = None
  /\ \E n \in Counts :
       reactorInbox' = Append(reactorInbox,
                              [type |-> "thread.checkpoint-revert-requested", count |-> n])
  /\ reverts' = reverts + 1
  /\ UNCHANGED <<workspace, refs, thread, provider, ingestion, reactor, hurried,
                 torn, failures>>

-----------------------------------------------------------------------------
(* A command is dispatched: its event is projected and published.          *)
Checkpoint(turn, count, status, ref) ==
  [turn |-> turn, count |-> count, status |-> status, ref |-> ref]
CompleteDiff(checkpoint) ==
  /\ thread' = ThreadAfter(thread, [type |-> "thread.turn-diff-completed", arg |-> checkpoint])
  /\ reactorInbox' = Append(reactorInbox,
       [type |-> "thread.turn-diff-completed", turn |-> checkpoint.turn,
        count |-> checkpoint.count, status |-> checkpoint.status])

Highest(checkpoints) == Max({k.count : k \in checkpoints} \cup {0})
IsCaptured(checkpoints, turn) ==
  \E k \in checkpoints : k.turn = turn /\ k.status # "missing"

-----------------------------------------------------------------------------
(* The ingestion reads the thread once per event ...                       *)
IngestTake ==
  /\ ingesting = Idle /\ ingestInbox # <<>>
  /\ ingesting' = [step |-> "dispatch", event |-> Head(ingestInbox), seen |-> thread]
  /\ ingestInbox' = Tail(ingestInbox)
  /\ UNCHANGED <<workspace, refs, thread, provider, reactorInbox, reactor, counters>>

(* Only the active turn changes the session.                               *)
Conflicts == ingesting.seen.session.turn \notin {None, ingesting.event.turn}

Tracked == \E k \in ingesting.seen.checkpoints : k.turn = ingesting.event.turn

(* Fault: the count of a placeholder is that of the last checkpoint.       *)
PlaceholderCountOfLast == Highest(ingesting.seen.checkpoints)

PlaceholderCount == Highest(ingesting.seen.checkpoints) + 1

SetSessionTo(status, turn) ==
  /\ thread' = ThreadAfter(thread, [type |-> "thread.session-set",
                                    arg |-> [status |-> status, turn |-> turn]])
  /\ UNCHANGED reactorInbox

(* ... and dispatches what follows from what it read.                      *)
IngestDispatch ==
  LET e == ingesting.event IN
  /\ ingesting.step = "dispatch"
  /\ \/ e.type = "turn.started" /\ ~Conflicts /\ SetSessionTo("running", e.turn)
     \/ /\ e.type = "turn.completed" /\ ~Conflicts
        /\ SetSessionTo(IF e.outcome = "failed" THEN "error" ELSE "ready", None)
     \/ /\ e.type = "turn.diff.updated" /\ ~Tracked
        /\ CompleteDiff(Checkpoint(e.turn, PlaceholderCount, "missing", None))
  /\ ingesting' = Idle
  /\ UNCHANGED <<workspace, refs, provider, ingestInbox, reactor, counters>>

IngestIgnore ==
  /\ ingesting.step = "dispatch"
  /\ IF ingesting.event.type = "turn.diff.updated" THEN Tracked ELSE Conflicts
  /\ ingesting' = Idle
  /\ UNCHANGED <<workspace, refs, thread, provider, ingestInbox, reactorInbox, reactor,
                 counters>>

-----------------------------------------------------------------------------
(* The reactor takes an event, reads the thread and decides what to do.    *)
Take(step) == reactor = Idle /\ reactorInbox # <<>> /\ reactor' = step
              /\ reactorInbox' = Tail(reactorInbox)
              /\ UNCHANGED <<workspace, refs, thread, provider, ingestion, counters>>

(* ensurePreTurnBaseline...                                                *)
TakeTurnStart ==
  /\ reactorInbox # <<>>
  /\ Head(reactorInbox).type \in {"thread.turn-start-requested", "turn.started"}
  /\ Take([step |-> "baseline", count |-> Highest(thread.checkpoints)])

(* An active turn keeps others from being captured, and what has been      *)
(* captured is not captured again.                                         *)
CapturesCompletion(turn) ==
  thread.session.turn \in {None, turn} /\ ~IsCaptured(thread.checkpoints, turn)

(* Fault: a placeholder counts as one more turn.                           *)
CompletionCountAfterAll(turn) == Highest(thread.checkpoints) + 1

CompletionCount(turn) ==
  LET placeholders == {k \in thread.checkpoints : k.turn = turn /\ k.status = "missing"}
  IN  IF placeholders = {} THEN Highest(thread.checkpoints) + 1
      ELSE (CHOOSE k \in placeholders : TRUE).count

StatusFromRuntime(outcome) ==
  CASE outcome = "failed" -> "error" [] outcome = "interrupted" -> "missing"
    [] OTHER -> "ready"

Capture(turn, count, status) ==
  [step |-> "capture", turn |-> turn, count |-> count, status |-> status]

(* captureCheckpointFromTurnCompletion.                                    *)
TakeCompletion ==
  /\ reactorInbox # <<>> /\ Head(reactorInbox).type = "turn.completed"
  /\ LET e == Head(reactorInbox) IN
       Take(IF CapturesCompletion(e.turn)
            THEN Capture(e.turn, CompletionCount(e.turn), StatusFromRuntime(e.outcome))
            ELSE Idle)

(* captureCheckpointFromPlaceholder.                                       *)
TakePlaceholder ==
  /\ reactorInbox # <<>> /\ Head(reactorInbox).type = "thread.turn-diff-completed"
  /\ LET e == Head(reactorInbox) IN
       Take(IF e.status = "missing" /\ ~IsCaptured(thread.checkpoints, e.turn)
            THEN Capture(e.turn, e.count, "ready") ELSE Idle)

(* The refs of the turns a revert discards; a placeholder has none.        *)
(* Fault: the refs are kept.                                               *)
StaleRefsNone(checkpoints, count) == {}

StaleRefs(checkpoints, count) ==
  {k.ref : k \in {c \in checkpoints : c.count > count}} \ {None}

(* handleRevertRequested, up to the first git command.                     *)
TakeRevert ==
  /\ reactorInbox # <<>> /\ Head(reactorInbox).type = "thread.checkpoint-revert-requested"
  /\ LET n == Head(reactorInbox).count
         current == Highest(thread.checkpoints)
         targets == {k \in thread.checkpoints : k.count = n /\ k.ref # None}
     IN  Take(IF n <= current /\ (n = 0 \/ targets # {})
              THEN [step |-> "restore", count |-> n, current |-> current,
                    stale |-> StaleRefs(thread.checkpoints, n)]
              ELSE Idle)

-----------------------------------------------------------------------------
(* A baseline is captured unless its ref exists.  Fault: it always is.     *)
CaptureBaselineAlways ==
  /\ reactor.step = "baseline" /\ reactor' = Idle
  /\ refs' = [refs EXCEPT ![reactor.count] = files]
  /\ UNCHANGED <<workspace, thread, provider, ingestion, reactorInbox, counters>>

CaptureBaseline ==
  /\ reactor.step = "baseline" /\ reactor' = Idle
  /\ refs' = IF refs[reactor.count] = None
             THEN [refs EXCEPT ![reactor.count] = files] ELSE refs
  /\ UNCHANGED <<workspace, thread, provider, ingestion, reactorInbox, counters>>

(* captureAndDispatchCheckpoint: the ref is written, whether or not there  *)
(* is one, then reported.                                                  *)
CaptureTurn ==
  /\ reactor.step = "capture" /\ reactor' = [reactor EXCEPT !.step = "report"]
  /\ refs' = [refs EXCEPT ![reactor.count] = files]
  /\ UNCHANGED <<workspace, thread, provider, ingestion, reactorInbox, counters>>

ReportCapture ==
  /\ reactor.step = "report" /\ reactor' = Idle
  /\ CompleteDiff(Checkpoint(reactor.turn, reactor.count, reactor.status, reactor.count))
  /\ UNCHANGED <<workspace, refs, provider, ingestion, counters>>

-----------------------------------------------------------------------------
(* restoreCheckpoint: a missing baseline is replaced by HEAD, any other    *)
(* missing ref ends the revert.                                            *)
RestoreFiles ==
  /\ reactor.step = "restore"
  /\ \/ /\ refs[reactor.count] # None \/ reactor.count = 0
        /\ files' = IF refs[reactor.count] = None THEN {} ELSE refs[reactor.count]
        /\ reactor' = [reactor EXCEPT !.step = "rollback"]
     \/ refs[reactor.count] = None /\ reactor.count > 0 /\ files' = files /\ reactor' = Idle
  /\ UNCHANGED <<made, refs, thread, provider, ingestion, reactorInbox, counters>>

(* Fault: one turn is rolled back, however many are reverted.              *)
RolledBackOne == 1
RolledBack == reactor.current - reactor.count

RollBackConversation ==
  /\ reactor.step = "rollback" /\ reactor' = [reactor EXCEPT !.step = "delete"]
  /\ conversation' = SubSeq(conversation, 1, Len(conversation) - RolledBack)
  /\ UNCHANGED <<workspace, refs, thread, running, asked, lastTurn, filesAfter, ingestion,
                 reactorInbox, counters>>

(* deleteCheckpointRefs, one git command per ref.                          *)
DeleteRef ==
  /\ reactor.step \in {"delete", "deleting"}
  /\ \E n \in reactor.stale :
       /\ refs' = [refs EXCEPT ![n] = None]
       /\ reactor' = [reactor EXCEPT !.stale = @ \ {n}, !.step = "deleting"]
  /\ UNCHANGED <<workspace, thread, provider, ingestion, reactorInbox, counters>>

CompleteRevert ==
  /\ reactor.step \in {"delete", "deleting"} /\ reactor.stale = {} /\ reactor' = Idle
  /\ thread' = ThreadAfter(thread, [type |-> "thread.reverted",
                                    arg |-> [turnCount |-> reactor.count]])
  /\ UNCHANGED <<workspace, refs, provider, ingestion, reactorInbox, counters>>

(* A git command, the provider or the engine fails: the handler ends with  *)
(* an activity and the worker goes on with the next event.                 *)
FailReactor ==
  /\ reactor # Idle /\ MayFail
  /\ failures' = failures + 1 /\ reactor' = Idle
  /\ torn' = (torn \/ reactor.step = "deleting")
  /\ UNCHANGED <<workspace, refs, thread, provider, ingestion, reactorInbox, hurried,
                 reverts>>

FailIngestion ==
  /\ ingesting # Idle /\ MayFail
  /\ failures' = failures + 1 /\ ingesting' = Idle
  /\ UNCHANGED <<workspace, refs, thread, provider, ingestInbox, reactorInbox, reactor,
                 hurried, torn, reverts>>

Outside == AskTurn \/ StartTurn \/ Edit \/ EndTurn \/ AskRevert
Workers == \/ IngestTake \/ IngestDispatch \/ IngestIgnore
           \/ TakeTurnStart \/ TakeCompletion \/ TakePlaceholder \/ TakeRevert
           \/ CaptureBaseline \/ CaptureTurn \/ ReportCapture
           \/ RestoreFiles \/ RollBackConversation \/ DeleteRef \/ CompleteRevert

(* Only when both workers rest may nothing happen any more.                *)
Next == \/ Outside \/ Workers \/ FailReactor \/ FailIngestion
        \/ Settled /\ UNCHANGED vars

Spec == Init /\ [][Next]_vars

-----------------------------------------------------------------------------
(* Every variable has its type: turn counts never exceed the turns asked   *)
(* for, however placeholders, captures and reverts mix.                    *)
TypeOK ==
  /\ files \subseteq Edits /\ made \subseteq Edits /\ torn \in BOOLEAN
  /\ refs \in [Counts -> (SUBSET Edits) \cup {None}]
  /\ filesAfter \in [Turns -> (SUBSET Edits) \cup {None}]
  /\ thread.checkpoints \subseteq
       [turn: Turns, count: Counts \ {0}, status: {"ready", "missing", "error"},
        ref: Counts \cup {None}]
  /\ running \in Turns \cup {None} /\ asked \in Turns \cup {None} /\ lastTurn \in 0..MaxTurns
  /\ conversation \in Seq(Turns)
  /\ reactor.step \in {"idle", "baseline", "capture", "report", "restore", "rollback",
                       "delete", "deleting"}
  /\ ingesting.step \in {"idle", "dispatch"}

Captured == {k \in thread.checkpoints : k.status # "missing"}

(* No two turns share a turn count, which names a git ref and is unique    *)
(* in the turns table.  When the user waits, the two workers that count    *)
(* turns never count alike, however their steps, reverts and failures mix. *)
DistinctCounts ==
  ~hurried =>
    \A j, k \in thread.checkpoints : j.count = k.count => j.turn = k.turn

(* The ref of a captured turn is the workspace as it was when that turn    *)
(* ended, whatever was captured, reverted or failed before and since,      *)
(* unless a revert failed after it had deleted refs, or nobody waited.     *)
CaptureIsTurnEnd ==
  ~hurried /\ reactor = Idle /\ ~torn => \A k \in Captured : refs[k.count] = filesAfter[k.turn]

(* A captured checkpoint stays captured, under its count, until a revert   *)
(* discards it: no placeholder from a thread read too early replaces it.   *)
CapturedStays ==
  [][reactor.step \notin {"delete", "deleting"} =>
       \A k \in Captured : \E c \in Captured' : c.turn = k.turn /\ c.count = k.count]_vars

(* When all is quiet, nothing failed and the user waited for the workers,  *)
(* the turns the provider remembers are the captured ones in the order of  *)
(* their counts: a revert, which counts in checkpoints, rolls back as many *)
(* turns as it discards.                                                   *)
CheckpointsMatchConversation ==
  ~hurried /\ Settled /\ running = None /\ asked = None /\ failures = 0 =>
    /\ Len(conversation) = Cardinality(thread.checkpoints)
    /\ \A i \in DOMAIN conversation :
         \E k \in Captured : k.turn = conversation[i] /\ k.count = i

(* A revert that is reported has left the workspace as it was at the end   *)
(* of the turn it goes back to, and no ref of a captured turn it discards. *)
RevertRestores ==
  [][(reactor.step \in {"delete", "deleting"} /\ thread' # thread /\ ~torn /\ ~hurried) =>
       /\ \A k \in thread'.checkpoints : k.count = reactor.count => files = filesAfter[k.turn]
       /\ \A k \in thread.checkpoints \ thread'.checkpoints :
            k.ref # None => refs[k.count] = None]_vars
=============================================================================
