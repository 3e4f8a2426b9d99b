--------------------------- MODULE ProjectionTables ---------------------------
(***************************************************************************)
(* The SQL projection of the event log (orchestration/Layers/              *)
(* ProjectionPipeline.ts and the repositories under persistence/Layers),   *)
(* and the read model a restarted server loads from it                     *)
(* (ProjectionSnapshotQuery.getSnapshot).                                  *)
(*                                                                         *)
(* Nine projectors each own one table.  Messages, plans, activities and    *)
(* approvals are keyed by their own id alone, whatever thread they belong  *)
(* to; turns are keyed by thread and turn.  Timestamps are sequence        *)
(* numbers: the log is the clock.  The columns of a thread that only the   *)
(* user interface shows are left out.                                      *)
(***************************************************************************)
EXTENDS OrchestrationProjector

(* The order in which an event reaches the projectors.                     *)
Projectors == <<"projects", "thread-messages", "thread-proposed-plans",
                "thread-activities", "thread-sessions", "thread-turns",
                "checkpoints", "pending-approvals", "threads">>

RequiredSnapshotProjectors ==
  {"projects", "threads", "thread-messages", "thread-proposed-plans",
   "thread-activities", "thread-sessions", "checkpoints"}

NoSession == [status |-> "none", turn |-> None]
NoPending == [message |-> None, requested |-> 0]

EmptyTables ==
  [projects   |-> [p \in Projects |-> AbsentProject],
   threads    |-> [t \in Threads |-> [exists |-> FALSE, project |-> None, archived |-> FALSE,
                                      deleted |-> FALSE, pendingApprovals |-> 0]],
   messages   |-> <<>>,   \* in order of created_at
   plans      |-> {},
   activities |-> {},
   sessions   |-> [t \in Threads |-> NoSession],
   turns      |-> {},
   pending    |-> [t \in Threads |-> NoPending],   \* the turn row without a turn id
   approvals  |-> {}]

OfThread(rows, t) == {r \in rows : r.thread = t}
Without(row, field) == [f \in DOMAIN row \ {field} |-> row[f]]
WithThread(row, t) == [f \in DOMAIN row \cup {"thread"} |-> IF f = "thread" THEN t ELSE row[f]]

-----------------------------------------------------------------------------
(* thread-messages.  An upsert by message id also moves the row to the     *)
(* thread of the event, and keeps its creation time.                       *)
ApplyMessage(messages, t, m) ==
  LET same == {i \in DOMAIN messages : messages[i].id = m.id}
      text(old) == IF m.streaming THEN old.text + m.text
                   ELSE IF m.text = 0 THEN old.text ELSE m.text
  IN  IF same = {} THEN Append(messages, WithThread(m, t))
      ELSE [i \in DOMAIN messages |->
              IF i \in same THEN WithThread([m EXCEPT !.text = text(messages[i])], t)
              ELSE messages[i]]

(* Fault: the turn a revert goes back to is dropped with the later ones.   *)
KeptTurnsBelow(turns, t, turnCount) ==
  {r \in OfThread(turns, t) : r.count # None /\ r.count < turnCount}

(* The turns a revert keeps are those with a checkpoint it reaches back to *)
KeptTurns(turns, t, turnCount) ==
  {r \in OfThread(turns, t) : r.count # None /\ r.count <= turnCount}

RevertMessages(tables, t, turnCount) ==
  LET turns == KeptTurns(tables.turns, t, turnCount)
      mine  == Where(tables.messages, LAMBDA m : m.thread = t)
      kept  == RetainMessages(mine, {r.turn : r \in turns},
                 {r.pending : r \in turns} \cup {r.assistant : r \in turns}, turnCount)
  IN  Where(tables.messages, LAMBDA m : m.thread # t \/ m \in Range(kept))

(* Fault: a revert drops the rows of every thread.                         *)
RevertRowsOfAll(rows, tables, t, turnCount) ==
  LET kept == {r.turn : r \in KeptTurns(tables.turns, t, turnCount)}
  IN  {r \in rows : r.turn = None \/ r.turn \in kept}

(* thread-proposed-plans and thread-activities.                            *)
RevertRows(rows, tables, t, turnCount) ==
  LET kept == {r.turn : r \in KeptTurns(tables.turns, t, turnCount)}
  IN  {r \in rows : r.thread = t => r.turn = None \/ r.turn \in kept}

-----------------------------------------------------------------------------
(* thread-turns.                                                           *)
NewTurn(t, turn, state, at) ==
  [thread |-> t, turn |-> turn, state |-> state, pending |-> None, assistant |-> None,
   count |-> None, status |-> None, requested |-> at]

TurnRow(turns, t, turn, new) ==
  IF \E r \in turns : r.thread = t /\ r.turn = turn
  THEN CHOOSE r \in turns : r.thread = t /\ r.turn = turn ELSE new
PutTurn(turns, row) ==
  {r \in turns : <<r.thread, r.turn>> # <<row.thread, row.turn>>} \cup {row}

(* A session that starts running takes over the pending turn start, and a  *)
(* turn that has ended stays ended.                                        *)
RunTurn(tables, t, turn, at) ==
  LET pending == tables.pending[t]
      new == NewTurn(t, turn, "running", IF pending = NoPending THEN at ELSE pending.requested)
      row == TurnRow(tables.turns, t, turn, new)
  IN  PutTurn(tables.turns,
        [row EXCEPT !.state   = IF @ \in {"completed", "error"} THEN @ ELSE "running",
                    !.pending = IF @ = None THEN pending.message ELSE @])

AssistantMessageSent(turns, t, m, at) ==
  LET row == TurnRow(turns, t, m.turn, NewTurn(t, m.turn, "running", at))
  IN  PutTurn(turns,
        [row EXCEPT !.assistant = m.id,
                    !.state = IF m.streaming \/ @ \in {"interrupted", "error"} THEN @
                              ELSE "completed"])

InterruptTurn(turns, t, turn, at) ==
  PutTurn(turns, [TurnRow(turns, t, turn, NewTurn(t, turn, "running", at))
                    EXCEPT !.state = "interrupted"])

(* clearCheckpointTurnConflict, then the checkpoint, placeholder or not.   *)
CheckpointTurn(turns, t, c, at) ==
  LET cleared(r) == IF r.thread = t /\ r.count = c.count /\ r.turn # c.turn
                    THEN [r EXCEPT !.count = None, !.status = None] ELSE r
      row == TurnRow(turns, t, c.turn, NewTurn(t, c.turn, "running", at))
  IN  PutTurn({cleared(r) : r \in turns},
        [row EXCEPT !.assistant = c.message,
                    !.state     = IF c.status = "error" THEN "error" ELSE "completed",
                    !.count     = c.count,
                    !.status    = c.status])

ApplyTurns(tables, e) ==
  LET t == e.stream IN
  CASE e.type = "thread.turn-start-requested" ->
         [tables EXCEPT !.pending[t] = [message |-> e.arg, requested |-> e.sequence]]
    [] e.type = "thread.session-set" /\ e.arg.status = "running" /\ e.arg.turn # None ->
         [tables EXCEPT !.turns = RunTurn(tables, t, e.arg.turn, e.sequence),
                        !.pending[t] = NoPending]
    [] e.type = "thread.message-sent" /\ e.arg.role = "assistant" /\ e.arg.turn # None ->
         [tables EXCEPT !.turns = AssistantMessageSent(@, t, e.arg, e.sequence)]
    [] e.type = "thread.turn-interrupt-requested" /\ e.arg # None ->
         [tables EXCEPT !.turns = InterruptTurn(@, t, e.arg, e.sequence)]
    [] e.type = "thread.turn-diff-completed" ->
         [tables EXCEPT !.turns = CheckpointTurn(@, t, e.arg, e.sequence)]
    [] e.type = "thread.reverted" ->
         [tables EXCEPT !.turns = (@ \ OfThread(@, t)) \cup KeptTurns(@, t, e.arg.turnCount),
                        !.pending[t] = NoPending]
    [] OTHER -> tables

-----------------------------------------------------------------------------
(* pending-approvals: a resolved request never becomes pending again, and  *)
(* a resolution keeps the thread of the request it resolves.               *)
PutApproval(approvals, request, t, status) ==
  {r \in approvals : r.request # request}
    \cup {[request |-> request, thread |-> t, status |-> status]}

ResolveApproval(approvals, request, t) ==
  LET known == {r \in approvals : r.request = request}
  IN  PutApproval(approvals, request,
        IF known = {} THEN t ELSE (CHOOSE r \in known : TRUE).thread, "resolved")

ApplyApprovals(approvals, e) ==
  LET known(request) == {r \in approvals : r.request = request} IN
  CASE e.type = "thread.approval-response-requested" ->
         ResolveApproval(approvals, e.arg, e.stream)
    [] e.type = "thread.activity-appended" /\ e.arg.request # None ->
         CASE \/ e.arg.kind = "approval.resolved"
              \/ e.arg.kind = "approval.respond.stale" /\ known(e.arg.request) # {} ->
                ResolveApproval(approvals, e.arg.request, e.stream)
           [] e.arg.kind = "approval.requested"
              /\ \A r \in known(e.arg.request) : r.status = "pending" ->
                PutApproval(approvals, e.arg.request, e.stream, "pending")
           [] OTHER -> approvals
    [] OTHER -> approvals

(* threads: the row, and the count of pending approvals that some events   *)
(* refresh.                                                                *)
RefreshesSummary ==
  {"thread.message-sent", "thread.proposed-plan-upserted", "thread.activity-appended",
   "thread.approval-response-requested", "thread.user-input-response-requested",
   "thread.session-set", "thread.turn-diff-completed", "thread.reverted"}

ApplyThreads(tables, e) ==
  LET row == tables.threads[e.stream] IN
  IF e.type = "thread.created"
  THEN [exists |-> TRUE, project |-> e.arg, archived |-> FALSE, deleted |-> FALSE,
        pendingApprovals |-> 0]
  ELSE IF ~row.exists THEN row
  ELSE CASE e.type = "thread.archived" -> [row EXCEPT !.archived = TRUE]
         [] e.type = "thread.unarchived" -> [row EXCEPT !.archived = FALSE]
         [] e.type = "thread.deleted" -> [row EXCEPT !.deleted = TRUE]
         [] e.type \in RefreshesSummary ->
              [row EXCEPT !.pendingApprovals =
                 Cardinality({r \in OfThread(tables.approvals, e.stream) : r.status = "pending"})]
         [] OTHER -> row

-----------------------------------------------------------------------------
(* runProjectorForEvent, without the cursor that its transaction moves.    *)
ApplyProjector(name, tables, e) ==
  LET t == e.stream
      reverts == e.type = "thread.reverted"
  IN
  IF t \in Projects
  THEN IF name = "projects" THEN [tables EXCEPT !.projects[t] = ProjectAfter(@, e)] ELSE tables
  ELSE
  CASE name = "thread-messages" /\ e.type = "thread.message-sent" ->
         [tables EXCEPT !.messages = ApplyMessage(@, t, e.arg)]
    [] name = "thread-messages" /\ reverts ->
         [tables EXCEPT !.messages = RevertMessages(tables, t, e.arg.turnCount)]
    [] name = "thread-proposed-plans" /\ e.type = "thread.proposed-plan-upserted" ->
         [tables EXCEPT !.plans = UpsertById(@, WithThread(e.arg, t))]
    [] name = "thread-proposed-plans" /\ reverts ->
         [tables EXCEPT !.plans = RevertRows(@, tables, t, e.arg.turnCount)]
    [] name = "thread-activities" /\ e.type = "thread.activity-appended" ->
         [tables EXCEPT !.activities = UpsertById(@, WithThread(e.arg, t))]
    [] name = "thread-activities" /\ reverts ->
         [tables EXCEPT !.activities = RevertRows(@, tables, t, e.arg.turnCount)]
    [] name = "thread-sessions" /\ e.type = "thread.session-set" ->
         [tables EXCEPT !.sessions[t] = e.arg]
    [] name = "thread-turns" -> ApplyTurns(tables, e)
    [] name = "pending-approvals" ->
         [tables EXCEPT !.approvals = ApplyApprovals(@, e)]
    [] name = "threads" -> [tables EXCEPT !.threads[t] = ApplyThreads(tables, e)]
    [] OTHER -> tables

(* projectEvent: every projector in turn.                                  *)
ApplyEvent(tables, e) ==
  FoldLeft(LAMBDA acc, name : ApplyProjector(name, acc, e), tables, Projectors)

-----------------------------------------------------------------------------
(* getSnapshot: the read model the tables stand for.                       *)
SnapshotThread(tables, t) ==
  LET row      == tables.threads[t]
      turns    == OfThread(tables.turns, t)
      messages == Where(tables.messages, LAMBDA m : m.thread = t)
      plain(rows) == {Without(r, "thread") : r \in rows}
      newest   == CHOOSE r \in turns : \A q \in turns : q.requested <= r.requested
  IN  [exists |-> TRUE, project |-> row.project,
       archived |-> row.archived, deleted |-> row.deleted,
       session |-> tables.sessions[t],
       latestTurn |-> IF turns = {} THEN [turn |-> None, state |-> "none"]
                      ELSE [turn |-> newest.turn, state |-> newest.state],
       messages |-> [i \in DOMAIN messages |-> Without(messages[i], "thread")],
       plans |-> plain(OfThread(tables.plans, t)),
       checkpoints |-> {[turn |-> r.turn, count |-> r.count, status |-> r.status,
                         message |-> r.assistant] : r \in {q \in turns : q.count # None}},
       activities |-> plain(OfThread(tables.activities, t))]

Snapshot(tables) ==
  [projects |-> tables.projects,
   threads  |-> [t \in Threads |->
                   IF tables.threads[t].exists THEN SnapshotThread(tables, t) ELSE AbsentThread]]

(* getThreadShellById(t).hasPendingApprovals: false when t is deleted.     *)
HasPendingApprovals(tables, t) ==
  ~tables.threads[t].deleted /\ tables.threads[t].pendingApprovals > 0
=============================================================================
