------------------------ MODULE OrchestrationProjector ------------------------
(***************************************************************************)
(* The in-memory projector (orchestration/projector.ts): how one stored    *)
(* event changes the read model that the command decider looks at.         *)
(*                                                                         *)
(* A read model holds one record per project and per thread.  Entities     *)
(* that were never created are present with exists = FALSE, so that the    *)
(* "not found" branch of every handler is a guard on a field.  Titles,     *)
(* timestamps, models, file lists and the per-thread caps on retained      *)
(* messages, plans, checkpoints and activities are left out; a message     *)
(* text is the number of chunks it was built from.                         *)
(***************************************************************************)
EXTENDS Naturals, Sequences, FiniteSets, SequencesExt

CONSTANTS Projects,   \* project ids
          Threads,    \* thread ids
          None        \* null

ProjectRecord == [exists: BOOLEAN, deleted: BOOLEAN]

AbsentProject == [exists |-> FALSE, deleted |-> FALSE]

(* What thread.created puts in the model, whatever was there before.       *)
NewThread(project) ==
  [exists |-> TRUE, project |-> project, archived |-> FALSE, deleted |-> FALSE,
   session |-> [status |-> "none", turn |-> None],
   latestTurn |-> [turn |-> None, state |-> "none"],
   messages |-> <<>>, plans |-> {}, checkpoints |-> {}, activities |-> {}]

AbsentThread == [NewThread(None) EXCEPT !.exists = FALSE]

EmptyReadModel ==
  [projects |-> [p \in Projects |-> AbsentProject],
   threads  |-> [t \in Threads |-> AbsentThread]]

-----------------------------------------------------------------------------
(* thread.message-sent: an upsert by message id.  A streaming chunk is     *)
(* appended, a final text replaces what was streamed, and a final empty    *)
(* text keeps it.                                                          *)
UpsertMessage(messages, m) ==
  LET merged(old) ==
        [old EXCEPT !.text = IF m.streaming THEN old.text + m.text
                             ELSE IF m.text > 0 THEN m.text ELSE old.text,
                    !.streaming = m.streaming,
                    !.turn = m.turn]
  IN  IF \E i \in DOMAIN messages : messages[i].id = m.id
      THEN [i \in DOMAIN messages |->
              IF messages[i].id = m.id THEN merged(messages[i]) ELSE messages[i]]
      ELSE Append(messages, m)

(* An upsert into a collection that the code keeps sorted: a set here.     *)
UpsertById(entries, entry) == {x \in entries : x.id # entry.id} \cup {entry}

CheckpointTurnState(status) ==
  CASE status = "error" -> "error"
    [] status = "missing" -> "interrupted"
    [] OTHER -> "completed"

(* Fault: a placeholder replaces whatever the turn has.                    *)
CompleteTurnDiffAlways(thread, c) ==
  [thread EXCEPT
     !.checkpoints = {k \in @ : k.turn # c.turn} \cup {c},
     !.latestTurn = [turn |-> c.turn, state |-> CheckpointTurnState(c.status)]]

(* thread.turn-diff-completed: a placeholder never replaces a checkpoint   *)
(* that was really captured, and then nothing else changes either.         *)
CompleteTurnDiff(thread, c) ==
  IF \E k \in thread.checkpoints :
        k.turn = c.turn /\ k.status # "missing" /\ c.status = "missing"
  THEN thread
  ELSE [thread EXCEPT
          !.checkpoints = {k \in @ : k.turn # c.turn} \cup {c},
          !.latestTurn = [turn |-> c.turn, state |-> CheckpointTurnState(c.status)]]

(* Those of a list that meet a condition, in their order: filter, or       *)
(* SELECT ... WHERE.                                                       *)
Where(rows, Meets(_)) ==
  FoldLeft(LAMBDA found, row : IF Meets(row) THEN Append(found, row) ELSE found, <<>>, rows)

(* The messages that survive a revert to turnCount turns: system messages, *)
(* those of the retained turns, those named by their id, and, when a role  *)
(* has fewer than turnCount of these, its oldest messages without a turn.  *)
RetainMessages(messages, retained, ids, turnCount) ==
  LET kept == {i \in DOMAIN messages :
                 \/ messages[i].role = "system"
                 \/ messages[i].turn \in retained
                 \/ messages[i].id \in ids}
      ofRole(role) == {i \in kept : messages[i].role = role}
      spare(role) == {i \in DOMAIN messages \ kept :
                        messages[i].role = role /\ messages[i].turn = None}
      fallback(role) ==
        {i \in spare(role) :
           Cardinality({j \in spare(role) : j < i}) + Cardinality(ofRole(role)) < turnCount}
      retainedIds == {messages[i].id : i \in kept \cup fallback("user") \cup fallback("assistant")}
  IN  Where(messages, LAMBDA m : m.id \in retainedIds)

(* thread.reverted.                                                        *)
Revert(thread, turnCount) ==
  LET checkpoints == {k \in thread.checkpoints : k.count <= turnCount}
      retained    == {k.turn : k \in checkpoints}
      isLast(k)   == \A j \in checkpoints : j.count <= k.count
      survives(x) == x.turn = None \/ x.turn \in retained
      lastTurn    == IF checkpoints = {} THEN [turn |-> None, state |-> "none"]
                     ELSE LET k == CHOOSE c \in checkpoints : isLast(c)
                          IN  [turn |-> k.turn, state |-> CheckpointTurnState(k.status)]
  IN  [thread EXCEPT !.checkpoints = checkpoints,
                     !.messages    = RetainMessages(@, retained, {}, turnCount),
                     !.plans       = {x \in @ : survives(x)},
                     !.activities  = {x \in @ : survives(x)},
                     !.latestTurn  = lastTurn]

(* thread.session-set: a running session makes its active turn the latest. *)
SetSession(thread, s) ==
  [thread EXCEPT
     !.session = s,
     !.latestTurn = IF s.status = "running" /\ s.turn # None
                    THEN [turn |-> s.turn, state |-> "running"] ELSE @]

-----------------------------------------------------------------------------
(* The thread record after an event of its stream.  Every handler but      *)
(* thread.created leaves a thread that is not in the model alone, and the  *)
(* event types that only ask a reactor for something change no field.      *)
ThreadAfter(thread, e) ==
  IF e.type = "thread.created" THEN NewThread(e.arg)
  ELSE IF ~thread.exists THEN thread
  ELSE CASE e.type = "thread.deleted" -> [thread EXCEPT !.deleted = TRUE]
         [] e.type = "thread.archived" -> [thread EXCEPT !.archived = TRUE]
         [] e.type = "thread.unarchived" -> [thread EXCEPT !.archived = FALSE]
         [] e.type = "thread.message-sent" ->
              [thread EXCEPT !.messages = UpsertMessage(@, e.arg)]
         [] e.type = "thread.session-set" -> SetSession(thread, e.arg)
         [] e.type = "thread.proposed-plan-upserted" ->
              [thread EXCEPT !.plans = UpsertById(@, e.arg)]
         [] e.type = "thread.turn-diff-completed" -> CompleteTurnDiff(thread, e.arg)
         [] e.type = "thread.reverted" -> Revert(thread, e.arg.turnCount)
         [] e.type = "thread.activity-appended" ->
              [thread EXCEPT !.activities = UpsertById(@, e.arg)]
         [] OTHER -> thread

ProjectAfter(project, e) ==
  CASE e.type = "project.created" -> [exists |-> TRUE, deleted |-> FALSE]
    [] e.type = "project.deleted" -> [project EXCEPT !.deleted = project.exists]
    [] OTHER -> project

(* projectEvent; the caller keeps snapshotSequence.                        *)
ProjectEvent(model, e) ==
  IF e.stream \in Projects
  THEN [model EXCEPT !.projects[e.stream] = ProjectAfter(@, e)]
  ELSE [model EXCEPT !.threads[e.stream] = ThreadAfter(@, e)]
=============================================================================
