------------------------- MODULE OrchestrationDecider -------------------------
(***************************************************************************)
(* The command decider (orchestration/decider.ts, commandInvariants.ts):   *)
(* which commands a read model admits, and the events each one plans.      *)
(*                                                                         *)
(* A command is a record [id, type, stream, arg, source]: stream is the    *)
(* project or thread it addresses, arg what its events carry, source the   *)
(* thread a fork copies or the plan a turn implements, None otherwise.     *)
(* A planned event is a record [stream, type, arg].                        *)
(***************************************************************************)
EXTENDS OrchestrationProjector

(* Commands that plan one event about an existing thread, whatever its     *)
(* state: note that a deleted or archived thread still qualifies.          *)
ThreadEventOf ==
  [type \in {"thread.delete", "thread.meta.update", "thread.runtime-mode.set",
             "thread.interaction-mode.set", "thread.turn.interrupt",
             "thread.approval.respond", "thread.user-input.respond",
             "thread.checkpoint.revert", "thread.session.stop", "thread.session.set",
             "thread.message.assistant.delta", "thread.message.assistant.complete",
             "thread.proposed-plan.upsert", "thread.turn.diff.complete",
             "thread.revert.complete", "thread.activity.append"} |->
     CASE type = "thread.delete" -> "thread.deleted"
       [] type = "thread.meta.update" -> "thread.meta-updated"
       [] type = "thread.runtime-mode.set" -> "thread.runtime-mode-set"
       [] type = "thread.interaction-mode.set" -> "thread.interaction-mode-set"
       [] type = "thread.turn.interrupt" -> "thread.turn-interrupt-requested"
       [] type = "thread.approval.respond" -> "thread.approval-response-requested"
       [] type = "thread.user-input.respond" -> "thread.user-input-response-requested"
       [] type = "thread.checkpoint.revert" -> "thread.checkpoint-revert-requested"
       [] type = "thread.session.stop" -> "thread.session-stop-requested"
       [] type = "thread.session.set" -> "thread.session-set"
       [] type \in {"thread.message.assistant.delta",
                    "thread.message.assistant.complete"} -> "thread.message-sent"
       [] type = "thread.proposed-plan.upsert" -> "thread.proposed-plan-upserted"
       [] type = "thread.turn.diff.complete" -> "thread.turn-diff-completed"
       [] type = "thread.revert.complete" -> "thread.reverted"
       [] type = "thread.activity.append" -> "thread.activity-appended"]

(* Commands that plan an orchestrator event and an activity beside it.     *)
OrchestratorEventOf ==
  [type \in {"orchestrator.task.create", "orchestrator.task.assign",
             "orchestrator.task.complete", "agent.lane.chunk"} |->
     CASE type = "orchestrator.task.create" -> "orchestrator_task_created"
       [] type = "orchestrator.task.assign" -> "orchestrator_task_assigned"
       [] type = "orchestrator.task.complete" -> "orchestrator_task_completed"
       [] type = "agent.lane.chunk" -> "agent_lane_chunk"]

(* Every type of event a stream can carry.                                 *)
EventTypes ==
  {ThreadEventOf[c] : c \in DOMAIN ThreadEventOf}
    \cup {OrchestratorEventOf[c] : c \in DOMAIN OrchestratorEventOf}
    \cup {"project.created", "project.meta-updated", "project.deleted",
          "thread.created", "thread.deleted", "thread.archived", "thread.unarchived",
          "thread.forked", "thread.message-sent", "thread.turn-start-requested",
          "thread.activity-appended"}

-----------------------------------------------------------------------------
(* Threads of a project that are not deleted: archived ones count.         *)
ActiveThreads(model, project) ==
  {t \in Threads : /\ model.threads[t].exists
                   /\ model.threads[t].project = project
                   /\ ~model.threads[t].deleted}

(* validateChatForkCommand; the unresolved approvals of the source are     *)
(* checked later, against the projection, inside the transaction.          *)
ForkAdmitted(model, cmd) ==
  LET source  == model.threads[cmd.source]
      project == IF cmd.arg = None THEN source.project ELSE cmd.arg
  IN  /\ source.exists
      /\ ~model.threads[cmd.stream].exists
      /\ model.projects[project].exists
      /\ source.session.status \notin {"running", "starting"}
      /\ \A i \in DOMAIN source.messages : ~source.messages[i].streaming

(* thread.turn.start: the plan it implements, if any, is on a thread of    *)
(* the same project.                                                       *)
SourcePlanAdmitted(model, cmd) ==
  cmd.source # None =>
     /\ model.threads[cmd.source.thread].exists
     /\ \E plan \in model.threads[cmd.source.thread].plans : plan.id = cmd.source.plan
     /\ model.threads[cmd.source.thread].project = model.threads[cmd.stream].project

(* The invariants of decideOrchestrationCommand and of the two validators. *)
Admits(model, cmd) ==
  CASE cmd.type = "project.create" -> ~model.projects[cmd.stream].exists
    [] cmd.type = "project.meta.update" -> model.projects[cmd.stream].exists
    [] cmd.type = "project.delete" ->
         /\ model.projects[cmd.stream].exists
         /\ ActiveThreads(model, cmd.stream) = {} \/ cmd.arg # None   \* force
    [] cmd.type = "thread.create" ->
         /\ model.projects[cmd.arg].exists
         /\ ~model.threads[cmd.stream].exists
    [] cmd.type = "thread.archive" ->
         model.threads[cmd.stream].exists /\ ~model.threads[cmd.stream].archived
    [] cmd.type = "thread.unarchive" ->
         model.threads[cmd.stream].exists /\ model.threads[cmd.stream].archived
    [] cmd.type = "thread.turn.start" ->
         model.threads[cmd.stream].exists /\ SourcePlanAdmitted(model, cmd)
    [] cmd.type \in DOMAIN ThreadEventOf \cup DOMAIN OrchestratorEventOf ->
         model.threads[cmd.stream].exists
    [] cmd.type = "chat.fork" -> ForkAdmitted(model, cmd)
    [] cmd.type = "chat.import" ->
         /\ ~model.threads[cmd.stream].exists
         /\ cmd.source # None /\ model.projects[cmd.source].exists
         /\ Len(cmd.arg) > 0
    [] OTHER -> FALSE

-----------------------------------------------------------------------------
Planned(stream, type, arg) == [stream |-> stream, type |-> type, arg |-> arg]

(* A forced project.delete is decided as a sequence of commands: the       *)
(* deletion of every remaining thread, then of the empty project.          *)
PlanProjectDelete(model, project) ==
  LET doomed == SetToSeq(ActiveThreads(model, project))
  IN  [i \in DOMAIN doomed |-> Planned(doomed[i], "thread.deleted", None)]
        \o <<Planned(project, "project.deleted", None)>>

(* The events of an admitted command, chat.fork excepted: a fork copies    *)
(* stored events, which only the event store can do.                       *)
Plan(model, cmd) ==
  CASE cmd.type = "project.create" -> <<Planned(cmd.stream, "project.created", None)>>
    [] cmd.type = "project.meta.update" ->
         <<Planned(cmd.stream, "project.meta-updated", None)>>
    [] cmd.type = "project.delete" -> PlanProjectDelete(model, cmd.stream)
    [] cmd.type = "thread.create" -> <<Planned(cmd.stream, "thread.created", cmd.arg)>>
    [] cmd.type = "thread.archive" -> <<Planned(cmd.stream, "thread.archived", None)>>
    [] cmd.type = "thread.unarchive" -> <<Planned(cmd.stream, "thread.unarchived", None)>>
    [] cmd.type = "thread.turn.start" ->
         <<Planned(cmd.stream, "thread.message-sent", cmd.arg),
           Planned(cmd.stream, "thread.turn-start-requested", cmd.arg.id)>>
    [] cmd.type \in DOMAIN ThreadEventOf ->
         <<Planned(cmd.stream, ThreadEventOf[cmd.type], cmd.arg)>>
    [] cmd.type \in DOMAIN OrchestratorEventOf ->
         <<Planned(cmd.stream, OrchestratorEventOf[cmd.type], None),
           Planned(cmd.stream, "thread.activity-appended", cmd.arg)>>
    [] cmd.type = "chat.import" ->
         <<Planned(cmd.stream, "thread.created", cmd.source)>>
           \o [i \in DOMAIN cmd.arg |-> Planned(cmd.stream, "thread.message-sent", cmd.arg[i])]
    [] OTHER -> <<>>
=============================================================================
