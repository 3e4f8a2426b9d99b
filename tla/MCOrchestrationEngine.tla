------------------------- MODULE MCOrchestrationEngine -------------------------
(***************************************************************************)
(* Small instances of the orchestration engine.  The project exists        *)
(* already: the server creates it for its working directory.               *)
(***************************************************************************)
EXTENDS OrchestrationEngine

CONSTANTS p1, t1, t2, t3, c1, c2, c3, c4, m1, m2, m3, u1, u2, l1, a1

Ask(type, stream, arg, source) ==
  [type |-> type, stream |-> stream, arg |-> arg, source |-> source]
Text(id) == [id |-> id, role |-> "user", turn |-> None, streaming |-> FALSE, text |-> 1]

(* Two commands contend for one thread, one of them with two events.       *)
LifecycleRequests ==
  {Ask("thread.create", t1, p1, None), Ask("thread.archive", t1, None, None),
   Ask("thread.turn.start", t1, Text(m1), None)}

Stored(sequence, version, stream, type, arg) ==
  [sequence |-> sequence, version |-> version, stream |-> stream, type |-> type,
   arg |-> arg, cmd |-> None]

ProjectOnly == <<Stored(1, 0, p1, "project.created", None)>>

(* A thread with a message, and a fork of it.  The thread has since been   *)
(* archived; the fork is forked, imported beside, or deleted together with *)
(* its project.                                                            *)
ThreadWithMessage ==
  ProjectOnly \o <<Stored(2, 0, t1, "thread.created", p1),
                   Stored(3, 1, t1, "thread.message-sent", Text(m1))>>
ThreadWithFork ==
  ThreadWithMessage \o <<Stored(4, 0, t2, "thread.created", p1),
                         Stored(5, 1, t2, "thread.message-sent", Text(m1)),
                         Stored(6, 2, t2, "thread.forked", t1),
                         Stored(7, 2, t1, "thread.archived", None)>>
ForkRequests ==
  {Ask("chat.fork", t3, None, t2), Ask("chat.import", t3, <<Text(m2)>>, p1),
   Ask("project.delete", p1, p1, None)}

CaughtUp == [p \in ProjectorSet |-> Len(InitialLog)]

(* Another thread of the project has run a turn.                           *)
TwoThreads ==
  ThreadWithMessage \o
    <<Stored(4, 0, t2, "thread.created", p1),
      Stored(5, 1, t2, "thread.message-sent",
             [id |-> a1, role |-> "assistant", turn |-> u2, streaming |-> FALSE, text |-> 1]),
      Stored(6, 2, t2, "thread.proposed-plan-upserted", [id |-> a1, turn |-> u2])>>

(* The life of a turn, as the provider and the checkpoint reactor tell it. *)
Reply(streaming) ==
  [id |-> m2, role |-> "assistant", turn |-> u1, streaming |-> streaming, text |-> 1]
TurnRequests ==
  {Ask("thread.session.set", t1, [status |-> "running", turn |-> u1], None),
   Ask("thread.session.set", t1, [status |-> "ready", turn |-> None], None),
   Ask("thread.message.assistant.delta", t1, Reply(TRUE), None),
   Ask("thread.message.assistant.complete", t1, Reply(FALSE), None),
   Ask("thread.proposed-plan.upsert", t1, [id |-> l1, turn |-> u1], None),
   Ask("thread.turn.start", t1, Text(m3), [thread |-> t1, plan |-> l1]),
   Ask("thread.turn.diff.complete", t1,
       [turn |-> u1, count |-> 1, status |-> "ready", message |-> m2], None),
   Ask("thread.revert.complete", t1, [turnCount |-> 0], None),
   Ask("thread.revert.complete", t1, [turnCount |-> 1], None)}

(* What the theorems about the read model and the tables are proved from   *)
(* holds of these requests.                                                *)
ASSUME TurnsStayApart ==
  Requests = TurnRequests => OneThreadPerItem /\ ItemShapes /\ TurnsToldApart /\ StartsSettled
ASSUME LifecycleRunsNoTurn ==
  Requests = LifecycleRequests /\ InitialLog = ProjectOnly =>
    OneThreadPerItem /\ ItemShapes /\ NoTurnRuns /\ StartsSettled

(* An approval is asked for, answered, resolved by the provider or found   *)
(* stale, on a thread someone wants to fork.                               *)
Approval(id, kind) ==
  Ask("thread.activity.append", t1, [id |-> id, turn |-> None, kind |-> kind, request |-> a1], None)
ApprovalRequests ==
  {Approval(m1, "approval.requested"), Approval(m2, "approval.resolved"),
   Approval(m3, "other"),
   Approval(l1, "approval.respond.stale"), Ask("thread.approval.respond", t1, a1, None),
   Ask("chat.fork", t2, None, t1), Ask("thread.delete", t1, None, None)}

(* A database from before some projectors existed: a turn that ran and was *)
(* checkpointed, seen by some projectors only.                             *)
ThreadWithTurn ==
  ThreadWithMessage \o
    <<Stored(4, 2, t1, "thread.turn-start-requested", m1),
      Stored(5, 3, t1, "thread.session-set", [status |-> "running", turn |-> u1]),
      Stored(6, 4, t1, "thread.message-sent", Reply(TRUE)),
      Stored(7, 5, t1, "thread.message-sent", [Reply(FALSE) EXCEPT !.text = 0]),
      Stored(8, 6, t1, "thread.turn-diff-completed",
             [turn |-> u1, count |-> 1, status |-> "ready", message |-> m2])>>

SomeProjectorsAreNew ==
  [p \in ProjectorSet |-> IF p \in {"projects", "threads", "thread-sessions"}
                          THEN Len(InitialLog) ELSE IF p = "thread-messages" THEN 6 ELSE 0]

Ids == Permutations(CommandIds)
=============================================================================
