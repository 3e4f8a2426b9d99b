---------------------------- MODULE ProviderCommands ----------------------------
(***************************************************************************)
(* What the server does with the requests of one thread: a worker takes    *)
(* the committed requests in order, makes sure that a provider session     *)
(* runs in the thread's runtime mode, and hands turns, interrupts and      *)
(* stops to it.  A turn is handed by a fiber of its own, so the worker     *)
(* goes on meanwhile; a reaper stops sessions that have been idle.         *)
(*                                                                         *)
(* Three records speak of the session and none is written with another:    *)
(* the adapter's live session (in memory), the binding that recovers it    *)
(* (a row, written by a read and a later write), and the session in the    *)
(* read model, also written by the ingestion of the provider's events from *)
(* an earlier read.  Worker, senders and reaper are fibers: each record of *)
(* "fibers" says what one of them does next and what it has read.          *)
(*                                                                         *)
(* The provider is Claude, the adapter whose turns and sessions are kept   *)
(* in this code.  A change of its model restarts the session as a change   *)
(* of the runtime mode does, and is not told apart from it.  No event is   *)
(* published twice, so the key of a turn start only matters when it cannot *)
(* be stored.  The engine is what it promises: a dispatch is one step.     *)
(*                                                                         *)
(* Sources: orchestration/Layers/ProviderCommandReactor.ts and             *)
(* ProviderRuntimeIngestion.ts, provider/Layers/ProviderService.ts,        *)
(* ProviderSessionDirectory.ts, ProviderSessionReaper.ts, ClaudeAdapter.ts.*)
(***************************************************************************)
EXTENDS Integers, Sequences

CONSTANTS
  Kinds,         \* of requests: subset of {"turn", "mode", "interrupt", "stop"}
  None,
  MaxRequests, MaxFailures, MaxCrashes, MaxSweeps   \* bounds

Turns  == 1..MaxRequests         \* a turn is the number of its request
Worker == 0
Reaper == MaxRequests + 1
Modes  == {"full-access", "approval-required"}

ASSUME RequestAssumption ==
  /\ MaxRequests \in Nat
  /\ None \notin Nat \cup Modes
  /\ None \notin [status : {"running", "stopped"}, cursor : Nat \cup {None},
                  mode : Modes \cup {None}]
  /\ None \notin [conversation : Nat, turn : Nat \cup {None}, mode : Modes]
Other(mode) == CHOOSE m \in Modes : m # mode

VARIABLES
  requests,      \* the requests committed for the thread
  mode,          \* read model: the thread's runtime mode
  session,       \* read model: the thread's session
  binding,       \* row of provider_session_runtime, or None
  live,          \* adapter: the session it runs, or None
  conversations, \* provider: conversations begun so far
  queue,         \* worker: the requests published to it
  fibers,        \* the worker, the reaper and the sender of each turn
  runtime,       \* events of the adapter the ingestion has not taken
  ingesting,     \* the event in its hands with the session it read, or None
  handed,        \* history: turns handed over, with the conversation they went to
  reported,      \* history: turns whose failure the thread shows
  lost,          \* history: turns given up by a crash or an unstored key
  cut,           \* history: turns shown as running when the server crashed
  failures, crashes, sweeps   \* bounded counters

readModel == <<requests, mode>>
provider  == <<live, conversations>>
ingestion == <<runtime, ingesting>>
history   == <<handed, reported, lost, cut>>
limits    == <<failures, crashes, sweeps>>
vars == <<requests, mode, session, binding, live, conversations, queue, fibers, runtime,
          ingesting, handed, reported, lost, cut, failures, crashes, sweeps>>

Idle == [op |-> "idle"]
Fiber(op, turn, step) ==
  [op |-> op, turn |-> turn, step |-> step, seen |-> None, put |-> None, after |-> None]
Session(status, turn, m) == [status |-> status, turn |-> turn, mode |-> m]
Binding(status, cursor, m) == [status |-> status, cursor |-> cursor, mode |-> m]

Init ==
  /\ requests = <<>> /\ mode = "full-access" /\ session = Session("none", None, None)
  /\ binding = None /\ live = None /\ conversations = 0
  /\ queue = <<>> /\ fibers = [f \in Worker..Reaper |-> Idle]
  /\ runtime = <<>> /\ ingesting = None
  /\ handed = {} /\ reported = {} /\ lost = {} /\ cut = {}
  /\ failures = 0 /\ crashes = 0 /\ sweeps = 0

-----------------------------------------------------------------------------
(* The user asks; the event is committed and published to the worker.      *)
Request(kind) ==
  /\ Len(requests) < MaxRequests
  /\ requests' = Append(requests, kind) /\ queue' = Append(queue, Len(requests'))
  /\ mode' = IF kind = "mode" THEN Other(mode) ELSE mode
  /\ UNCHANGED <<session, binding, provider, fibers, ingestion, history, limits>>

(* What a fiber does next.                                                 *)
At(f, step) == fibers[f] # Idle /\ fibers[f].step = step
Go(f, step) == fibers' = [fibers EXCEPT ![f].step = step]
End(f)      == fibers' = [fibers EXCEPT ![f] = Idle]
(* Fault: nobody waits for the sender, and nobody hears of its failure.    *)
FailUnheard(f) == IF fibers[f].op = "turn" THEN Go(f, "recover") ELSE End(f)

(* Only a failed turn is told to the user; other failures are logged.      *)
Fail(f) == IF fibers[f].op \in {"turn", "send"} THEN Go(f, "recover") ELSE End(f)

Breaks == failures < MaxFailures /\ failures' = failures + 1

HasSession(s) == s.status \notin {"none", "stopped"}

-----------------------------------------------------------------------------
(* The worker takes a request and, for a turn, claims its key.             *)
Take(kind) ==
  /\ fibers[Worker] = Idle /\ queue # <<>> /\ requests[Head(queue)] = kind
  /\ queue' = Tail(queue)
  /\ UNCHANGED <<readModel, session, binding, provider, ingestion, handed, reported, cut,
                 crashes, sweeps>>
Do(op, step) == fibers' = [fibers EXCEPT ![Worker] = Fiber(op, Head(queue), step)]

TakeTurn == Take("turn") /\ Do("turn", "ensure") /\ UNCHANGED <<lost, failures>>

(* A turn whose key cannot be stored counts as handled.                    *)
LoseTurn ==
  /\ Take("turn") /\ Breaks
  /\ lost' = lost \cup {Head(queue)} /\ UNCHANGED fibers

(* Without a session, a new mode waits for the next turn and there is      *)
(* nothing to interrupt.                                                   *)
TakeMode ==
  /\ Take("mode") /\ UNCHANGED <<lost, failures>>
  /\ IF HasSession(session) THEN Do("mode", "ensure") ELSE UNCHANGED fibers
TakeInterrupt ==
  /\ Take("interrupt") /\ UNCHANGED <<lost, failures>>
  /\ IF HasSession(session) THEN Do("interrupt", "route") ELSE UNCHANGED fibers

TakeStop ==
  /\ Take("stop") /\ UNCHANGED <<lost, failures>>
  /\ Do("stop", IF HasSession(session) THEN "route" ELSE "unbind")

(* ensureSessionForThread reads the thread, then asks the adapters.        *)
Ensure(f) ==
  /\ At(f, "ensure")
  /\ fibers' = [fibers EXCEPT ![f].step = "find", ![f].seen = session,
                              ![f].put = Binding("running", None, mode)]
  /\ UNCHANGED <<readModel, session, binding, provider, queue, ingestion, history, limits>>

(* The session is ready for the request: a turn gets a fiber of its own.   *)
Prepared(f) ==
  IF fibers[f].op = "turn"
  THEN fibers' = [fibers EXCEPT ![f] = Idle,
                                ![fibers[f].turn] = Fiber("send", fibers[f].turn, "route")]
  ELSE End(f)

Find(f) ==
  /\ At(f, "find")
  /\ IF HasSession(fibers[f].seen) /\ live # None
     THEN IF fibers[f].seen.mode = fibers[f].put.mode
          THEN Prepared(f)
          ELSE fibers' = [fibers EXCEPT ![f].step = "start", ![f].after = "bind",
                                        ![f].put.cursor = live.conversation]
     ELSE fibers' = [fibers EXCEPT ![f].step = "start", ![f].after = "bind"]
  /\ UNCHANGED <<readModel, session, binding, provider, queue, ingestion, history, limits>>

-----------------------------------------------------------------------------
(* Events of the adapter.  Whatever ends a session or begins a turn first  *)
(* ends the turn that is running.                                          *)
Event(type, turn) == [type |-> type, turn |-> turn]
TurnEnds ==
  IF live # None /\ live.turn # None THEN <<Event("turn.completed", live.turn)>> ELSE <<>>
Emit(events) == runtime' = runtime \o events

(* Fault: a session is replaced without ending the turn it runs.           *)
OpenOverTurn(cursor, m) ==
  /\ conversations' = IF cursor = None THEN conversations + 1 ELSE conversations
  /\ live' = [conversation |-> IF cursor = None THEN conversations' ELSE cursor,
              turn |-> None, mode |-> m]
  /\ Emit(<<Event("session.started", None)>>)

(* Fault: every start begins a conversation, and none is counted.          *)
OpenAnew(cursor, m) ==
  /\ live' = [conversation |-> conversations + 1, turn |-> None, mode |-> m]
  /\ UNCHANGED conversations
  /\ Emit(Append(TurnEnds, Event("session.started", None)))

(* The adapter resumes the conversation of a cursor, or begins one.        *)
Open(cursor, m) ==
  /\ IF cursor # None
     THEN live' = [conversation |-> cursor, turn |-> None, mode |-> m]
          /\ UNCHANGED conversations
     ELSE /\ conversations' = conversations + 1
          /\ live' = [conversation |-> conversations', turn |-> None, mode |-> m]
  /\ Emit(Append(TurnEnds, Event("session.started", None)))

(* startSession, for the worker: without a cursor of its own it resumes    *)
(* the conversation of the binding.  It may fail before the old session is *)
(* ended or after.                                                         *)
Cursor(f) ==
  IF fibers[f].put.cursor = None /\ binding # None THEN binding.cursor ELSE fibers[f].put.cursor

Opened(f) ==
  fibers' = [fibers EXCEPT ![f].step = "read", ![f].put.cursor = live'.conversation]

Start(f) ==
  /\ At(f, "start")
  /\ \/ Open(Cursor(f), fibers[f].put.mode) /\ Opened(f) /\ UNCHANGED failures
     \/ Breaks /\ Fail(f) /\ UNCHANGED <<live, conversations, runtime>>
     \/ Breaks /\ Fail(f) /\ live' = None /\ Emit(TurnEnds) /\ UNCHANGED conversations
  /\ UNCHANGED <<readModel, session, binding, queue, ingesting, history, crashes, sweeps>>

(* resolveRoutableSession: a fiber that may recover the session does, the  *)
(* others only mark the binding.                                           *)
Recovers(f) == fibers[f].op \in {"interrupt", "send"}
Arrival(f) ==
  CASE fibers[f].op = "send" -> "deliver" [] fibers[f].op = "interrupt" -> "interrupt"
    [] OTHER -> "halt"
Stopped == Binding("stopped", None, None)

Route(f) ==
  /\ At(f, "route")
  /\ IF binding = None THEN Fail(f)
     ELSE IF live # None THEN Go(f, Arrival(f))
     ELSE IF Recovers(f)
     THEN fibers' = [fibers EXCEPT ![f].step = "recoverSession", ![f].after = Arrival(f),
                       ![f].put = Binding("running", binding.cursor, binding.mode)]
     ELSE fibers' = [fibers EXCEPT ![f].step = "read", ![f].put = Stopped,
                       ![f].after = IF fibers[f].op = "stop" THEN "unbind" ELSE "done"]
  /\ UNCHANGED <<readModel, session, binding, provider, queue, ingestion, history, limits>>

(* recoverSessionForThread adopts a session started in the meantime.       *)
RecoverSession(f) ==
  /\ At(f, "recoverSession")
  /\ \/ /\ live # None
        /\ fibers' = [fibers EXCEPT ![f].step = "read",
                        ![f].put = Binding("running", live.conversation, live.mode)]
        /\ UNCHANGED <<provider, runtime, failures>>
     \/ /\ live = None
        /\ \/ Open(fibers[f].put.cursor, fibers[f].put.mode) /\ Opened(f) /\ UNCHANGED failures
           \/ Breaks /\ Fail(f) /\ UNCHANGED <<provider, runtime>>
  /\ UNCHANGED <<readModel, session, binding, queue, ingesting, history, crashes, sweeps>>

(* The directory's upsert reads the row, then writes it: what the caller   *)
(* leaves out keeps the value that was read.                               *)
Read(f) ==
  /\ At(f, "read")
  /\ fibers' = [fibers EXCEPT ![f].step = "write", ![f].seen = binding]
  /\ UNCHANGED <<readModel, session, binding, provider, queue, ingestion, history, limits>>

(* Fault: an upsert clears the cursor its caller leaves out.               *)
MergedForgetful(put, row) ==
  [put EXCEPT !.mode = IF @ # None THEN @ ELSE IF row = None THEN "full-access" ELSE row.mode]

Merged(put, row) ==
  IF row = None THEN [put EXCEPT !.mode = IF @ = None THEN "full-access" ELSE @]
  ELSE [put EXCEPT !.cursor = IF @ = None THEN row.cursor ELSE @,
                   !.mode = IF @ = None THEN row.mode ELSE @]

Write(f) ==
  /\ At(f, "write")
  /\ \/ /\ binding' = Merged(fibers[f].put, fibers[f].seen) /\ UNCHANGED failures
        /\ IF fibers[f].after = "done" THEN End(f) ELSE Go(f, fibers[f].after)
     \/ Breaks /\ Fail(f) /\ UNCHANGED binding
  /\ UNCHANGED <<readModel, session, provider, queue, ingestion, history, crashes, sweeps>>

(* The started session becomes the thread's session.                       *)
Bind(f) ==
  /\ At(f, "bind")
  /\ session' = Session("ready", None, fibers[f].put.mode)
  /\ Prepared(f)
  /\ UNCHANGED <<readModel, binding, provider, queue, ingestion, history, limits>>

-----------------------------------------------------------------------------
(* The sender hands its turn to whatever session the adapter has.          *)
Deliver(f) ==
  /\ At(f, "deliver")
  /\ \/ /\ live # None
        /\ live' = [live EXCEPT !.turn = f]
        /\ Emit(Append(TurnEnds, Event("turn.started", f)))
        /\ handed' = handed \cup {[turn |-> f, conversation |-> live.conversation]}
        /\ fibers' = [fibers EXCEPT ![f].step = "read", ![f].after = "done",
                                    ![f].put = Binding("running", live.conversation, None)]
        /\ UNCHANGED failures
     \/ live = None /\ Fail(f) /\ UNCHANGED <<live, runtime, handed, failures>>
     \/ live # None /\ Breaks /\ Fail(f) /\ UNCHANGED <<live, runtime, handed>>
  /\ UNCHANGED <<readModel, session, binding, conversations, queue, ingesting, reported, lost,
                 cut, crashes, sweeps>>

(* The provider ends the running turn, if there is one.                    *)
Interrupt(f) ==
  /\ At(f, "interrupt") /\ End(f)
  /\ live' = IF live = None THEN None ELSE [live EXCEPT !.turn = None]
  /\ Emit(TurnEnds)
  /\ UNCHANGED <<readModel, session, binding, conversations, queue, ingesting, history, limits>>

(* stopSession of the adapter, for a stop or the reaper, fails if someone  *)
(* else has stopped the session since.                                     *)
Halt(f) ==
  /\ At(f, "halt")
  /\ IF live = None THEN Fail(f)
     ELSE fibers' = [fibers EXCEPT ![f].step = "read", ![f].put = Stopped,
                       ![f].after = IF fibers[f].op = "stop" THEN "unbind" ELSE "done"]
  /\ live' = None
  /\ Emit(IF live = None THEN <<>> ELSE Append(TurnEnds, Event("session.exited", None)))
  /\ UNCHANGED <<readModel, session, binding, conversations, queue, ingesting, history, limits>>

Unbind(f) ==
  /\ At(f, "unbind") /\ End(f)
  /\ session' = Session("stopped", None, session.mode)
  /\ UNCHANGED <<readModel, binding, provider, queue, ingestion, history, limits>>

(* A failed turn: the session is read, and written back without its turn   *)
(* before the failure is shown in the thread.                              *)
Recover(f) ==
  /\ At(f, "recover")
  /\ fibers' = [fibers EXCEPT ![f].step = "report", ![f].seen = session]
  /\ UNCHANGED <<readModel, session, binding, provider, queue, ingestion, history, limits>>

Report(f) ==
  /\ At(f, "report") /\ End(f)
  /\ LET s == fibers[f].seen
     IN session' = IF s.status = "none" THEN session
                   ELSE Session(IF s.status = "stopped" THEN "stopped" ELSE "ready", None, s.mode)
  /\ reported' = reported \cup {fibers[f].turn}
  /\ UNCHANGED <<readModel, binding, provider, queue, ingestion, handed, lost, cut, limits>>

-----------------------------------------------------------------------------
(* The reaper's sweep reads the read model, then the bindings, and stops a *)
(* session without a turn that has been idle for half an hour: by then     *)
(* everything begun before has come to its end.                            *)
Sweep ==
  /\ fibers[Reaper] = Idle /\ sweeps < MaxSweeps
  /\ sweeps' = sweeps + 1
  /\ fibers' = [fibers EXCEPT ![Reaper] = [Fiber("reap", None, "bindings") EXCEPT !.seen = session]]
  /\ UNCHANGED <<readModel, session, binding, provider, queue, ingestion, history, failures,
                 crashes>>

Settled ==
  queue = <<>> /\ runtime = <<>> /\ ingesting = None
    /\ \A f \in DOMAIN fibers \ {Reaper} : fibers[f] = Idle

Bindings(f) ==
  /\ At(f, "bindings")
  /\ \/ /\ Settled /\ binding # None /\ binding.status # "stopped" /\ fibers[f].seen.turn = None
        /\ Go(f, "route")
     \/ End(f)
  /\ UNCHANGED <<readModel, session, binding, provider, queue, ingestion, history, limits>>

-----------------------------------------------------------------------------
(* The ingestion reads the thread for an event, and dispatches the session *)
(* it concludes from both.  Only the active turn moves the session.        *)
IngestTake ==
  /\ ingesting = None /\ runtime # <<>>
  /\ ingesting' = [event |-> Head(runtime), seen |-> session] /\ runtime' = Tail(runtime)
  /\ UNCHANGED <<readModel, session, binding, provider, queue, fibers, history, limits>>

SessionAfter(s, event) ==
  LET With(status, turn) ==
        Session(status, turn, IF s.mode = None THEN "full-access" ELSE s.mode)
  IN  CASE event.type = "session.exited" -> With("stopped", None)
        [] event.type = "session.started" ->
             With(IF s.turn = None THEN "ready" ELSE "running", s.turn)
        [] event.type = "turn.started" -> With("running", event.turn)
        [] OTHER -> With("ready", None)

Conflicts(s, event) == event.turn # None /\ s.turn \notin {None, event.turn}

IngestApply ==
  /\ ingesting # None /\ ingesting' = None
  /\ session' = IF Conflicts(ingesting.seen, ingesting.event) THEN session
                ELSE SessionAfter(ingesting.seen, ingesting.event)
  /\ UNCHANGED <<readModel, binding, provider, queue, fibers, runtime, history, limits>>

-----------------------------------------------------------------------------
(* The provider ends its turn, or its process ends.                        *)
EndTurn ==
  /\ live # None /\ live.turn # None
  /\ live' = [live EXCEPT !.turn = None] /\ Emit(TurnEnds)
  /\ UNCHANGED <<readModel, session, binding, conversations, queue, fibers, ingesting, history,
                 limits>>

Exit ==
  /\ live # None /\ Breaks
  /\ live' = None /\ Emit(Append(TurnEnds, Event("session.exited", None)))
  /\ UNCHANGED <<readModel, session, binding, conversations, queue, fibers, ingesting, history,
                 crashes, sweeps>>

(* The server dies: what is committed and the rows remain.                 *)
Asked   == {t \in Turns : t <= Len(requests) /\ requests[t] = "turn"}
Answered == {h.turn : h \in handed} \cup reported \cup lost

Crash ==
  /\ crashes < MaxCrashes /\ crashes' = crashes + 1
  /\ lost' = lost \cup (Asked \ Answered) /\ cut' = cut \cup ({session.turn} \ {None})
  /\ live' = None /\ queue' = <<>> /\ fibers' = [f \in Worker..Reaper |-> Idle]
  /\ runtime' = <<>> /\ ingesting' = None
  /\ UNCHANGED <<readModel, session, binding, conversations, handed, reported, failures, sweeps>>

Step(f) ==
  \/ Ensure(f) \/ Find(f) \/ Start(f) \/ Route(f) \/ RecoverSession(f) \/ Read(f) \/ Write(f)
  \/ Bind(f) \/ Deliver(f) \/ Interrupt(f) \/ Halt(f) \/ Unbind(f) \/ Recover(f) \/ Report(f)
  \/ Bindings(f)

Run ==
  \/ TakeTurn \/ TakeMode \/ TakeInterrupt \/ TakeStop
  \/ (\E f \in Worker..Reaper : Step(f))
  \/ IngestTake \/ IngestApply \/ EndTurn

Next ==
  \/ \E kind \in Kinds : Request(kind)
  \/ Run \/ LoseTurn \/ Sweep \/ Exit \/ Crash

Spec == Init /\ [][Next]_vars

(* The server goes on while it has something to do, and the provider ends  *)
(* its turns.  The user asks for nothing more, the reaper's clock may      *)
(* stand still, and nothing has to fail.                                   *)
FairSpec == Spec /\ WF_vars(Run)

-----------------------------------------------------------------------------
SessionType ==
  [status : {"none", "ready", "running", "stopped"}, turn : Turns \cup {None},
   mode : Modes \cup {None}]
Conversations == 1..conversations
BindingType ==
  [status : {"running", "stopped"}, cursor : Conversations \cup {None}, mode : Modes \cup {None}]
Ops == {"turn", "mode", "interrupt", "stop", "send", "reap"}
Steps ==
  {"ensure", "find", "start", "read", "write", "bind", "route", "recoverSession", "deliver",
   "interrupt", "halt", "unbind", "recover", "report", "bindings"}
FiberType ==
  [op : Ops, turn : Turns \cup {None}, step : Steps,
   seen : SessionType \cup BindingType \cup {None}, put : BindingType \cup {None},
   after : Steps \cup {"done", None}]

(* Types of the variables.                                                 *)
TypeOK ==
  /\ requests \in Seq(Kinds) /\ mode \in Modes /\ session \in SessionType
  /\ conversations \in Nat
  /\ binding \in BindingType \cup {None}
  /\ live \in [conversation : Conversations, turn : Turns \cup {None}, mode : Modes] \cup {None}
  /\ queue \in Seq(Turns)
  /\ fibers \in [Worker..Reaper -> FiberType \cup {Idle}]
  /\ handed \subseteq [turn : Turns, conversation : Conversations]
  /\ reported \subseteq Turns /\ lost \subseteq Turns /\ cut \subseteq Turns

(* Every turn the provider was given is in one conversation, and it is the *)
(* one the stored binding leads back to: no stop, restart, recovery or     *)
(* late upsert makes the agent forget what was said.                       *)
ConversationKept ==
  \A h \in handed : binding # None /\ binding.cursor = h.conversation

(* Once the user asks for nothing more, every turn asked for has been      *)
(* handed to the provider or its failure is shown, unless the server       *)
(* crashed or could not store its key first.                               *)
EveryTurnSettled == <>[](Asked \subseteq Answered)

(* And the thread shows no turn as running for ever, through replacements, *)
(* stops and events applied from stale reads, unless the server crashed    *)
(* while it was shown.                                                     *)
ShownTurnEnds == <>[](session.turn \in cut \cup {None})
=============================================================================
