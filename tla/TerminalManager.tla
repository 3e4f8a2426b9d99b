---------------------------- MODULE TerminalManager ----------------------------
(***************************************************************************)
(* The terminals of the server.  Operations on the terminals of a thread   *)
(* hold the lock of the thread and wait inside it: for the history worker  *)
(* and for the shell to be spawned.  Nothing else takes the lock: output   *)
(* and exit callbacks of a shell and the fibers that drain them, the       *)
(* escalation that kills a shell, the poll for subprocesses, and the       *)
(* eviction of inactive sessions, which any of them may bring about.       *)
(*                                                                         *)
(* A session is an object: an operation or a fiber that has it keeps it    *)
(* when the map of sessions no longer does.  Between two points where a    *)
(* fiber can wait (file, spawn, listener, timer) its code runs at once.    *)
(* The history is the processes whose output it holds, in order.           *)
(*                                                                         *)
(* Source: server/src/terminal/Layers/Manager.ts.                          *)
(***************************************************************************)
EXTENDS Naturals, Sequences, FiniteSets

CONSTANTS
  Threads, Terminals,
  ThreadOf,       \* the thread of a terminal
  MaxRetained,    \* inactive sessions that are kept (128 in the code)
  Drains,         \* drain fibers that may run at a time
  None,
  MaxSessions, MaxSpawns, MaxOutputs, MaxOperations, MaxPolls   \* bounds

ASSUME TerminalAssumption ==
  /\ ThreadOf \in [Terminals -> Threads]
  /\ {MaxRetained, MaxSessions, MaxSpawns, MaxOutputs, MaxOperations, MaxPolls} \subseteq Nat
  /\ None \notin Seq(1..MaxSpawns)   \* no history

VARIABLES
  sessionOf,    \* the map of sessions: terminal |-> session, 0 if it has none
  sessions,     \* the session objects made so far
  recency,      \* the sessions by updatedAt, the latest last
  shells,       \* the processes spawned so far
  op,           \* the operation that holds the lock of a thread
  drains,       \* the fibers that drain the events of a process
  toWrite,      \* histories queued in the persist worker, or None
  file,         \* history files
  poll,         \* a process whose subprocesses are being checked, or None
  strays,       \* terminals whose session was evicted under an operation
  outputs, operations, polls   \* bounded counters

counters == <<outputs, operations, polls>>
vars == <<sessionOf, sessions, recency, shells, op, drains, toWrite, file, poll, strays,
          outputs, operations, polls>>

Idle == [step |-> "idle"]
NoDrain == [step |-> "none"]

Init ==
  /\ sessionOf = [t \in Terminals |-> 0] /\ sessions = <<>> /\ recency = <<>>
  /\ shells = <<>> /\ op = [h \in Threads |-> Idle] /\ drains = [d \in Drains |-> NoDrain]
  /\ toWrite = [t \in Terminals |-> None] /\ file = [t \in Terminals |-> <<>>]
  /\ poll = None /\ strays = {}
  /\ outputs = 0 /\ operations = 0 /\ polls = 0

-----------------------------------------------------------------------------
(* Session objects.                                                        *)
NewSession(t, history) ==
  [term |-> t, status |-> "starting", proc |-> 0, history |-> history,
   pending |-> <<>>, draining |-> FALSE, busy |-> 0]
Undrained(s) == [s EXCEPT !.pending = <<>>, !.draining = FALSE]
Stopped(s) == [Undrained(s) EXCEPT !.proc = 0, !.status = "exited", !.busy = 0]
Emptied(s) == [Undrained(s) EXCEPT !.history = <<>>]
Starting(s) == [Undrained(s) EXCEPT !.status = "starting", !.busy = 0]

Latest(o) == Append(SelectSeq(recency, LAMBDA x : x # o), o)

(* evictInactiveSessionsIfNeeded: of the sessions in the map that are not  *)
(* running (starting ones among them) the latest MaxRetained stay.  Fault: *)
(* running ones count and go as well.                                      *)
AnyStatus(s) == TRUE
Inactive(s) == s.status # "running"

Later(order, o) == {order[i] : i \in {j \in DOMAIN order : \E k \in 1..j-1 : order[k] = o}}

Retained(map, all, order) ==
  LET inactive == {o \in {map[t] : t \in Terminals} \ {0} : Inactive(all[o])}
      stays(o) == o \notin inactive \/ Cardinality(inactive \cap Later(order, o)) < MaxRetained
  IN  [t \in Terminals |-> IF map[t] # 0 /\ stays(map[t]) THEN map[t] ELSE 0]

Evict(map, all, order) ==
  /\ sessionOf' = Retained(map, all, order)
  /\ strays' = strays \cup
       {t \in Terminals : /\ map[t] # 0 /\ sessionOf'[t] = 0
                          /\ op'[ThreadOf[t]].step # "idle" /\ op'[ThreadOf[t]].obj = map[t]}

(* The session o becomes s; what follows may evict.                        *)
Becomes(o, s) == sessions' = [sessions EXCEPT ![o] = s] /\ recency' = Latest(o)
Update(o, s) == Becomes(o, s) /\ UNCHANGED <<sessionOf, strays>>
Settle(o, s) == Becomes(o, s) /\ Evict(sessionOf, sessions', recency')

(* stopProcess hands the shell to an escalation.                           *)
KillShell(o) ==
  [p \in DOMAIN shells |->
    IF p = sessions[o].proc THEN [shells[p] EXCEPT !.kill = "term"] ELSE shells[p]]

Stop(o, s) == shells' = KillShell(o) /\ Settle(o, s)

(* A session that is about to be started starts with an empty history.     *)
Replace(o) ==
  IF sessions[o].proc # 0 THEN Stop(o, Emptied(Stopped(sessions[o])))
  ELSE /\ sessions' = [sessions EXCEPT ![o] = Emptied(@)]
       /\ UNCHANGED <<sessionOf, recency, shells, strays>>

(* enqueue of the persist worker: the latest history wins.                 *)
Persist(t, history) == toWrite' = [toWrite EXCEPT ![t] = history]

(* flushPersist.  Fault: what is queued counts as written.                 *)
NeverMind(t) == TRUE
Flushed(t) == toWrite[t] = None

WriteFile(t) ==
  /\ toWrite[t] # None
  /\ file' = [file EXCEPT ![t] = toWrite[t]] /\ toWrite' = [toWrite EXCEPT ![t] = None]
  /\ UNCHANGED <<sessionOf, sessions, recency, shells, op, drains, poll, strays, counters>>

-----------------------------------------------------------------------------
(* Operations: each takes the lock of its thread.                          *)
Locks(t, step, o) ==
  /\ op[ThreadOf[t]] = Idle /\ operations < MaxOperations
  /\ op' = [op EXCEPT ![ThreadOf[t]] = [step |-> step, term |-> t, obj |-> o]]
  /\ operations' = operations + 1
  /\ UNCHANGED <<drains, file, poll, outputs, polls>>

At(h, step) == op[h].step = step
Goes(h, step) == op' = [op EXCEPT ![h] = IF step = "idle" THEN Idle ELSE [@ EXCEPT !.step = step]]

(* open: a terminal without a session reads its history; one whose shell   *)
(* has exited starts afresh; another directory or environment replaces the *)
(* shell; otherwise the client attaches to what there is.                  *)
OpenNew(t) ==
  /\ sessionOf[t] = 0 /\ Locks(t, "read", 0)
  /\ UNCHANGED <<sessionOf, sessions, recency, shells, toWrite, strays>>

OpenAgain(t, elsewhere) ==
  LET o == sessionOf[t] IN
  /\ o # 0
  /\ elsewhere \/ sessions[o].status \in {"exited", "error"}
  /\ Locks(t, "persist", o)
  /\ Persist(t, <<>>) /\ Replace(o)

(* A session is made and put in the map.                                   *)
Make(t, history) ==
  /\ Len(sessions) < MaxSessions
  /\ sessions' = Append(sessions, NewSession(t, history))
  /\ recency' = Append(recency, Len(sessions'))
  /\ Evict([sessionOf EXCEPT ![t] = Len(sessions')], sessions', recency')

ReadHistory(h) ==
  LET t == op[h].term IN
  /\ At(h, "read") /\ Flushed(t)
  /\ op' = [op EXCEPT ![h] = [step |-> "spawn", term |-> t, obj |-> Len(sessions) + 1]]
  /\ Make(t, file[t])
  /\ UNCHANGED <<shells, drains, toWrite, file, poll, counters>>

(* restart: the history is emptied first, and the shell replaced.          *)
Restart(t) ==
  LET o == sessionOf[t] IN
  /\ Locks(t, "persist", IF o = 0 THEN Len(sessions) + 1 ELSE o)
  /\ Persist(t, <<>>)
  /\ IF o = 0 THEN Make(t, <<>>) /\ UNCHANGED shells
     ELSE Replace(o)

Clear(t) ==
  LET o == sessionOf[t] IN
  /\ o # 0 /\ Locks(t, "cleared", o)
  /\ Persist(t, <<>>) /\ Update(o, Emptied(sessions[o])) /\ UNCHANGED shells

Close(t, delete) ==
  LET o == sessionOf[t] IN
  /\ Locks(t, IF delete THEN "delete" ELSE "close", o)
  /\ IF o = 0 THEN UNCHANGED <<sessionOf, sessions, recency, shells, toWrite, strays>>
     ELSE /\ Persist(t, sessions[o].history)
          /\ IF sessions[o].proc # 0 THEN Stop(o, Stopped(sessions[o]))
             ELSE UNCHANGED <<sessionOf, sessions, recency, shells, strays>>

(* The end of the wait for the worker.                                     *)
Persisted(h) ==
  /\ At(h, "persist") /\ Flushed(op[h].term)
  /\ Update(op[h].obj, Starting(sessions[op[h].obj])) /\ Goes(h, "spawn")
  /\ UNCHANGED <<shells, drains, toWrite, file, poll, counters>>

Cleared(h) ==
  /\ At(h, "cleared") /\ Flushed(op[h].term) /\ Goes(h, "idle")
  /\ UNCHANGED <<sessionOf, sessions, recency, shells, drains, toWrite, file, poll, strays,
                 counters>>

Closed(h) ==
  LET t == op[h].term IN
  /\ At(h, "close") \/ At(h, "delete")
  /\ Flushed(t) /\ sessionOf' = [sessionOf EXCEPT ![t] = 0]
  /\ file' = IF At(h, "delete") THEN [file EXCEPT ![t] = <<>>] ELSE file
  /\ Goes(h, "idle")
  /\ UNCHANGED <<sessions, recency, shells, drains, toWrite, poll, strays, counters>>

(* The end of startSession: the shell runs, or none could be spawned.      *)
Spawn(h) ==
  LET o == op[h].obj IN
  /\ At(h, "spawn") /\ Goes(h, "idle")
  /\ \/ /\ Len(shells) < MaxSpawns
        /\ shells' = Append(shells, [of |-> o, live |-> TRUE, kill |-> "no"])
        /\ Update(o, [sessions[o] EXCEPT !.proc = Len(shells'), !.status = "running"])
     \/ Settle(o, [Stopped(sessions[o]) EXCEPT !.status = "error"]) /\ UNCHANGED shells
  /\ UNCHANGED <<drains, toWrite, file, poll, counters>>

-----------------------------------------------------------------------------
(* The callbacks of a shell: enqueueProcessEvent, and a drain fiber if the *)
(* session has none.                                                       *)
Listens(p) ==
  LET s == sessions[shells[p].of] IN s.proc = p /\ s.status = "running"

EnqueueEvent(p, event) ==
  LET o == shells[p].of
      s == [sessions[o] EXCEPT !.pending = Append(@, event), !.draining = TRUE]
  IN  /\ sessions' = [sessions EXCEPT ![o] = s]
      /\ IF sessions[o].draining THEN UNCHANGED drains
         ELSE \E d \in Drains :
                /\ drains[d] = NoDrain
                /\ drains' = [drains EXCEPT ![d] = [step |-> "take", obj |-> o, pid |-> p]]

Emit(p) ==
  /\ shells[p].live /\ Listens(p) /\ outputs < MaxOutputs
  /\ EnqueueEvent(p, "output") /\ outputs' = outputs + 1
  /\ UNCHANGED <<sessionOf, recency, shells, op, toWrite, file, poll, strays, operations, polls>>

Exit(p) ==
  /\ shells[p].live /\ shells' = [shells EXCEPT ![p].live = FALSE]
  /\ IF Listens(p) THEN EnqueueEvent(p, "exit") ELSE UNCHANGED <<sessions, drains>>
  /\ UNCHANGED <<sessionOf, recency, op, toWrite, file, poll, strays, counters>>

(* The grace of an escalation is over: SIGKILL.  Fault: SIGTERM is all.    *)
Spared(p) == [shells EXCEPT ![p].kill = "done"]
Killed(p) == [shells EXCEPT ![p].kill = "done", ![p].live = FALSE]

Kill(p) ==
  /\ shells[p].kill = "term" /\ shells' = Killed(p)
  /\ UNCHANGED <<sessionOf, sessions, recency, op, drains, toWrite, file, poll, strays, counters>>

(* drainProcessEvents: one event at a time, published before the next one; *)
(* a drain whose process is not the session's empties what is pending.     *)
TakeEvent(d) ==
  LET o == drains[d].obj
      s == sessions[o]
      mine == s.proc = drains[d].pid /\ s.status = "running"
      rest == [s EXCEPT !.pending = Tail(@)]
  IN
  /\ drains[d].step = "take"
  /\ \/ /\ ~mine \/ s.pending = <<>>
        /\ sessions' = [sessions EXCEPT ![o] = Undrained(s)]
        /\ drains' = [drains EXCEPT ![d] = NoDrain]
        /\ UNCHANGED <<sessionOf, recency, toWrite, strays>>
     \/ /\ mine /\ s.pending # <<>> /\ Head(s.pending) = "output"
        /\ Update(o, [rest EXCEPT !.history = Append(@, s.proc)])
        /\ Persist(s.term, sessions'[o].history)
        /\ drains' = [drains EXCEPT ![d].step = "output"]
     \/ /\ mine /\ s.pending # <<>> /\ Head(s.pending) = "exit"
        /\ Update(o, Stopped(s))
        /\ drains' = [drains EXCEPT ![d].step = "exit"] /\ UNCHANGED toWrite
  /\ UNCHANGED <<shells, op, file, poll, counters>>

Published(d) ==
  /\ UNCHANGED op
  /\ \/ /\ drains[d].step = "output" /\ drains' = [drains EXCEPT ![d].step = "take"]
        /\ UNCHANGED <<sessionOf, strays>>
     \/ /\ drains[d].step = "exit" /\ drains' = [drains EXCEPT ![d] = NoDrain]
        /\ Evict(sessionOf, sessions, recency)
  /\ UNCHANGED <<sessions, recency, shells, toWrite, file, poll, counters>>

(* pollSubprocessActivity: the answer is about a process, and is kept if   *)
(* the session still has that process.  Fault: if it has one.              *)
AnyProcess(s, p) == s.status = "running"
SameProcess(s, p) == s.status = "running" /\ s.proc = p

Poll(t) ==
  /\ poll = None /\ polls < MaxPolls /\ sessionOf[t] # 0
  /\ sessions[sessionOf[t]].status = "running"
  /\ poll' = [term |-> t, proc |-> sessions[sessionOf[t]].proc] /\ polls' = polls + 1
  /\ UNCHANGED <<sessionOf, sessions, recency, shells, op, drains, toWrite, file, strays,
                 outputs, operations>>

Polled(active) ==
  /\ poll # None /\ poll' = None
  /\ LET o == sessionOf[poll.term]
         busy == IF active THEN poll.proc ELSE 0
     IN
     IF o # 0 /\ SameProcess(sessions[o], poll.proc) /\ sessions[o].busy # busy
     THEN Update(o, [sessions[o] EXCEPT !.busy = busy])
     ELSE UNCHANGED <<sessionOf, sessions, recency, strays>>
  /\ UNCHANGED <<shells, op, drains, toWrite, file, counters>>

-----------------------------------------------------------------------------
Run ==
  \/ \E h \in Threads : ReadHistory(h) \/ Persisted(h) \/ Cleared(h) \/ Closed(h) \/ Spawn(h)
  \/ \E t \in Terminals : WriteFile(t)
  \/ \E d \in Drains : TakeEvent(d) \/ Published(d)
  \/ \E p \in DOMAIN shells : Kill(p)
  \/ \E active \in BOOLEAN : Polled(active)

Next ==
  \/ \E t \in Terminals :
       \/ OpenNew(t) \/ Restart(t) \/ Clear(t) \/ Poll(t)
       \/ \E b \in BOOLEAN : OpenAgain(t, b) \/ Close(t, b)
  \/ \E p \in DOMAIN shells : Emit(p) \/ Exit(p)
  \/ Run

Spec == Init /\ [][Next]_vars
FairSpec == Spec /\ WF_vars(Run)
-----------------------------------------------------------------------------
Histories == Seq(1..MaxSpawns)

(* Every variable has its type.  The subprocess activity a session shows   *)
(* is that of its shell: an answer about an earlier one came too late.     *)
TypeOK ==
  /\ sessionOf \in [Terminals -> 0..Len(sessions)]
  /\ \A o \in DOMAIN sessions :
       sessions[o] \in [term : Terminals, status : {"starting", "running", "exited", "error"},
                        proc : 0..MaxSpawns, history : Histories,
                        pending : Seq({"output", "exit"}), draining : BOOLEAN,
                        busy : {0, sessions[o].proc}]
  /\ \A p \in DOMAIN shells : shells[p] \in [of : DOMAIN sessions, live : BOOLEAN,
                                             kill : {"no", "term", "done"}]
  /\ \A t \in Terminals : toWrite[t] # None => toWrite[t] \in Histories
  /\ file \in [Terminals -> Histories]

(* A shell that lives and is not being killed is the process of its        *)
(* session, and a terminal has one at most: whatever closes, restarts,     *)
(* exits, is evicted and opened again meanwhile, a session that lets go of *)
(* a shell has had it killed.  Only a session that was evicted under an    *)
(* operation may leave the terminal with a second shell.                   *)
Free(p) == shells[p].live /\ shells[p].kill = "no"
TerminalOf(p) == sessions[shells[p].of].term

NoShellForgotten ==
  \A p \in DOMAIN shells : Free(p) =>
    /\ sessions[shells[p].of].proc = p
    /\ \A q \in DOMAIN shells :
         Free(q) /\ TerminalOf(q) = TerminalOf(p) /\ TerminalOf(p) \notin strays => p = q

(* The history of a session is on its way to the file or in it: a session  *)
(* that is evicted and opened again resumes where it was.  (Two sessions   *)
(* of one terminal would overwrite each other's.)                          *)
Saved(t) == IF toWrite[t] = None THEN file[t] ELSE toWrite[t]

HistoryIsSaved ==
  \A t \in Terminals \ strays :
    sessionOf[t] # 0 => Saved(t) = sessions[sessionOf[t]].history

(* Operations give the lock back, what is queued is written, and a shell   *)
(* that was stopped dies even if it ignores SIGTERM.                       *)
TerminalsSettle ==
  <>[] /\ \A h \in Threads : op[h] = Idle
       /\ \A t \in Terminals : Flushed(t)
       /\ \A p \in DOMAIN shells : shells[p].kill # "no" => ~shells[p].live
===============================================================================
