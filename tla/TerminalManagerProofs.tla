------------------------- MODULE TerminalManagerProofs -------------------------
(***************************************************************************)
(* However many terminals, sessions, shells and operations there are: no   *)
(* shell lives on that its session has let go of, and the history of a     *)
(* session is in its file or on the way there.  At the end, the worker     *)
(* that takes histories there.                                             *)
(***************************************************************************)
EXTENDS TerminalManager, KeyedCoalescingWorker, TLAPS

SessionType ==
  [term : Terminals, status : {"starting", "running", "exited", "error"}, proc : 0..MaxSpawns,
   history : Histories, pending : Seq({"output", "exit"}), draining : BOOLEAN,
   busy : 0..MaxSpawns]
ShellType == [of : Nat, live : BOOLEAN, kill : {"no", "term", "done"}]
OpType ==
  [step : {"read", "persist", "spawn", "cleared", "close", "delete"}, term : Terminals, obj : Nat]
DrainType == [step : {"take", "output", "exit"}, obj : Nat, pid : Nat]
PollType == [term : Terminals, proc : 0..MaxSpawns]

Typed ==
  /\ sessions \in Seq(SessionType)
  /\ shells \in Seq(ShellType) /\ Len(shells) <= MaxSpawns
  /\ sessionOf \in [Terminals -> Nat] /\ strays \subseteq Terminals
  /\ op \in [Threads -> OpType \cup {Idle}]
  /\ drains \in [Drains -> DrainType \cup {NoDrain}]
  /\ toWrite \in [Terminals -> Histories \cup {None}] /\ file \in [Terminals -> Histories]
  /\ poll \in PollType \cup {None}

(* A session has a process when it is running, and the activity it shows   *)
(* is that of its process.  If the exit of the process waits to be         *)
(* handled, the process is dead.                                           *)
Sound(s) == (s.proc # 0 <=> s.status = "running") /\ s.busy \in {0, s.proc}
FreeIn(processes, p) == processes[p].live /\ processes[p].kill = "no"
ExitIsDeath(s, processes) ==
  \A i \in DOMAIN s.pending :
    s.pending[i] = "exit" => s.proc # 0 /\ ~FreeIn(processes, s.proc)

(* The session of a terminal is the only one of its sessions with a        *)
(* process, and each process is that of the session it was spawned for.    *)
Current(o) == o = sessionOf[sessions[o].term] \/ sessions[o].term \in strays

SessionsOwn ==
  \A o \in DOMAIN sessions :
    /\ Sound(sessions[o]) /\ ExitIsDeath(sessions[o], shells)
    /\ sessions[o].proc # 0 =>
         /\ sessions[o].proc \in DOMAIN shells /\ shells[sessions[o].proc].of = o
         /\ Current(o)

Mapped ==
  \A t \in Terminals :
    sessionOf[t] # 0 => sessionOf[t] \in DOMAIN sessions /\ sessions[sessionOf[t]].term = t

ShellsOwned ==
  \A p \in DOMAIN shells :
    shells[p].of \in DOMAIN sessions /\ (FreeIn(shells, p) => sessions[shells[p].of].proc = p)

DrainsKnow == \A d \in Drains : drains[d] # NoDrain => drains[d].obj \in DOMAIN sessions

(* The operation that holds the lock of a thread: its session has no       *)
(* process when it spawns one, or when it takes the session out of the     *)
(* map, and meanwhile nobody gives the terminal another session.           *)
Holds(x, h) ==
  /\ ThreadOf[x.term] = h
  /\ x.obj # 0 => x.obj \in DOMAIN sessions /\ sessions[x.obj].term = x.term
  /\ x.step = "read" => sessionOf[x.term] = 0
  /\ x.step \in {"persist", "spawn"} =>
       x.obj # 0 /\ sessions[x.obj].proc = 0 /\ Current(x.obj)
  /\ x.step \in {"close", "delete"} =>
       sessionOf[x.term] \in {0, x.obj} /\ (x.obj # 0 => sessions[x.obj].proc = 0)
  /\ x.step = "cleared" => x.obj # 0

OpsHold == \A h \in Threads : op[h] # Idle => Holds(op[h], h)

Owned == SessionsOwn /\ Mapped /\ ShellsOwned /\ DrainsKnow /\ OpsHold
IInv == Typed /\ Owned

-----------------------------------------------------------------------------
(* What a step may do to a session s, to the shells and to the map.        *)
Keeps(s, new, processes) ==
  /\ new.term = s.term /\ new.proc \in {0, s.proc} /\ Sound(new)
  /\ s.proc # 0 /\ new.proc = 0 => ~FreeIn(processes, s.proc)
  /\ ExitIsDeath(new, processes)

ShellsTamed ==
  /\ DOMAIN shells' = DOMAIN shells
  /\ \A p \in DOMAIN shells :
       shells'[p].of = shells[p].of /\ (FreeIn(shells', p) => FreeIn(shells, p))

LetsGo(t) ==
  \/ sessionOf'[t] = sessionOf[t]
  \/ /\ sessionOf'[t] = 0
     /\ sessionOf[t] # 0 =>
          /\ sessions'[sessionOf[t]].proc = 0
          /\ op'[ThreadOf[t]].step # "idle" /\ op'[ThreadOf[t]].obj = sessionOf[t] => t \in strays'

Tame ==
  /\ DOMAIN sessions' = DOMAIN sessions /\ ShellsTamed /\ strays \subseteq strays'
  /\ \A o \in DOMAIN sessions : Keeps(sessions[o], sessions'[o], shells')
  /\ \A t \in Terminals : LetsGo(t)

(* A tame step keeps the invariant but for the operation it moves.         *)
LEMMA TameKeeps ==
  ASSUME Typed, Typed', Owned, Tame
  PROVE  /\ SessionsOwn' /\ Mapped' /\ ShellsOwned'
         /\ \A h \in Threads : op[h] # Idle /\ op'[h] = op[h] => Holds(op[h], h)'
<1>1. ASSUME NEW o \in DOMAIN sessions
      PROVE  /\ sessions[o] \in SessionType /\ sessions'[o] \in SessionType
             /\ sessions'[o].term = sessions[o].term /\ sessions[o].term \in Terminals
             /\ sessions[o].proc = 0 => sessions'[o].proc = 0
             /\ Sound(sessions'[o]) /\ ExitIsDeath(sessions'[o], shells') /\ o # 0
  <2>1. sessions[o] \in SessionType /\ o # 0
    BY DEF Typed
  <2>2. sessions'[o] \in SessionType
    BY DEF Typed, Tame
  <2>3. Keeps(sessions[o], sessions'[o], shells')
    BY DEF Tame
  <2> QED BY <2>1, <2>2, <2>3 DEF Keeps, SessionType
<1>2. ASSUME NEW o \in DOMAIN sessions, Current(o),
             \/ sessions'[o].proc # 0
             \/ \E h \in Threads : /\ op'[h] = op[h] /\ op[h] \in OpType /\ op[h].obj = o
                                  /\ ThreadOf[sessions[o].term] = h
      PROVE  Current(o)'
  <2> DEFINE t == sessions[o].term
  <2>1. t \in Terminals /\ sessions'[o].term = t /\ o # 0
    BY <1>1
  <2>2. CASE t \in strays
    BY <2>1, <2>2 DEF Tame, Current
  <2>3. CASE sessionOf[t] = o /\ sessionOf'[t] = sessionOf[t]
    BY <2>1, <2>3 DEF Current
  <2>4. CASE sessionOf[t] = o /\ sessionOf'[t] # sessionOf[t]
    <3>1. /\ sessions'[o].proc = 0
          /\ op'[ThreadOf[t]].step # "idle" /\ op'[ThreadOf[t]].obj = o => t \in strays'
      BY <2>1, <2>4 DEF Tame, LetsGo
    <3>2. PICK h \in Threads : /\ op'[h] = op[h] /\ op[h] \in OpType /\ op[h].obj = o
                               /\ ThreadOf[t] = h
      BY <1>2, <3>1
    <3>3. op[h].step # "idle"
      BY <3>2 DEF OpType
    <3> QED BY <2>1, <3>1, <3>2, <3>3 DEF Current
  <2> QED BY <1>2, <2>2, <2>3, <2>4 DEF Current
<1>3. SessionsOwn'
  <2>1. ASSUME NEW o \in DOMAIN sessions, sessions'[o].proc # 0
        PROVE  /\ sessions'[o].proc \in DOMAIN shells' /\ shells'[sessions'[o].proc].of = o
               /\ Current(o)'
    <3>1. sessions[o].proc = sessions'[o].proc
      BY <1>1, <2>1 DEF Tame, Keeps
    <3>2. /\ sessions[o].proc \in DOMAIN shells /\ shells[sessions[o].proc].of = o
          /\ Current(o)
      BY <2>1, <3>1 DEF Owned, SessionsOwn
    <3> QED BY <1>2, <2>1, <3>1, <3>2 DEF Tame, ShellsTamed
  <2> QED BY <1>1, <2>1 DEF SessionsOwn, Tame
<1>4. Mapped'
  BY <1>1 DEF Mapped, Owned, Tame, LetsGo
<1>5. ShellsOwned'
  <2>1. ASSUME NEW p \in DOMAIN shells
        PROVE  /\ shells'[p].of \in DOMAIN sessions'
               /\ FreeIn(shells', p) => sessions'[shells'[p].of].proc = p
    <3>1. /\ shells[p].of \in DOMAIN sessions /\ shells'[p].of = shells[p].of
          /\ FreeIn(shells', p) => sessions[shells[p].of].proc = p
      BY DEF Owned, ShellsOwned, Tame, ShellsTamed
    <3>2. p # 0
      BY DEF Typed
    <3> QED BY <3>1, <3>2 DEF Tame, Keeps
  <2> QED BY <2>1 DEF ShellsOwned, Tame, ShellsTamed
<1>6. ASSUME NEW h \in Threads, op[h] # Idle, op'[h] = op[h]
      PROVE  Holds(op[h], h)'
  <2> DEFINE x == op[h]
  <2>1. x \in OpType /\ op'[h] = x /\ x.term \in Terminals
    BY <1>6 DEF Typed, OpType
  <2>2. Holds(x, h)
    BY <1>6 DEF Owned, OpsHold
  <2>3. x.obj # 0 => /\ x.obj \in DOMAIN sessions' /\ sessions'[x.obj].term = x.term
                     /\ sessions[x.obj].proc = 0 => sessions'[x.obj].proc = 0
    BY <1>1, <2>2 DEF Holds, Tame
  <2>4. x.step \in {"persist", "spawn"} => Current(x.obj)'
    BY <1>2, <2>1, <2>2 DEF Holds
  <2>5. sessionOf'[x.term] \in {sessionOf[x.term], 0}
    BY <2>1 DEF Tame, LetsGo
  <2>6. Holds(x, h)'
    BY <1>6, <2>1, <2>2, <2>3, <2>4, <2>5 DEF Holds
  <2> QED BY <2>6
<1> QED BY <1>3, <1>4, <1>5, <1>6

-----------------------------------------------------------------------------
(* Session objects.                                                        *)
LEMMA Objects ==
  ASSUME NEW s \in SessionType
  PROVE  /\ Stopped(s) \in SessionType /\ Stopped(s).term = s.term /\ Stopped(s).proc = 0
         /\ Stopped(s).status = "exited" /\ Stopped(s).busy = 0 /\ Stopped(s).pending = <<>>
         /\ Emptied(s) \in SessionType /\ Emptied(s).term = s.term /\ Emptied(s).proc = s.proc
         /\ Emptied(s).status = s.status /\ Emptied(s).busy = s.busy
         /\ Emptied(s).pending = <<>>
         /\ Starting(s) \in SessionType /\ Starting(s).term = s.term
         /\ Starting(s).proc = s.proc /\ Starting(s).status = "starting"
         /\ Starting(s).busy = 0 /\ Starting(s).pending = <<>>
         /\ Undrained(s) \in SessionType /\ Undrained(s).term = s.term
         /\ Undrained(s).proc = s.proc /\ Undrained(s).status = s.status
         /\ Undrained(s).busy = s.busy /\ Undrained(s).pending = <<>>
<1>1. 0 \in 0..MaxSpawns
  BY TerminalAssumption
<1>2. <<>> \in Histories /\ <<>> \in Seq({"output", "exit"})
  BY DEF Histories
<1>3. /\ Undrained(s) \in SessionType /\ Undrained(s).term = s.term
      /\ Undrained(s).proc = s.proc /\ Undrained(s).status = s.status
      /\ Undrained(s).busy = s.busy /\ Undrained(s).pending = <<>>
  BY <1>2 DEF Undrained, SessionType
<1> QED BY <1>1, <1>2, <1>3 DEF Stopped, Emptied, Starting, SessionType

LEMMA NothingPending ==
  ASSUME NEW s \in SessionType, s.pending = <<>>, NEW processes
  PROVE  ExitIsDeath(s, processes)
BY DEF ExitIsDeath

LEMMA Same ==
  ASSUME Typed, Owned, ShellsTamed, NEW o \in DOMAIN sessions
  PROVE  Keeps(sessions[o], sessions[o], shells')
<1>1. /\ Sound(sessions[o]) /\ ExitIsDeath(sessions[o], shells)
      /\ sessions[o].proc # 0 => sessions[o].proc \in DOMAIN shells
  BY DEF Owned, SessionsOwn
<1>2. ExitIsDeath(sessions[o], shells')
  BY <1>1 DEF ExitIsDeath, ShellsTamed
<1> QED BY <1>1, <1>2 DEF Keeps

LEMMA OneBecomes ==
  ASSUME Typed, Owned, NEW o \in DOMAIN sessions, NEW s \in SessionType,
         sessions' = [sessions EXCEPT ![o] = s], ShellsTamed,
         Keeps(sessions[o], s, shells')
  PROVE  /\ sessions' \in Seq(SessionType) /\ DOMAIN sessions' = DOMAIN sessions
         /\ \A x \in DOMAIN sessions : Keeps(sessions[x], sessions'[x], shells')
<1>1. sessions \in Seq(SessionType)
  BY DEF Typed
<1>2. sessions' \in Seq(SessionType) /\ DOMAIN sessions' = DOMAIN sessions
  BY <1>1
<1>3. ASSUME NEW x \in DOMAIN sessions PROVE Keeps(sessions[x], sessions'[x], shells')
  <2>1. CASE x = o
    BY <1>1, <2>1
  <2>2. CASE x # o
    <3>1. sessions'[x] = sessions[x]
      BY <1>1, <2>2
    <3> QED BY <3>1, Same
  <2> QED BY <2>1, <2>2
<1> QED BY <1>2, <1>3

(* Eviction takes only sessions out of the map that do not run.            *)
LEMMA Retains ==
  ASSUME NEW map, NEW all, NEW order, NEW t \in Terminals
  PROVE  \/ Retained(map, all, order)[t] = map[t]
         \/ /\ map[t] # 0 /\ Retained(map, all, order)[t] = 0
            /\ all[map[t]].status # "running"
BY DEF Retained, Inactive

LEMMA EvictsTamely ==
  ASSUME Typed, Owned, NEW all, NEW order, Evict(sessionOf, all, order), sessions' = all,
         \A o \in DOMAIN sessions : Sound(all[o])
  PROVE  /\ sessionOf' \in [Terminals -> Nat] /\ strays' \subseteq Terminals
         /\ strays \subseteq strays' /\ \A t \in Terminals : LetsGo(t)
<1>1. /\ sessionOf' = Retained(sessionOf, all, order)
      /\ sessionOf \in [Terminals -> Nat] /\ strays \subseteq Terminals
  BY DEF Evict, Typed
<1>2. ASSUME NEW t \in Terminals
      PROVE  \/ sessionOf'[t] = sessionOf[t]
             \/ /\ sessionOf[t] # 0 /\ sessionOf'[t] = 0
                /\ all[sessionOf[t]].status # "running"
  BY <1>1, Retains
<1>3. sessionOf' \in [Terminals -> Nat]
  <2>1. sessionOf' = [t \in Terminals |-> sessionOf'[t]]
    BY <1>1 DEF Retained
  <2>2. \A t \in Terminals : sessionOf'[t] \in Nat
    BY <1>1, <1>2
  <2> QED BY <2>1, <2>2
<1>4. strays' \subseteq Terminals /\ strays \subseteq strays'
  BY <1>1 DEF Evict
<1>5. ASSUME NEW t \in Terminals PROVE LetsGo(t)
  <2>1. CASE sessionOf'[t] # sessionOf[t]
    <3>1. /\ sessionOf[t] # 0 /\ sessionOf'[t] = 0
          /\ all[sessionOf[t]].status # "running"
      BY <1>2, <2>1
    <3>2. sessionOf[t] \in DOMAIN sessions
      BY <3>1 DEF Owned, Mapped
    <3>3. sessions'[sessionOf[t]].proc = 0
      BY <3>1, <3>2 DEF Sound
    <3>4. op'[ThreadOf[t]].step # "idle" /\ op'[ThreadOf[t]].obj = sessionOf[t] => t \in strays'
      BY <3>1 DEF Evict
    <3> QED BY <3>1, <3>3, <3>4 DEF LetsGo
  <2> QED BY <2>1 DEF LetsGo
<1> QED BY <1>3, <1>4, <1>5

-----------------------------------------------------------------------------
(* The parts of an action.                                                 *)
LEMMA Concludes ==
  ASSUME Typed, Typed', Owned, Tame, DrainsKnow',
         \A h \in Threads : op'[h] = op[h] \/ op'[h] = Idle \/ Holds(op[h], h)'
  PROVE  IInv'
<1>1. /\ SessionsOwn' /\ Mapped' /\ ShellsOwned'
      /\ \A h \in Threads : op[h] # Idle /\ op'[h] = op[h] => Holds(op[h], h)'
  BY TameKeeps
<1>2. OpsHold'
  BY <1>1 DEF OpsHold
<1> QED BY <1>1, <1>2 DEF IInv, Owned

LEMMA DrainsKeepTheirs ==
  ASSUME Owned, drains' = drains, DOMAIN sessions \subseteq DOMAIN sessions'
  PROVE  DrainsKnow'
BY DEF Owned, DrainsKnow

LEMMA ShellsStay ==
  ASSUME UNCHANGED shells PROVE ShellsTamed
BY DEF ShellsTamed

LEMMA MapStays ==
  ASSUME UNCHANGED <<sessionOf, strays>>
  PROVE  strays \subseteq strays' /\ \A t \in Terminals : LetsGo(t)
BY DEF LetsGo

LEMMA NobodyMoves ==
  ASSUME Typed, Owned, UNCHANGED <<sessionOf, sessions, shells, strays>>
  PROVE  Tame
BY ShellsStay, MapStays, Same DEF Tame

LEMMA UpdateIsTame ==
  ASSUME Typed, Owned, NEW o \in DOMAIN sessions, NEW s \in SessionType, Update(o, s),
         ShellsTamed, Keeps(sessions[o], s, shells')
  PROVE  /\ Tame /\ sessions' \in Seq(SessionType) /\ sessions'[o] = s
         /\ UNCHANGED <<sessionOf, strays>>
<1>1. sessions' = [sessions EXCEPT ![o] = s] /\ UNCHANGED <<sessionOf, strays>>
  BY DEF Update, Becomes
<1> QED BY <1>1, OneBecomes, MapStays DEF Tame

LEMMA SettleIsTame ==
  ASSUME Typed, Owned, NEW o \in DOMAIN sessions, NEW s \in SessionType, Settle(o, s),
         ShellsTamed, Keeps(sessions[o], s, shells')
  PROVE  /\ Tame /\ sessions' \in Seq(SessionType) /\ sessions'[o] = s
         /\ sessionOf' \in [Terminals -> Nat] /\ strays' \subseteq Terminals
<1>1. sessions' = [sessions EXCEPT ![o] = s] /\ Evict(sessionOf, sessions', recency')
  BY DEF Settle, Becomes
<1>2. /\ sessions' \in Seq(SessionType) /\ DOMAIN sessions' = DOMAIN sessions
      /\ \A x \in DOMAIN sessions : Keeps(sessions[x], sessions'[x], shells')
  BY <1>1, OneBecomes
<1>3. \A x \in DOMAIN sessions : Sound(sessions'[x])
  BY <1>2 DEF Keeps
<1>4. /\ sessionOf' \in [Terminals -> Nat] /\ strays' \subseteq Terminals
      /\ strays \subseteq strays' /\ \A t \in Terminals : LetsGo(t)
  BY <1>1, <1>3, EvictsTamely
<1> QED BY <1>1, <1>2, <1>4 DEF Tame

LEMMA KillingTames ==
  ASSUME Typed, Owned, NEW o \in DOMAIN sessions, shells' = KillShell(o)
  PROVE  /\ shells' \in Seq(ShellType) /\ Len(shells') = Len(shells) /\ ShellsTamed
         /\ sessions[o].proc # 0 => ~FreeIn(shells', sessions[o].proc)
<1>1. shells \in Seq(ShellType) /\ DOMAIN shells = 1..Len(shells) /\ Len(shells) \in Nat
  BY DEF Typed
<1>2. /\ DOMAIN shells' = DOMAIN shells
      /\ \A p \in DOMAIN shells :
           shells'[p] = IF p = sessions[o].proc THEN [shells[p] EXCEPT !.kill = "term"]
                        ELSE shells[p]
  BY DEF KillShell
<1>3. \A p \in DOMAIN shells : shells[p] \in ShellType
  BY <1>1
<1>4. ASSUME NEW p \in DOMAIN shells
      PROVE  /\ shells'[p] \in ShellType /\ shells'[p].of = shells[p].of
             /\ FreeIn(shells', p) => FreeIn(shells, p)
             /\ p = sessions[o].proc => shells'[p].kill = "term"
  BY <1>2, <1>3 DEF ShellType, FreeIn
<1>5. shells' \in [1..Len(shells) -> ShellType]
  <2>1. shells' = [p \in 1..Len(shells) |-> shells'[p]]
    BY <1>1 DEF KillShell
  <2> QED BY <1>1, <1>4, <2>1
<1>6. shells' \in Seq(ShellType) /\ Len(shells') = Len(shells)
  BY <1>1, <1>5
<1>7. sessions[o].proc # 0 => ~FreeIn(shells', sessions[o].proc)
  BY <1>4 DEF FreeIn, Owned, SessionsOwn
<1> QED BY <1>2, <1>4, <1>6, <1>7 DEF ShellsTamed

(* A session that lets go of its shell has had it killed.                  *)
LEMMA StopIsTame ==
  ASSUME Typed, Owned, NEW o \in DOMAIN sessions, NEW s \in SessionType, Stop(o, s),
         s.proc = 0, s.term = sessions[o].term, s.pending = <<>>, Sound(s)
  PROVE  /\ Tame /\ sessions' \in Seq(SessionType) /\ sessions'[o] = s
         /\ sessionOf' \in [Terminals -> Nat] /\ strays' \subseteq Terminals
         /\ shells' \in Seq(ShellType) /\ Len(shells') = Len(shells)
<1>1. shells' = KillShell(o) /\ Settle(o, s)
  BY DEF Stop
<1>2. /\ shells' \in Seq(ShellType) /\ Len(shells') = Len(shells) /\ ShellsTamed
      /\ sessions[o].proc # 0 => ~FreeIn(shells', sessions[o].proc)
  BY <1>1, KillingTames
<1>3. Keeps(sessions[o], s, shells')
  BY <1>2, NothingPending DEF Keeps
<1> QED BY <1>1, <1>2, <1>3, SettleIsTame

LEMMA ReplaceIsTame ==
  ASSUME Typed, Owned, NEW o \in DOMAIN sessions, Replace(o)
  PROVE  /\ Tame /\ sessions' \in Seq(SessionType) /\ sessions'[o].proc = 0
         /\ sessionOf' \in [Terminals -> Nat] /\ strays' \subseteq Terminals
         /\ shells' \in Seq(ShellType) /\ Len(shells') = Len(shells)
<1>1. sessions[o] \in SessionType /\ Sound(sessions[o])
  BY DEF Typed, Owned, SessionsOwn
<1>2. CASE sessions[o].proc # 0
  <2> DEFINE s == Emptied(Stopped(sessions[o]))
  <2>1. Stop(o, s)
    BY <1>2 DEF Replace
  <2>2. /\ s \in SessionType /\ s.proc = 0 /\ s.term = sessions[o].term /\ s.pending = <<>>
        /\ s.status = "exited" /\ s.busy = 0
    BY <1>1, Objects
  <2>3. Sound(s)
    BY <2>2 DEF Sound
  <2> HIDE DEF s
  <2> QED BY <2>1, <2>2, <2>3, StopIsTame
<1>3. CASE sessions[o].proc = 0
  <2>1. sessions' = [sessions EXCEPT ![o] = Emptied(sessions[o])]
    BY <1>3 DEF Replace
  <2>2. UNCHANGED <<sessionOf, recency, shells, strays>>
    BY <1>3 DEF Replace
  <2> DEFINE s == Emptied(sessions[o])
  <2>3. /\ s \in SessionType /\ s.proc = 0 /\ s.term = sessions[o].term /\ s.pending = <<>>
        /\ s.status = sessions[o].status /\ s.busy = sessions[o].busy
    BY <1>1, <1>3, Objects
  <2>4. Sound(s)
    BY <1>1, <1>3, <2>3 DEF Sound
  <2> HIDE DEF s
  <2>5. Keeps(sessions[o], s, shells')
    BY <1>3, <2>3, <2>4, NothingPending DEF Keeps
  <2>6. /\ sessions' \in Seq(SessionType) /\ DOMAIN sessions' = DOMAIN sessions
        /\ \A x \in DOMAIN sessions : Keeps(sessions[x], sessions'[x], shells')
    BY <2>1, <2>2, <2>3, <2>5, OneBecomes, ShellsStay DEF s
  <2>7. sessions'[o].proc = 0
    BY <1>3, <2>6 DEF Keeps
  <2>8. Tame
    BY <2>2, <2>6, ShellsStay, MapStays DEF Tame
  <2> QED BY <2>2, <2>6, <2>7, <2>8 DEF Typed
<1> QED BY <1>2, <1>3

-----------------------------------------------------------------------------
(* The lock of a thread.                                                   *)
LEMMA Locking ==
  ASSUME Typed, NEW t \in Terminals, NEW o \in Nat,
         NEW step \in {"read", "persist", "cleared", "close", "delete"}, Locks(t, step, o)
  PROVE  /\ ThreadOf[t] \in Threads /\ op[ThreadOf[t]] = Idle
         /\ op' \in [Threads -> OpType \cup {Idle}]
         /\ op'[ThreadOf[t]] = [step |-> step, term |-> t, obj |-> o]
         /\ \A h \in Threads \ {ThreadOf[t]} : op'[h] = op[h]
         /\ UNCHANGED <<drains, file, poll>>
<1>1. ThreadOf[t] \in Threads
  BY TerminalAssumption
<1>2. [step |-> step, term |-> t, obj |-> o] \in OpType
  BY DEF OpType
<1> QED BY <1>1, <1>2 DEF Locks, Typed

LEMMA Going ==
  ASSUME Typed, NEW h \in Threads, op[h] # Idle, NEW step \in {"idle", "spawn"}, Goes(h, step)
  PROVE  /\ op' \in [Threads -> OpType \cup {Idle}] /\ op[h] \in OpType
         /\ op'[h] = IF step = "idle" THEN Idle ELSE [op[h] EXCEPT !.step = step]
         /\ \A g \in Threads \ {h} : op'[g] = op[g]
<1>1. op[h] \in OpType
  BY DEF Typed
<1>2. [op[h] EXCEPT !.step = "spawn"] \in OpType
  BY <1>1 DEF OpType
<1> QED BY <1>1, <1>2 DEF Typed, Goes

LEMMA AtStep ==
  ASSUME Typed, Owned, NEW h \in Threads, NEW step, At(h, step), step # "idle"
  PROVE  op[h] # Idle /\ op[h] \in OpType /\ op[h].step = step /\ Holds(op[h], h)
<1>1. op[h] # Idle
  BY DEF At, Idle
<1> QED BY <1>1 DEF At, Typed, Owned, OpsHold

LEMMA EmptyHistory == <<>> \in Histories
BY DEF Histories

LEMMA Persisting ==
  ASSUME Typed, NEW t, NEW history \in Histories, Persist(t, history)
  PROVE  toWrite' \in [Terminals -> Histories \cup {None}]
BY DEF Typed, Persist

LEMMA SessionOf ==
  ASSUME Typed, Owned, NEW t \in Terminals, sessionOf[t] # 0
  PROVE  /\ sessionOf[t] \in DOMAIN sessions /\ sessionOf[t] \in Nat
         /\ sessions[sessionOf[t]].term = t /\ sessions[sessionOf[t]] \in SessionType
<1>1. sessionOf[t] \in DOMAIN sessions /\ sessions[sessionOf[t]].term = t
  BY DEF Owned, Mapped
<1> QED BY <1>1 DEF Typed

(* After a tame step the session of the map is still that of the terminal, *)
(* or it was evicted under the operation that has it.                      *)
LEMMA StillCurrent ==
  ASSUME Typed, Typed', Tame, NEW t \in Terminals, NEW o \in DOMAIN sessions,
         o = sessionOf[t], sessions[o].term = t,
         op'[ThreadOf[t]].step # "idle", op'[ThreadOf[t]].obj = o
  PROVE  Current(o)'
<1>1. sessions'[o].term = t /\ o # 0
  BY DEF Tame, Keeps, Typed
<1>2. sessionOf'[t] = o \/ t \in strays'
  BY DEF Tame, LetsGo, Typed
<1> QED BY <1>1, <1>2 DEF Current

-----------------------------------------------------------------------------
(* Operations.                                                             *)
LEMMA WriteFileKeeps ==
  ASSUME IInv, NEW t \in Terminals, WriteFile(t) PROVE IInv'
<1>1. Typed' /\ Typed /\ Owned
  BY DEF IInv, Typed, WriteFile
<1>2. Tame
  BY <1>1, NobodyMoves DEF WriteFile
<1>3. DrainsKnow'
  BY <1>1, DrainsKeepTheirs DEF WriteFile
<1> QED BY <1>1, <1>2, <1>3, Concludes DEF WriteFile

LEMMA OpenNewKeeps ==
  ASSUME IInv, NEW t \in Terminals, OpenNew(t) PROVE IInv'
<1>1. Typed /\ Owned /\ Locks(t, "read", 0) /\ sessionOf[t] = 0
  BY DEF IInv, OpenNew
<1>2. UNCHANGED <<sessionOf, sessions, recency, shells, toWrite, strays>>
  BY DEF OpenNew
<1>3. /\ ThreadOf[t] \in Threads /\ op' \in [Threads -> OpType \cup {Idle}]
      /\ op'[ThreadOf[t]] = [step |-> "read", term |-> t, obj |-> 0]
      /\ \A h \in Threads \ {ThreadOf[t]} : op'[h] = op[h]
      /\ UNCHANGED <<drains, file, poll>>
  <2>1. PICK o \in Nat : o = 0
    OBVIOUS
  <2> QED BY <1>1, <2>1, Locking
<1>4. Typed'
  BY <1>1, <1>2, <1>3 DEF Typed
<1>5. Holds(op[ThreadOf[t]], ThreadOf[t])'
  <2>1. /\ op'[ThreadOf[t]].term = t /\ op'[ThreadOf[t]].obj = 0
        /\ op'[ThreadOf[t]].step = "read"
    BY <1>3
  <2> QED BY <1>1, <1>2, <2>1 DEF Holds
<1>6. Tame /\ DrainsKnow'
  BY <1>1, <1>2, <1>3, NobodyMoves, DrainsKeepTheirs
<1> QED BY <1>1, <1>3, <1>4, <1>5, <1>6, Concludes

(* The operation replaces the session of a terminal and waits to spawn.    *)
LEMMA ReplacingKeeps ==
  ASSUME IInv, NEW t \in Terminals, NEW o, o = sessionOf[t], o # 0, Locks(t, "persist", o),
         Persist(t, <<>>), Replace(o)
  PROVE  IInv'
<1>1. Typed /\ Owned /\ o \in DOMAIN sessions /\ o \in Nat /\ sessions[o].term = t
  BY SessionOf DEF IInv
<1>2. /\ ThreadOf[t] \in Threads /\ op' \in [Threads -> OpType \cup {Idle}]
      /\ op'[ThreadOf[t]] = [step |-> "persist", term |-> t, obj |-> o]
      /\ \A h \in Threads \ {ThreadOf[t]} : op'[h] = op[h]
      /\ UNCHANGED <<drains, file, poll>>
  BY <1>1, Locking
<1>3. /\ Tame /\ sessions' \in Seq(SessionType) /\ sessions'[o].proc = 0
      /\ sessionOf' \in [Terminals -> Nat] /\ strays' \subseteq Terminals
      /\ shells' \in Seq(ShellType) /\ Len(shells') = Len(shells)
  BY <1>1, ReplaceIsTame
<1>4. Typed'
  BY <1>1, <1>2, <1>3, EmptyHistory, Persisting DEF Typed
<1>5. Current(o)'
  <2>1. op'[ThreadOf[t]].step # "idle" /\ op'[ThreadOf[t]].obj = o
    BY <1>2
  <2> QED BY <1>1, <1>3, <1>4, <2>1, StillCurrent
<1>6. sessions'[o].term = t /\ DOMAIN sessions' = DOMAIN sessions /\ o # 0
  BY <1>1, <1>3 DEF Tame, Keeps, Typed
<1>7. Holds(op[ThreadOf[t]], ThreadOf[t])'
  <2>1. /\ op'[ThreadOf[t]].term = t /\ op'[ThreadOf[t]].obj = o
        /\ op'[ThreadOf[t]].step = "persist"
    BY <1>2
  <2>2. Current(op[ThreadOf[t]].obj)'
    BY <1>5, <2>1
  <2> QED BY <1>1, <1>3, <1>6, <2>1, <2>2 DEF Holds
<1>8. DrainsKnow'
  BY <1>1, <1>2, <1>6, DrainsKeepTheirs
<1> QED BY <1>1, <1>2, <1>3, <1>4, <1>7, <1>8, Concludes

LEMMA OpenAgainKeeps ==
  ASSUME IInv, NEW t \in Terminals, NEW elsewhere \in BOOLEAN, OpenAgain(t, elsewhere)
  PROVE  IInv'
<1>1. PICK o : o = sessionOf[t]
  OBVIOUS
<1> QED BY <1>1, ReplacingKeeps DEF OpenAgain

(* A session is made for a terminal that has none, by the operation that   *)
(* holds the lock of its thread.                                           *)
LEMMA MakeKeeps ==
  ASSUME IInv, NEW t \in Terminals, NEW history \in Histories, sessionOf[t] = 0,
         Make(t, history), UNCHANGED <<shells, drains, file, poll>>,
         toWrite' \in [Terminals -> Histories \cup {None}],
         op' \in [Threads -> OpType \cup {Idle}],
         op'[ThreadOf[t]].step \in {"persist", "spawn"}, op'[ThreadOf[t]].term = t,
         op'[ThreadOf[t]].obj = Len(sessions) + 1,
         \A h \in Threads \ {ThreadOf[t]} : op'[h] = op[h]
  PROVE  IInv'
<1>1. PICK n : n = Len(sessions) + 1
  OBVIOUS
<1>2. Typed /\ Owned /\ n \in Nat /\ n # 0 /\ sessions \in Seq(SessionType)
  BY <1>1 DEF IInv, Typed
<1>3. PICK s : s = NewSession(t, history)
  OBVIOUS
<1>4. /\ s \in SessionType /\ s.term = t /\ s.proc = 0 /\ s.status = "starting" /\ s.busy = 0
      /\ s.pending = <<>>
  BY <1>3, TerminalAssumption DEF NewSession, SessionType, Histories
<1>5. /\ sessions' \in Seq(SessionType) /\ sessions'[n] = s /\ DOMAIN sessions' = 1..n
      /\ DOMAIN sessions = 1..(n - 1) /\ Len(sessions') = n
      /\ \A x \in DOMAIN sessions : sessions'[x] = sessions[x]
  <2>1. sessions' = Append(sessions, s)
    BY <1>3 DEF Make
  <2> QED BY <1>1, <1>2, <1>4, <2>1
<1>6. PICK map : map = [sessionOf EXCEPT ![t] = n]
  OBVIOUS
<1>7. map \in [Terminals -> Nat] /\ map[t] = n /\ \A u \in Terminals \ {t} : map[u] = sessionOf[u]
  BY <1>2, <1>6 DEF Typed
<1>8. Evict(map, sessions', recency')
  BY <1>5, <1>6 DEF Make
<1>9. \A u \in Terminals : \/ sessionOf'[u] = map[u]
                           \/ /\ map[u] # 0 /\ sessionOf'[u] = 0
                              /\ sessions'[map[u]].status # "running"
  BY <1>8, Retains DEF Evict
<1>10. \A u \in Terminals : map[u] # 0 /\ sessionOf'[u] = 0 /\ op'[ThreadOf[u]].step # "idle"
                              /\ op'[ThreadOf[u]].obj = map[u] => u \in strays'
  BY <1>8 DEF Evict
<1>11. strays \subseteq strays' /\ strays' \subseteq Terminals
  BY <1>2, <1>8 DEF Evict, Typed
<1>12. sessionOf' \in [Terminals -> Nat]
  <2>1. sessionOf' = [u \in Terminals |-> sessionOf'[u]]
    BY <1>8 DEF Evict, Retained
  <2>2. \A u \in Terminals : sessionOf'[u] \in Nat
    BY <1>7, <1>9
  <2> QED BY <2>1, <2>2
<1>13. Typed'
  BY <1>2, <1>5, <1>11, <1>12 DEF Typed
<1>14. \A x \in DOMAIN sessions :
         /\ x \in DOMAIN sessions' /\ x # n /\ x # 0
         /\ sessions[x] \in SessionType /\ sessions[x].term \in Terminals
  <2>1. ASSUME NEW x \in DOMAIN sessions
        PROVE  /\ x \in DOMAIN sessions' /\ x # n /\ x # 0 /\ sessions[x] \in SessionType
    BY <1>2, <1>5
  <2> QED BY <2>1 DEF SessionType
<1>15. Mapped'
  <2>1. ASSUME NEW u \in Terminals, sessionOf'[u] # 0
        PROVE  sessionOf'[u] \in DOMAIN sessions' /\ sessions'[sessionOf'[u]].term = u
    <3>1. sessionOf'[u] = map[u]
      BY <1>9, <2>1
    <3>2. CASE u = t
      BY <1>2, <1>4, <1>5, <1>7, <3>1, <3>2
    <3>3. CASE u # t
      BY <1>2, <1>5, <1>7, <1>14, <2>1, <3>1, <3>3 DEF Owned, Mapped
    <3> QED BY <3>2, <3>3
  <2> QED BY <2>1 DEF Mapped
<1>16. ASSUME NEW x \in DOMAIN sessions, Current(x),
              \/ sessions[x].proc # 0
              \/ \E h \in Threads \ {ThreadOf[t]} :
                   op'[h] \in OpType /\ op'[h].obj = x /\ ThreadOf[sessions[x].term] = h
       PROVE  Current(x)'
  <2>1. PICK u \in Terminals : u = sessions[x].term /\ sessions'[x].term = u
    BY <1>5, <1>14
  <2>2. CASE u \in strays
    BY <1>11, <2>1, <2>2 DEF Current
  <2>3. CASE u \notin strays
    <3>1. sessionOf[u] = x /\ u # t /\ map[u] = x
      BY <1>7, <1>14, <1>16, <2>1, <2>3 DEF Current
    <3>2. CASE sessionOf'[u] = x
      BY <2>1, <3>2 DEF Current
    <3>3. CASE sessionOf'[u] # x
      <4>1. sessionOf'[u] = 0 /\ sessions[x].status # "running" /\ x # 0
        BY <1>5, <1>9, <1>14, <3>1, <3>3
      <4>2. sessions[x].proc = 0
        BY <1>2, <4>1 DEF Owned, SessionsOwn, Sound
      <4>3. op'[ThreadOf[u]] \in OpType /\ op'[ThreadOf[u]].obj = x
        BY <1>16, <2>1, <4>2
      <4>4. op'[ThreadOf[u]].step # "idle"
        BY <4>3 DEF OpType
      <4> QED BY <1>10, <2>1, <3>1, <4>1, <4>3, <4>4 DEF Current
    <3> QED BY <3>2, <3>3
  <2> QED BY <2>2, <2>3
<1>17. SessionsOwn'
  <2>1. ASSUME NEW x \in DOMAIN sessions'
        PROVE  /\ Sound(sessions'[x]) /\ ExitIsDeath(sessions'[x], shells')
               /\ sessions'[x].proc # 0 =>
                    /\ sessions'[x].proc \in DOMAIN shells' /\ shells'[sessions'[x].proc].of = x
                    /\ Current(x)'
    <3>1. CASE x = n
      BY <1>4, <1>5, <3>1, NothingPending DEF Sound
    <3>2. CASE x # n
      <4>1. x \in DOMAIN sessions /\ sessions'[x] = sessions[x]
        BY <1>2, <1>5, <3>2
      <4>2. /\ Sound(sessions[x]) /\ ExitIsDeath(sessions[x], shells)
            /\ sessions[x].proc # 0 =>
                 /\ sessions[x].proc \in DOMAIN shells /\ shells[sessions[x].proc].of = x
                 /\ Current(x)
        BY <1>2, <4>1 DEF Owned, SessionsOwn
      <4> QED BY <1>16, <4>1, <4>2
    <3> QED BY <3>1, <3>2
  <2> QED BY <2>1 DEF SessionsOwn
<1>18. ShellsOwned' /\ DrainsKnow'
  BY <1>2, <1>5, <1>14 DEF Owned, ShellsOwned, DrainsKnow
<1>19. OpsHold'
  <2>1. ASSUME NEW h \in Threads, op'[h] # Idle, h # ThreadOf[t] PROVE Holds(op[h], h)'
    <3>1. op'[h] = op[h] /\ op[h] # Idle
      BY <2>1
    <3>2. Holds(op[h], h) /\ op[h] \in OpType
      BY <1>2, <2>1, <3>1 DEF Owned, OpsHold, Typed
    <3>3. PICK x : x = op[h] /\ x = op'[h]
      BY <3>1
    <3>4. Holds(x, h) /\ x \in OpType /\ x.term \in Terminals
      BY <3>2, <3>3 DEF OpType
    <3>5. x.term # t /\ sessionOf'[x.term] \in {sessionOf[x.term], 0}
      BY <1>7, <1>9, <2>1, <3>4 DEF Holds
    <3>6. x.obj # 0 => /\ x.obj \in DOMAIN sessions /\ x.obj \in DOMAIN sessions'
                       /\ sessions'[x.obj] = sessions[x.obj]
      BY <1>5, <1>14, <3>4 DEF Holds
    <3>7. x.step \in {"persist", "spawn"} => Current(x.obj)'
      BY <1>16, <2>1, <3>3, <3>4, <3>6 DEF Holds
    <3>8. Holds(x, h)'
      BY <3>4, <3>5, <3>6, <3>7 DEF Holds
    <3> QED BY <3>3, <3>8
  <2>2. Holds(op[ThreadOf[t]], ThreadOf[t])'
    <3>1. Current(n)'
      BY <1>2, <1>4, <1>5, <1>7, <1>9, <1>10, <1>1 DEF Current
    <3>2. Current(op[ThreadOf[t]].obj)'
      BY <1>1, <3>1
    <3> QED BY <1>1, <1>2, <1>4, <1>5, <3>2 DEF Holds
  <2> QED BY <2>1, <2>2 DEF OpsHold
<1> QED BY <1>13, <1>15, <1>17, <1>18, <1>19 DEF IInv, Owned

LEMMA ReadHistoryKeeps ==
  ASSUME IInv, NEW h \in Threads, ReadHistory(h) PROVE IInv'
<1>1. Typed /\ Owned /\ At(h, "read")
  BY DEF IInv, ReadHistory
<1>2. PICK t : t = op[h].term
  OBVIOUS
<1>3. op[h] \in OpType /\ Holds(op[h], h) /\ op[h].step = "read"
  BY <1>1, AtStep
<1>4. t \in Terminals /\ ThreadOf[t] = h /\ sessionOf[t] = 0 /\ file[t] \in Histories
  BY <1>1, <1>2, <1>3 DEF Holds, OpType, Typed
<1>5. /\ op' = [op EXCEPT ![h] = [step |-> "spawn", term |-> t, obj |-> Len(sessions) + 1]]
      /\ Make(t, file[t]) /\ UNCHANGED <<shells, drains, toWrite, file, poll>>
  BY <1>2 DEF ReadHistory
<1>6. [step |-> "spawn", term |-> t, obj |-> Len(sessions) + 1] \in OpType
  BY <1>1, <1>4 DEF OpType, Typed
<1>7. /\ op' \in [Threads -> OpType \cup {Idle}] /\ \A g \in Threads \ {h} : op'[g] = op[g]
      /\ op'[h] = [step |-> "spawn", term |-> t, obj |-> Len(sessions) + 1]
      /\ toWrite' \in [Terminals -> Histories \cup {None}]
  BY <1>1, <1>5, <1>6 DEF Typed
<1>8. op'[h].step = "spawn" /\ op'[h].term = t /\ op'[h].obj = Len(sessions) + 1
  BY <1>7
<1> QED BY <1>4, <1>5, <1>7, <1>8, MakeKeeps

LEMMA RestartKeeps ==
  ASSUME IInv, NEW t \in Terminals, Restart(t) PROVE IInv'
<1>1. PICK o : o = sessionOf[t]
  OBVIOUS
<1>2. CASE o # 0
  BY <1>1, <1>2, ReplacingKeeps DEF Restart
<1>3. CASE o = 0
  <2>1. PICK n \in Nat : n = Len(sessions) + 1
    BY DEF IInv, Typed
  <2>2. /\ Locks(t, "persist", n) /\ Persist(t, <<>>) /\ Make(t, <<>>) /\ UNCHANGED shells
        /\ Typed /\ sessionOf[t] = 0
    BY <1>1, <1>3, <2>1 DEF Restart, IInv
  <2>3. /\ ThreadOf[t] \in Threads /\ op' \in [Threads -> OpType \cup {Idle}]
        /\ op'[ThreadOf[t]] = [step |-> "persist", term |-> t, obj |-> n]
        /\ \A h \in Threads \ {ThreadOf[t]} : op'[h] = op[h]
        /\ UNCHANGED <<drains, file, poll>>
    BY <2>2, Locking
  <2>4. /\ op'[ThreadOf[t]].step = "persist" /\ op'[ThreadOf[t]].term = t
        /\ op'[ThreadOf[t]].obj = Len(sessions) + 1
    BY <2>1, <2>3
  <2>5. toWrite' \in [Terminals -> Histories \cup {None}] /\ <<>> \in Histories
    BY <2>2, EmptyHistory, Persisting
  <2> QED BY <2>2, <2>3, <2>4, <2>5, MakeKeeps
<1> QED BY <1>2, <1>3

LEMMA ClearKeeps ==
  ASSUME IInv, NEW t \in Terminals, Clear(t) PROVE IInv'
<1>1. PICK o : o = sessionOf[t]
  OBVIOUS
<1>2. /\ Typed /\ Owned /\ o # 0 /\ Locks(t, "cleared", o) /\ Persist(t, <<>>)
      /\ Update(o, Emptied(sessions[o])) /\ UNCHANGED shells
  BY <1>1 DEF Clear, IInv
<1>3. /\ o \in DOMAIN sessions /\ o \in Nat /\ sessions[o].term = t
      /\ sessions[o] \in SessionType
  BY <1>1, <1>2, SessionOf
<1>4. /\ ThreadOf[t] \in Threads /\ op' \in [Threads -> OpType \cup {Idle}]
      /\ op'[ThreadOf[t]] = [step |-> "cleared", term |-> t, obj |-> o]
      /\ \A h \in Threads \ {ThreadOf[t]} : op'[h] = op[h]
      /\ UNCHANGED <<drains, file, poll>>
  BY <1>2, <1>3, Locking
<1>5. PICK s : s = Emptied(sessions[o])
  OBVIOUS
<1>6. /\ s \in SessionType /\ s.term = t /\ s.proc = sessions[o].proc
      /\ s.status = sessions[o].status /\ s.busy = sessions[o].busy /\ s.pending = <<>>
  BY <1>3, <1>5, Objects
<1>7. Sound(s)
  BY <1>2, <1>3, <1>6 DEF Owned, SessionsOwn, Sound
<1>8. Keeps(sessions[o], s, shells')
  BY <1>3, <1>6, <1>7, NothingPending DEF Keeps
<1>9. /\ Tame /\ sessions' \in Seq(SessionType) /\ sessions'[o] = s
      /\ UNCHANGED <<sessionOf, strays>>
  BY <1>2, <1>3, <1>5, <1>6, <1>8, UpdateIsTame, ShellsStay
<1>10. Typed'
  BY <1>2, <1>4, <1>9, EmptyHistory, Persisting DEF Typed
<1>11. DrainsKnow' /\ o \in DOMAIN sessions'
  BY <1>2, <1>3, <1>4, <1>9, DrainsKeepTheirs DEF Tame
<1>12. Holds(op[ThreadOf[t]], ThreadOf[t])'
  <2>1. /\ op'[ThreadOf[t]].step = "cleared" /\ op'[ThreadOf[t]].term = t
        /\ op'[ThreadOf[t]].obj = o
    BY <1>4
  <2> QED BY <1>2, <1>6, <1>9, <1>11, <2>1 DEF Holds
<1> QED BY <1>2, <1>4, <1>9, <1>10, <1>11, <1>12, Concludes

(* Close stops the shell before it waits for the history worker.           *)
LEMMA CloseKeeps ==
  ASSUME IInv, NEW t \in Terminals, NEW delete \in BOOLEAN, Close(t, delete) PROVE IInv'
<1>1. PICK o : o = sessionOf[t]
  OBVIOUS
<1>2. PICK step \in {"close", "delete"} : step = IF delete THEN "delete" ELSE "close"
  OBVIOUS
<1>3. Typed /\ Owned /\ Locks(t, step, o) /\ o \in Nat
  BY <1>1, <1>2 DEF Close, IInv, Typed
<1>4. /\ ThreadOf[t] \in Threads /\ op' \in [Threads -> OpType \cup {Idle}]
      /\ op'[ThreadOf[t]] = [step |-> step, term |-> t, obj |-> o]
      /\ \A h \in Threads \ {ThreadOf[t]} : op'[h] = op[h]
      /\ UNCHANGED <<drains, file, poll>>
  <2>1. step \in {"read", "persist", "cleared", "close", "delete"}
    BY <1>2
  <2> QED BY ZenonT(30), <1>3, <2>1, Locking
<1>5. /\ op'[ThreadOf[t]].step = step /\ op'[ThreadOf[t]].term = t
      /\ op'[ThreadOf[t]].obj = o
  BY <1>4
<1>6. CASE o = 0
  <2>1. UNCHANGED <<sessionOf, sessions, recency, shells, toWrite, strays>>
    BY <1>1, <1>6 DEF Close
  <2>2. Typed' /\ Tame /\ DrainsKnow'
    <3>1. Typed'
      BY <1>3, <1>4, <2>1 DEF Typed
    <3> QED BY <1>3, <1>4, <2>1, <3>1, NobodyMoves, DrainsKeepTheirs
  <2>3. Holds(op[ThreadOf[t]], ThreadOf[t])'
    BY <1>1, <1>2, <1>5, <1>6, <2>1 DEF Holds
  <2> QED BY <1>3, <1>4, <2>2, <2>3, Concludes
<1>7. CASE o # 0
  <2>1. /\ o \in DOMAIN sessions /\ sessions[o].term = t /\ sessions[o] \in SessionType
        /\ Sound(sessions[o])
    <3>1. o \in DOMAIN sessions /\ sessions[o].term = t /\ sessions[o] \in SessionType
      BY <1>1, <1>3, <1>7, SessionOf
    <3> QED BY <1>3, <3>1 DEF Owned, SessionsOwn
  <2>2. toWrite' \in [Terminals -> Histories \cup {None}]
    <3>1. Persist(t, sessions[o].history)
      BY <1>1, <1>7 DEF Close
    <3>2. sessions[o].history \in Histories
      BY <2>1 DEF SessionType
    <3> QED BY <1>3, <3>1, <3>2, Persisting
  <2>3. /\ Tame /\ sessions' \in Seq(SessionType) /\ sessions'[o].proc = 0
        /\ sessionOf' \in [Terminals -> Nat] /\ strays' \subseteq Terminals
        /\ shells' \in Seq(ShellType) /\ Len(shells') = Len(shells)
    <3>1. CASE sessions[o].proc # 0
      <4>1. PICK s : s = Stopped(sessions[o])
        OBVIOUS
      <4>2. Stop(o, s)
        BY <1>1, <1>7, <3>1, <4>1 DEF Close
      <4>3. /\ s \in SessionType /\ s.proc = 0 /\ s.term = sessions[o].term
            /\ s.status = "exited" /\ s.busy = 0 /\ s.pending = <<>>
        BY <2>1, <4>1, Objects
      <4>4. Sound(s)
        BY <4>3 DEF Sound
      <4> QED BY <1>3, <2>1, <4>2, <4>3, <4>4, StopIsTame
    <3>2. CASE sessions[o].proc = 0
      <4>1. UNCHANGED <<sessionOf, sessions, recency, shells, strays>>
        BY <1>1, <1>7, <3>2 DEF Close
      <4>2. Tame
        BY <1>3, <4>1, NobodyMoves
      <4> QED BY <1>3, <3>2, <4>1, <4>2 DEF Typed
    <3> QED BY <3>1, <3>2
  <2>4. Typed'
    BY <1>3, <1>4, <2>2, <2>3 DEF Typed
  <2>5. /\ o \in DOMAIN sessions' /\ DOMAIN sessions' = DOMAIN sessions
        /\ sessions'[o].term = t /\ sessionOf'[t] \in {o, 0}
    BY <1>1, <2>1, <2>3 DEF Tame, Keeps, LetsGo
  <2>6. Holds(op[ThreadOf[t]], ThreadOf[t])'
    BY <1>2, <1>5, <1>7, <2>3, <2>5 DEF Holds
  <2>7. DrainsKnow'
    BY <1>3, <1>4, <2>5, DrainsKeepTheirs
  <2> QED BY <1>3, <1>4, <2>3, <2>4, <2>6, <2>7, Concludes
<1> QED BY <1>6, <1>7

LEMMA PersistedKeeps ==
  ASSUME IInv, NEW h \in Threads, Persisted(h) PROVE IInv'
<1>1. Typed /\ Owned /\ At(h, "persist") /\ Goes(h, "spawn")
  BY DEF IInv, Persisted
<1>2. PICK x : x = op[h]
  OBVIOUS
<1>3. x # Idle /\ x \in OpType /\ x.step = "persist" /\ Holds(x, h)
  BY <1>1, <1>2, AtStep
<1>4. PICK o : o = x.obj
  OBVIOUS
<1>5. /\ o \in DOMAIN sessions /\ o # 0 /\ sessions[o].term = x.term /\ sessions[o].proc = 0
      /\ Current(o) /\ ThreadOf[x.term] = h /\ sessions[o] \in SessionType
  BY <1>1, <1>3, <1>4 DEF Holds, Typed
<1>6. PICK s : s = Starting(sessions[o])
  OBVIOUS
<1>7. /\ s \in SessionType /\ s.term = sessions[o].term /\ s.proc = 0 /\ s.busy = 0
      /\ s.status = "starting" /\ s.pending = <<>>
  BY <1>5, <1>6, Objects
<1>8. Keeps(sessions[o], s, shells')
  BY <1>5, <1>7, NothingPending DEF Keeps, Sound
<1>9. Update(o, s) /\ UNCHANGED <<shells, drains, toWrite, file, poll>>
  BY <1>2, <1>4, <1>6 DEF Persisted
<1>10. /\ Tame /\ sessions' \in Seq(SessionType) /\ sessions'[o] = s
       /\ UNCHANGED <<sessionOf, strays>>
  BY <1>1, <1>5, <1>7, <1>8, <1>9, UpdateIsTame, ShellsStay
<1>11. /\ op' \in [Threads -> OpType \cup {Idle}] /\ op'[h] = [x EXCEPT !.step = "spawn"]
       /\ \A g \in Threads \ {h} : op'[g] = op[g]
  BY <1>1, <1>2, <1>3, Going
<1>12. Typed'
  BY <1>1, <1>9, <1>10, <1>11 DEF Typed
<1>13. DrainsKnow' /\ o \in DOMAIN sessions'
  BY <1>1, <1>5, <1>9, <1>10, DrainsKeepTheirs DEF Tame
<1>14. Current(o)'
  BY <1>5, <1>7, <1>10 DEF Current
<1>15. Holds(op[h], h)'
  <2>1. op'[h].step = "spawn" /\ op'[h].term = x.term /\ op'[h].obj = o
    BY <1>3, <1>4, <1>11 DEF OpType
  <2>2. Current(op[h].obj)'
    BY <1>14, <2>1
  <2> QED BY <1>5, <1>7, <1>10, <1>13, <2>1, <2>2 DEF Holds
<1> QED BY <1>1, <1>10, <1>11, <1>12, <1>13, <1>15, Concludes

LEMMA ClearedKeeps ==
  ASSUME IInv, NEW h \in Threads, Cleared(h) PROVE IInv'
<1>1. /\ Typed /\ Owned /\ At(h, "cleared") /\ Goes(h, "idle")
      /\ UNCHANGED <<sessionOf, sessions, recency, shells, drains, toWrite, file, poll, strays>>
  BY DEF IInv, Cleared
<1>2. op[h] # Idle
  BY <1>1, AtStep
<1>3. /\ op' \in [Threads -> OpType \cup {Idle}] /\ op'[h] = Idle
      /\ \A g \in Threads \ {h} : op'[g] = op[g]
  BY <1>1, <1>2, Going
<1>4. Typed'
  BY <1>1, <1>3 DEF Typed
<1>5. Tame /\ DrainsKnow'
  BY <1>1, NobodyMoves, DrainsKeepTheirs
<1> QED BY <1>1, <1>3, <1>4, <1>5, Concludes

(* What close takes out of the map has no process any more.                *)
LEMMA ClosedKeeps ==
  ASSUME IInv, NEW h \in Threads, Closed(h) PROVE IInv'
<1>1. PICK t : t = op[h].term
  OBVIOUS
<1>2. /\ Typed /\ Owned /\ (At(h, "close") \/ At(h, "delete"))
      /\ Goes(h, "idle") /\ sessionOf' = [sessionOf EXCEPT ![t] = 0]
      /\ file' \in {[file EXCEPT ![t] = <<>>], file}
      /\ UNCHANGED <<sessions, recency, shells, drains, toWrite, poll, strays>>
  BY <1>1 DEF IInv, Closed
<1>3. PICK x : x = op[h]
  OBVIOUS
<1>4. x # Idle /\ x \in OpType /\ x.step \in {"close", "delete"} /\ Holds(x, h)
  BY <1>2, <1>3, AtStep
<1>5. /\ t \in Terminals /\ ThreadOf[t] = h
      /\ sessionOf[t] # 0 => sessions[sessionOf[t]].proc = 0
  BY <1>1, <1>3, <1>4 DEF Holds, OpType
<1>6. /\ op' \in [Threads -> OpType \cup {Idle}] /\ op'[h] = Idle
      /\ \A g \in Threads \ {h} : op'[g] = op[g]
  BY <1>2, <1>3, <1>4, Going
<1>7. Typed'
  BY <1>2, <1>5, <1>6, EmptyHistory DEF Typed
<1>8. \A u \in Terminals : LetsGo(u)
  BY <1>2, <1>5, <1>6 DEF LetsGo, Idle, Typed
<1>9. Tame
  BY <1>2, <1>8, ShellsStay, Same DEF Tame
<1>10. DrainsKnow'
  BY <1>2, DrainsKeepTheirs
<1> QED BY <1>2, <1>6, <1>7, <1>9, <1>10, Concludes

(* Only a session without a process is given one.                          *)
LEMMA SpawnKeeps ==
  ASSUME IInv, NEW h \in Threads, Spawn(h) PROVE IInv'
<1>1. Typed /\ Owned /\ At(h, "spawn") /\ Goes(h, "idle")
  BY DEF IInv, Spawn
<1>2. PICK x : x = op[h]
  OBVIOUS
<1>3. x # Idle /\ x \in OpType /\ x.step = "spawn" /\ Holds(x, h)
  BY <1>1, <1>2, AtStep
<1>4. PICK o : o = x.obj
  OBVIOUS
<1>5. /\ o \in DOMAIN sessions /\ o # 0 /\ sessions[o].term = x.term /\ sessions[o].proc = 0
      /\ Current(o) /\ ThreadOf[x.term] = h /\ sessions[o] \in SessionType
  BY <1>1, <1>3, <1>4 DEF Holds, Typed
<1>6. /\ op' \in [Threads -> OpType \cup {Idle}] /\ op'[h] = Idle
      /\ \A g \in Threads \ {h} : op'[g] = op[g]
  BY <1>1, <1>2, <1>3, Going
<1>7. UNCHANGED <<drains, toWrite, file, poll>>
  BY DEF Spawn
<1>8. CASE Settle(o, [Stopped(sessions[o]) EXCEPT !.status = "error"]) /\ UNCHANGED shells
  <2>1. PICK s : s = [Stopped(sessions[o]) EXCEPT !.status = "error"]
    OBVIOUS
  <2>2. /\ s \in SessionType /\ s.term = sessions[o].term /\ s.proc = 0 /\ s.busy = 0
        /\ s.status = "error" /\ s.pending = <<>>
    BY <1>5, <2>1, Objects DEF SessionType
  <2>3. Keeps(sessions[o], s, shells')
    BY <1>5, <2>2, NothingPending DEF Keeps, Sound
  <2>4. /\ Tame /\ sessions' \in Seq(SessionType)
        /\ sessionOf' \in [Terminals -> Nat] /\ strays' \subseteq Terminals
    BY <1>1, <1>5, <1>8, <2>1, <2>2, <2>3, SettleIsTame, ShellsStay
  <2>5. Typed'
    BY <1>1, <1>6, <1>7, <1>8, <2>4 DEF Typed
  <2>6. DrainsKnow'
    BY <1>1, <1>7, <2>4, DrainsKeepTheirs DEF Tame
  <2> QED BY <1>1, <1>6, <2>4, <2>5, <2>6, Concludes
<1>9. CASE /\ Len(shells) < MaxSpawns
           /\ shells' = Append(shells, [of |-> o, live |-> TRUE, kill |-> "no"])
           /\ Update(o, [sessions[o] EXCEPT !.proc = Len(shells'), !.status = "running"])
  <2>1. PICK n : n = Len(shells) + 1
    OBVIOUS
  <2>2. /\ shells \in Seq(ShellType) /\ n \in Nat /\ n \in 1..MaxSpawns
        /\ [of |-> o, live |-> TRUE, kill |-> "no"] \in ShellType
        /\ sessions \in Seq(SessionType)
    BY <1>1, <1>5, <1>9, <2>1, TerminalAssumption DEF Typed, ShellType
  <2>3. /\ shells' \in Seq(ShellType) /\ Len(shells') = n /\ DOMAIN shells' = 1..n
        /\ DOMAIN shells = 1..(n - 1) /\ shells'[n].of = o
        /\ \A p \in DOMAIN shells : shells'[p] = shells[p] /\ p # n /\ p # 0
    BY <1>9, <2>1, <2>2
  <2>4. PICK s : s = [sessions[o] EXCEPT !.proc = n, !.status = "running"]
    OBVIOUS
  <2>5. /\ s \in SessionType /\ s.term = sessions[o].term /\ s.proc = n
        /\ s.status = "running" /\ s.busy = sessions[o].busy /\ s.pending = sessions[o].pending
    <3>1. n \in 0..MaxSpawns
      BY <2>2
    <3> QED BY <1>5, <2>4, <3>1 DEF SessionType
  <2>6. /\ sessions' = [sessions EXCEPT ![o] = s] /\ UNCHANGED <<sessionOf, strays>>
    BY <1>9, <2>3, <2>4 DEF Update, Becomes
  <2>7. /\ sessions' \in Seq(SessionType) /\ DOMAIN sessions' = DOMAIN sessions
        /\ sessions'[o] = s /\ \A y \in DOMAIN sessions \ {o} : sessions'[y] = sessions[y]
        /\ \A y \in DOMAIN sessions : sessions'[y].term = sessions[y].term
    BY <1>5, <2>2, <2>5, <2>6
  <2>8. Typed'
    BY <1>1, <1>6, <1>7, <2>2, <2>3, <2>6, <2>7 DEF Typed
  <2>9. Mapped' /\ DrainsKnow'
    BY <1>1, <1>7, <2>6, <2>7 DEF Owned, Mapped, DrainsKnow
  <2>10. \A y \in DOMAIN sessions : Current(y) => Current(y)'
    BY <2>6, <2>7 DEF Current
  <2>11. SessionsOwn'
    <3>1. ASSUME NEW y \in DOMAIN sessions'
          PROVE  /\ Sound(sessions'[y]) /\ ExitIsDeath(sessions'[y], shells')
                 /\ sessions'[y].proc # 0 =>
                      /\ sessions'[y].proc \in DOMAIN shells'
                      /\ shells'[sessions'[y].proc].of = y /\ Current(y)'
      <4>1. /\ y \in DOMAIN sessions /\ Sound(sessions[y]) /\ ExitIsDeath(sessions[y], shells)
            /\ sessions[y].proc # 0 =>
                 /\ sessions[y].proc \in DOMAIN shells /\ shells[sessions[y].proc].of = y
                 /\ Current(y)
        BY <1>1, <2>7 DEF Owned, SessionsOwn
      <4>2. CASE y = o
        <5>1. Sound(s)
          BY <1>5, <2>2, <2>5, <4>1, <4>2 DEF Sound
        <5>2. ExitIsDeath(s, shells')
          BY <1>5, <2>5, <4>1, <4>2 DEF ExitIsDeath
        <5>3. Current(y)' /\ n \in DOMAIN shells'
          BY <1>5, <2>2, <2>3, <2>10, <4>2
        <5> QED BY <2>3, <2>5, <2>7, <4>2, <5>1, <5>2, <5>3
      <4>3. CASE y # o
        <5>1. sessions'[y] = sessions[y]
          BY <2>7, <4>1, <4>3
        <5>2. ExitIsDeath(sessions[y], shells')
          BY <2>3, <4>1 DEF ExitIsDeath, FreeIn
        <5> QED BY <2>3, <2>10, <4>1, <5>1, <5>2
      <4> QED BY <4>2, <4>3
    <3> QED BY <3>1 DEF SessionsOwn
  <2>12. ShellsOwned'
    <3>1. ASSUME NEW p \in DOMAIN shells'
          PROVE  /\ shells'[p].of \in DOMAIN sessions'
                 /\ FreeIn(shells', p) => sessions'[shells'[p].of].proc = p
      <4>1. CASE p = n
        BY <1>5, <2>3, <2>5, <2>7, <4>1
      <4>2. CASE p # n
        <5>1. p \in DOMAIN shells /\ shells'[p] = shells[p] /\ p # 0
          BY <2>2, <2>3, <4>2
        <5>2. /\ shells[p].of \in DOMAIN sessions
              /\ FreeIn(shells, p) => sessions[shells[p].of].proc = p
          BY <1>1, <5>1 DEF Owned, ShellsOwned
        <5>3. FreeIn(shells', p) => FreeIn(shells, p) /\ shells[p].of # o
          BY <1>5, <5>1, <5>2 DEF FreeIn
        <5> QED BY <2>7, <5>1, <5>2, <5>3
      <4> QED BY <4>1, <4>2
    <3> QED BY <3>1 DEF ShellsOwned
  <2>13. OpsHold'
    <3>1. ASSUME NEW g \in Threads, op'[g] # Idle PROVE Holds(op[g], g)'
      <4>1. g # h /\ op'[g] = op[g]
        BY <1>6, <3>1
      <4>2. PICK y : y = op[g] /\ y = op'[g]
        BY <4>1
      <4>3. Holds(y, g)
        BY <1>1, <3>1, <4>1, <4>2 DEF Owned, OpsHold
      <4>4. y.obj # 0 => /\ y.obj \in DOMAIN sessions' /\ sessions'[y.obj] = sessions[y.obj]
                         /\ y.obj # o
        BY <1>5, <2>7, <4>1, <4>3 DEF Holds
      <4>5. y.step \in {"persist", "spawn"} => Current(y.obj)'
        BY <2>7, <2>10, <4>3, <4>4 DEF Holds
      <4>6. Holds(y, g)'
        BY <2>6, <4>3, <4>4, <4>5 DEF Holds
      <4> QED BY <4>2, <4>6
    <3> QED BY <3>1 DEF OpsHold
  <2> QED BY <2>8, <2>9, <2>11, <2>12, <2>13 DEF IInv, Owned
<1> QED BY <1>2, <1>4, <1>8, <1>9 DEF Spawn

-----------------------------------------------------------------------------
(* Shells, drains and polls.                                               *)
LEMMA EnqueueIsTame ==
  ASSUME Typed, Owned, NEW p \in DOMAIN shells, NEW event \in {"output", "exit"},
         Listens(p), EnqueueEvent(p, event), ShellsTamed, UNCHANGED <<sessionOf, strays>>,
         event = "exit" => ~FreeIn(shells', p)
  PROVE  /\ Tame /\ sessions' \in Seq(SessionType) /\ DrainsKnow'
         /\ drains' \in [Drains -> DrainType \cup {NoDrain}]
<1>1. PICK o : o = shells[p].of
  OBVIOUS
<1>2. /\ o \in DOMAIN sessions /\ sessions[o] \in SessionType /\ sessions[o].proc = p
      /\ sessions[o].status = "running" /\ o \in Nat /\ p \in Nat /\ p # 0
  BY <1>1 DEF Owned, ShellsOwned, Typed, Listens
<1>3. PICK s : s = [sessions[o] EXCEPT !.pending = Append(@, event), !.draining = TRUE]
  OBVIOUS
<1>4. /\ s \in SessionType /\ s.term = sessions[o].term /\ s.proc = p /\ s.status = "running"
      /\ s.busy = sessions[o].busy /\ s.pending = Append(sessions[o].pending, event)
      /\ sessions[o].pending \in Seq({"output", "exit"})
  <2>1. sessions[o].pending \in Seq({"output", "exit"})
    BY <1>2 DEF SessionType
  <2>2. PICK pending : pending = Append(sessions[o].pending, event)
    OBVIOUS
  <2>3. pending \in Seq({"output", "exit"})
    BY <2>1, <2>2
  <2>4. s = [sessions[o] EXCEPT !.pending = pending, !.draining = TRUE]
    BY <1>3, <2>2
  <2> QED BY <1>2, <2>1, <2>2, <2>3, <2>4 DEF SessionType
<1>5. Sound(s)
  BY <1>2, <1>4 DEF Owned, SessionsOwn, Sound
<1>6. ExitIsDeath(s, shells')
  <2>1. ASSUME NEW i \in DOMAIN s.pending, s.pending[i] = "exit" PROVE ~FreeIn(shells', p)
    <3>1. CASE i \in DOMAIN sessions[o].pending
      <4>1. sessions[o].pending[i] = "exit"
        BY <1>4, <2>1, <3>1
      <4>2. ~FreeIn(shells, p)
        BY <1>2, <3>1, <4>1 DEF Owned, SessionsOwn, ExitIsDeath
      <4> QED BY <4>2 DEF ShellsTamed
    <3>2. CASE i \notin DOMAIN sessions[o].pending
      BY <1>4, <2>1, <3>2
    <3> QED BY <3>1, <3>2
  <2> QED BY <1>2, <1>4, <2>1 DEF ExitIsDeath
<1>7. sessions' = [sessions EXCEPT ![o] = s]
  BY <1>1, <1>3 DEF EnqueueEvent
<1>8. Keeps(sessions[o], s, shells')
  BY <1>2, <1>4, <1>5, <1>6 DEF Keeps
<1>9. /\ sessions' \in Seq(SessionType) /\ DOMAIN sessions' = DOMAIN sessions
      /\ \A x \in DOMAIN sessions : Keeps(sessions[x], sessions'[x], shells')
  BY <1>2, <1>4, <1>7, <1>8, OneBecomes
<1>10. \/ drains' = drains
       \/ \E d \in Drains : drains' = [drains EXCEPT ![d] = [step |-> "take", obj |-> o, pid |-> p]]
  BY <1>1 DEF EnqueueEvent
<1>11. [step |-> "take", obj |-> o, pid |-> p] \in DrainType
  BY <1>2 DEF DrainType
<1>12. drains' \in [Drains -> DrainType \cup {NoDrain}]
  BY <1>10, <1>11 DEF Typed
<1>13. DrainsKnow'
  <2>1. ASSUME NEW d \in Drains PROVE drains'[d] = drains[d] \/ drains'[d].obj = o
    BY <1>10 DEF Typed
  <2> QED BY <1>2, <1>9, <2>1 DEF DrainsKnow, Owned
<1> QED BY <1>9, <1>12, <1>13, MapStays DEF Tame

LEMMA EmitKeeps ==
  ASSUME IInv, NEW p \in DOMAIN shells, Emit(p) PROVE IInv'
<1>1. PICK event \in {"output", "exit"} : event = "output"
  OBVIOUS
<1>2. /\ Typed /\ Owned /\ Listens(p) /\ EnqueueEvent(p, event)
      /\ UNCHANGED <<sessionOf, shells, op, toWrite, file, poll, strays>>
  BY <1>1 DEF IInv, Emit
<1>3. /\ Tame /\ sessions' \in Seq(SessionType) /\ DrainsKnow'
      /\ drains' \in [Drains -> DrainType \cup {NoDrain}]
  BY <1>1, <1>2, EnqueueIsTame, ShellsStay
<1>4. Typed'
  BY <1>2, <1>3 DEF Typed
<1> QED BY <1>2, <1>3, <1>4, Concludes

(* A shell that dies stays dead.                                           *)
LEMMA DeathTames ==
  ASSUME Typed, NEW p \in DOMAIN shells,
         shells' \in {[shells EXCEPT ![p].live = FALSE],
                      [shells EXCEPT ![p].kill = "done", ![p].live = FALSE]}
  PROVE  /\ shells' \in Seq(ShellType) /\ Len(shells') = Len(shells) /\ ShellsTamed
         /\ ~FreeIn(shells', p)
<1>1. shells \in Seq(ShellType) /\ shells[p] \in ShellType
  BY DEF Typed
<1>2. PICK y \in ShellType : /\ y.of = shells[p].of /\ y.live = FALSE
                             /\ shells' = [shells EXCEPT ![p] = y]
  <2>1. CASE shells' = [shells EXCEPT ![p].live = FALSE]
    <3> DEFINE z == [shells[p] EXCEPT !.live = FALSE]
    <3>1. z \in ShellType /\ z.of = shells[p].of /\ z.live = FALSE
      BY <1>1 DEF ShellType
    <3>2. shells' = [shells EXCEPT ![p] = z]
      BY <2>1
    <3> QED BY <3>1, <3>2
  <2>2. CASE shells' = [shells EXCEPT ![p].kill = "done", ![p].live = FALSE]
    <3> DEFINE z == [shells[p] EXCEPT !.kill = "done", !.live = FALSE]
    <3>1. z \in ShellType /\ z.of = shells[p].of /\ z.live = FALSE
      BY <1>1 DEF ShellType
    <3>2. shells' = [shells EXCEPT ![p] = z]
      BY <1>1, <2>2
    <3> QED BY <3>1, <3>2
  <2> QED BY <2>1, <2>2
<1>3. /\ shells' \in Seq(ShellType) /\ Len(shells') = Len(shells)
      /\ DOMAIN shells' = DOMAIN shells /\ shells'[p] = y
      /\ \A q \in DOMAIN shells \ {p} : shells'[q] = shells[q]
  BY <1>1, <1>2
<1> QED BY <1>2, <1>3 DEF ShellsTamed, FreeIn

LEMMA ExitKeeps ==
  ASSUME IInv, NEW p \in DOMAIN shells, Exit(p) PROVE IInv'
<1>1. PICK event \in {"output", "exit"} : event = "exit"
  OBVIOUS
<1>2. /\ Typed /\ Owned /\ shells' = [shells EXCEPT ![p].live = FALSE]
      /\ IF Listens(p) THEN EnqueueEvent(p, event) ELSE UNCHANGED <<sessions, drains>>
      /\ UNCHANGED <<sessionOf, op, toWrite, file, poll, strays>>
  BY <1>1 DEF IInv, Exit
<1>3. /\ shells' \in Seq(ShellType) /\ Len(shells') = Len(shells) /\ ShellsTamed
      /\ ~FreeIn(shells', p)
  BY <1>2, DeathTames
<1>4. /\ Tame /\ sessions' \in Seq(SessionType) /\ DrainsKnow'
      /\ drains' \in [Drains -> DrainType \cup {NoDrain}]
  <2>1. CASE Listens(p)
    BY <1>1, <1>2, <1>3, <2>1, EnqueueIsTame
  <2>2. CASE ~Listens(p)
    <3>1. UNCHANGED <<sessions, drains>>
      BY <1>2, <2>2
    <3>2. Tame
      BY <1>2, <1>3, <3>1, MapStays, Same DEF Tame
    <3> QED BY <1>2, <3>1, <3>2, DrainsKeepTheirs DEF Typed
  <2> QED BY <2>1, <2>2
<1>5. Typed'
  BY <1>2, <1>3, <1>4 DEF Typed
<1> QED BY <1>2, <1>4, <1>5, Concludes

LEMMA KillKeeps ==
  ASSUME IInv, NEW p \in DOMAIN shells, Kill(p) PROVE IInv'
<1>1. /\ Typed /\ Owned /\ shells' = [shells EXCEPT ![p].kill = "done", ![p].live = FALSE]
      /\ UNCHANGED <<sessionOf, sessions, op, drains, toWrite, file, poll, strays>>
  BY DEF IInv, Kill, Killed
<1>2. shells' \in Seq(ShellType) /\ Len(shells') = Len(shells) /\ ShellsTamed
  BY <1>1, DeathTames
<1>3. Typed'
  BY <1>1, <1>2 DEF Typed
<1>4. Tame
  BY <1>1, <1>2, MapStays, Same DEF Tame
<1>5. DrainsKnow'
  BY <1>1, DrainsKeepTheirs
<1> QED BY <1>1, <1>3, <1>4, <1>5, Concludes

(* The exit of a shell is only handled when it is dead, so that a session  *)
(* lets go of nothing that lives.                                          *)
LEMMA TakeKeeps ==
  ASSUME IInv, NEW d \in Drains, TakeEvent(d) PROVE IInv'
<1>1. PICK o : o = drains[d].obj
  OBVIOUS
<1>2. PICK s : s = sessions[o]
  OBVIOUS
<1>3. /\ Typed /\ Owned /\ drains[d].step = "take"
      /\ UNCHANGED <<shells, op, file, poll>>
  BY DEF IInv, TakeEvent
<1>4. o \in DOMAIN sessions /\ s \in SessionType /\ drains[d] \in DrainType
  <2>1. drains[d] # NoDrain
    BY <1>3 DEF NoDrain
  <2> QED BY <1>1, <1>2, <1>3, <2>1 DEF Owned, DrainsKnow, Typed
<1>5. Sound(s) /\ ExitIsDeath(s, shells) /\ ShellsTamed
  BY <1>2, <1>3, <1>4, ShellsStay DEF Owned, SessionsOwn
<1>6. /\ s.pending \in Seq({"output", "exit"}) /\ s.history \in Seq(1..MaxSpawns)
      /\ s.term \in Terminals /\ s.proc \in 0..MaxSpawns
  BY <1>4 DEF SessionType, Histories
<1>7. /\ Tame /\ sessions' \in Seq(SessionType) /\ UNCHANGED <<sessionOf, strays>>
      /\ toWrite' \in [Terminals -> Histories \cup {None}]
      /\ drains' \in {[drains EXCEPT ![d] = NoDrain], [drains EXCEPT ![d].step = "output"],
                      [drains EXCEPT ![d].step = "exit"]}
  <2>1. CASE /\ sessions' = [sessions EXCEPT ![o] = Undrained(s)]
             /\ drains' = [drains EXCEPT ![d] = NoDrain]
             /\ UNCHANGED <<sessionOf, recency, toWrite, strays>>
    <3>1. PICK n : n = Undrained(s)
      OBVIOUS
    <3>2. /\ n \in SessionType /\ n.term = s.term /\ n.proc = s.proc /\ n.status = s.status
          /\ n.busy = s.busy /\ n.pending = <<>>
      BY <1>4, <3>1, Objects
    <3>3. Sound(n)
      BY <1>5, <3>2 DEF Sound
    <3>4. Keeps(sessions[o], n, shells')
      BY <1>2, <3>2, <3>3, NothingPending DEF Keeps
    <3>5. /\ sessions' \in Seq(SessionType) /\ DOMAIN sessions' = DOMAIN sessions
          /\ \A x \in DOMAIN sessions : Keeps(sessions[x], sessions'[x], shells')
      BY <1>3, <1>4, <1>5, <2>1, <3>1, <3>2, <3>4, OneBecomes
    <3>6. Tame
      BY <1>5, <2>1, <3>5, MapStays DEF Tame
    <3> QED BY <1>3, <2>1, <3>5, <3>6 DEF Typed
  <2>2. CASE /\ s.status = "running" /\ s.pending # <<>>
             /\ Update(o, [[s EXCEPT !.pending = Tail(@)] EXCEPT !.history = Append(@, s.proc)])
             /\ Persist(s.term, sessions'[o].history)
             /\ drains' = [drains EXCEPT ![d].step = "output"]
    <3>1. PICK pending : pending = Tail(s.pending)
      OBVIOUS
    <3>2. PICK history : history = Append(s.history, s.proc)
      OBVIOUS
    <3>3. /\ pending \in Seq({"output", "exit"})
          /\ \A i \in DOMAIN pending : i + 1 \in DOMAIN s.pending /\ pending[i] = s.pending[i + 1]
      BY <1>6, <2>2, <3>1
    <3>4. history \in Histories
      <4>1. s.proc # 0
        BY <1>5, <2>2 DEF Sound
      <4>2. s.proc \in 1..MaxSpawns
        BY <1>6, <4>1
      <4> QED BY <1>6, <3>2, <4>2 DEF Histories
    <3>5. PICK n : n = [s EXCEPT !.pending = pending, !.history = history]
      OBVIOUS
    <3>6. /\ n \in SessionType /\ n.term = s.term /\ n.proc = s.proc /\ n.status = s.status
          /\ n.busy = s.busy /\ n.pending = pending /\ n.history = history
      BY <1>4, <3>3, <3>4, <3>5 DEF SessionType
    <3>7. Update(o, n)
      BY <1>4, <2>2, <3>1, <3>2, <3>5 DEF SessionType
    <3>8. Sound(n)
      BY <1>5, <3>6 DEF Sound
    <3>9. ExitIsDeath(n, shells')
      BY <1>3, <1>5, <3>3, <3>6 DEF ExitIsDeath
    <3>10. Keeps(sessions[o], n, shells')
      BY <1>2, <3>6, <3>8, <3>9 DEF Keeps
    <3>11. /\ Tame /\ sessions' \in Seq(SessionType) /\ sessions'[o] = n
           /\ UNCHANGED <<sessionOf, strays>>
      BY <1>3, <1>4, <1>5, <3>6, <3>7, <3>10, UpdateIsTame
    <3>12. toWrite' \in [Terminals -> Histories \cup {None}]
      <4>1. Persist(s.term, history)
        BY <2>2, <3>6, <3>11
      <4> QED BY <1>3, <3>4, <4>1, Persisting
    <3> QED BY <2>2, <3>11, <3>12
  <2>3. CASE /\ s.pending # <<>> /\ Head(s.pending) = "exit" /\ Update(o, Stopped(s))
             /\ drains' = [drains EXCEPT ![d].step = "exit"] /\ UNCHANGED toWrite
    <3>1. PICK n : n = Stopped(s)
      OBVIOUS
    <3>2. /\ n \in SessionType /\ n.term = s.term /\ n.proc = 0 /\ n.status = "exited"
          /\ n.busy = 0 /\ n.pending = <<>>
      BY <1>4, <3>1, Objects
    <3>3. 1 \in DOMAIN s.pending /\ s.pending[1] = "exit"
      BY <1>6, <2>3
    <3>4. ~FreeIn(shells', s.proc)
      BY <1>3, <1>5, <3>3 DEF ExitIsDeath
    <3>5. Sound(n)
      BY <3>2 DEF Sound
    <3>6. Keeps(sessions[o], n, shells')
      BY <1>2, <3>2, <3>4, <3>5, NothingPending DEF Keeps
    <3>7. /\ Tame /\ sessions' \in Seq(SessionType) /\ UNCHANGED <<sessionOf, strays>>
      BY <1>3, <1>4, <1>5, <2>3, <3>1, <3>2, <3>6, UpdateIsTame
    <3> QED BY <1>3, <2>3, <3>7 DEF Typed
  <2> QED BY <1>1, <1>2, <2>1, <2>2, <2>3 DEF TakeEvent
<1>8. /\ drains' \in [Drains -> DrainType \cup {NoDrain}]
      /\ \A e \in Drains : \/ drains'[e] \in {NoDrain, drains[e]}
                           \/ drains[e] # NoDrain /\ drains'[e].obj = drains[e].obj
  <2>1. \A step \in {"output", "exit"} : [drains[d] EXCEPT !.step = step] \in DrainType
    BY <1>4 DEF DrainType
  <2>2. drains[d] # NoDrain /\ \A step \in {"output", "exit"} :
                                 [drains[d] EXCEPT !.step = step].obj = drains[d].obj
    BY <1>3, <1>4 DEF DrainType, NoDrain
  <2> QED BY <1>3, <1>4, <1>7, <2>1, <2>2 DEF Typed
<1>9. DrainsKnow'
  BY <1>3, <1>7, <1>8 DEF Owned, DrainsKnow, Tame
<1>10. Typed'
  BY <1>3, <1>7, <1>8 DEF Typed
<1> QED BY <1>3, <1>7, <1>9, <1>10, Concludes

LEMMA PublishedKeeps ==
  ASSUME IInv, NEW d \in Drains, Published(d) PROVE IInv'
<1>1. /\ Typed /\ Owned /\ drains[d].step \in {"output", "exit"}
      /\ UNCHANGED <<sessions, recency, shells, op, toWrite, file, poll>>
      /\ drains' \in {[drains EXCEPT ![d].step = "take"], [drains EXCEPT ![d] = NoDrain]}
      /\ UNCHANGED <<sessionOf, strays>> \/ Evict(sessionOf, sessions, recency)
  BY DEF IInv, Published
<1>2. drains[d] \in DrainType /\ drains[d] # NoDrain
  BY <1>1 DEF Typed, NoDrain
<1>3. /\ drains' \in [Drains -> DrainType \cup {NoDrain}]
      /\ \A e \in Drains : \/ drains'[e] \in {NoDrain, drains[e]}
                           \/ drains[e] # NoDrain /\ drains'[e].obj = drains[e].obj
  <2>1. /\ [drains[d] EXCEPT !.step = "take"] \in DrainType
        /\ [drains[d] EXCEPT !.step = "take"].obj = drains[d].obj
    BY <1>2 DEF DrainType
  <2> QED BY <1>1, <1>2, <2>1 DEF Typed
<1>4. \A o \in DOMAIN sessions : Sound(sessions[o]) /\ Keeps(sessions[o], sessions'[o], shells')
  BY <1>1, ShellsStay, Same DEF Keeps
<1>5. /\ sessionOf' \in [Terminals -> Nat] /\ strays' \subseteq Terminals
      /\ strays \subseteq strays' /\ \A t \in Terminals : LetsGo(t)
  <2>1. CASE UNCHANGED <<sessionOf, strays>>
    BY <1>1, <2>1, MapStays DEF Typed
  <2>2. CASE Evict(sessionOf, sessions, recency)
    BY <1>1, <1>4, <2>2, EvictsTamely
  <2> QED BY <1>1, <2>1, <2>2
<1>6. Typed'
  BY <1>1, <1>3, <1>5 DEF Typed
<1>7. Tame
  BY <1>1, <1>4, <1>5, ShellsStay DEF Tame
<1>8. DrainsKnow'
  BY <1>1, <1>3 DEF Owned, DrainsKnow
<1> QED BY <1>1, <1>6, <1>7, <1>8, Concludes

LEMMA PollKeeps ==
  ASSUME IInv, NEW t \in Terminals, Poll(t) PROVE IInv'
<1>1. /\ Typed /\ Owned /\ sessionOf[t] # 0
      /\ UNCHANGED <<sessionOf, sessions, shells, op, drains, toWrite, file, strays>>
      /\ poll' = [term |-> t, proc |-> sessions[sessionOf[t]].proc]
  BY DEF IInv, Poll
<1>2. sessions[sessionOf[t]].proc \in 0..MaxSpawns
  BY <1>1, SessionOf DEF SessionType
<1>3. Typed'
  BY <1>1, <1>2 DEF Typed, PollType
<1>4. Tame /\ DrainsKnow'
  BY <1>1, NobodyMoves, DrainsKeepTheirs
<1> QED BY <1>1, <1>3, <1>4, Concludes

LEMMA PolledKeeps ==
  ASSUME IInv, NEW active \in BOOLEAN, Polled(active) PROVE IInv'
<1>1. /\ Typed /\ Owned /\ poll # None /\ poll' = None
      /\ UNCHANGED <<shells, op, drains, toWrite, file>>
  BY DEF IInv, Polled
<1>2. PICK o : o = sessionOf[poll.term]
  OBVIOUS
<1>3. PICK busy : busy = IF active THEN poll.proc ELSE 0
  OBVIOUS
<1>4. poll \in PollType /\ poll.term \in Terminals /\ busy \in 0..MaxSpawns
  <2>1. poll \in PollType
    BY <1>1 DEF Typed
  <2> QED BY <1>3, <2>1, TerminalAssumption DEF PollType
<1>5. /\ Tame /\ sessions' \in Seq(SessionType) /\ UNCHANGED <<sessionOf, strays>>
  <2>1. CASE UNCHANGED <<sessionOf, sessions, recency, strays>>
    BY <1>1, <2>1, NobodyMoves DEF Typed
  <2>2. CASE /\ o # 0 /\ SameProcess(sessions[o], poll.proc)
             /\ Update(o, [sessions[o] EXCEPT !.busy = busy])
    <3>1. o \in DOMAIN sessions /\ sessions[o] \in SessionType
      BY <1>1, <1>2, <1>4, <2>2, SessionOf
    <3>2. PICK n : n = [sessions[o] EXCEPT !.busy = busy]
      OBVIOUS
    <3>3. /\ n \in SessionType /\ n.term = sessions[o].term /\ n.proc = sessions[o].proc
          /\ n.status = sessions[o].status /\ n.busy = busy /\ n.pending = sessions[o].pending
      BY <1>4, <3>1, <3>2 DEF SessionType
    <3>4. Sound(sessions[o]) /\ ExitIsDeath(sessions[o], shells)
      BY <1>1, <3>1 DEF Owned, SessionsOwn
    <3>5. Sound(n)
      BY <1>3, <2>2, <3>3, <3>4 DEF Sound, SameProcess
    <3>6. ExitIsDeath(n, shells')
      BY <1>1, <3>3, <3>4 DEF ExitIsDeath
    <3>7. Keeps(sessions[o], n, shells')
      BY <3>3, <3>5, <3>6 DEF Keeps
    <3> QED BY <1>1, <2>2, <3>1, <3>2, <3>3, <3>7, UpdateIsTame, ShellsStay
  <2> QED BY <1>2, <1>3, <2>1, <2>2 DEF Polled
<1>6. Typed'
  BY <1>1, <1>5 DEF Typed
<1>7. DrainsKnow'
  BY <1>1, <1>5, DrainsKeepTheirs DEF Tame
<1> QED BY <1>1, <1>5, <1>6, <1>7, Concludes

-----------------------------------------------------------------------------
LEMMA InitHolds == Init => IInv
<1> SUFFICES ASSUME Init PROVE IInv
  OBVIOUS
<1>1. sessions = <<>> /\ shells = <<>> /\ DOMAIN sessions = {} /\ DOMAIN shells = {}
  BY DEF Init
<1>2. Typed
  BY <1>1, EmptyHistory, TerminalAssumption DEF Init, Typed
<1>3. Owned
  BY <1>1 DEF Init, Owned, SessionsOwn, Mapped, ShellsOwned, DrainsKnow, OpsHold
<1> QED BY <1>2, <1>3 DEF IInv

LEMMA StutterKeeps == ASSUME IInv, UNCHANGED vars PROVE IInv'
<1>1. /\ Typed /\ Owned /\ UNCHANGED <<sessionOf, sessions, shells, strays, op, drains>>
      /\ UNCHANGED <<toWrite, file, poll>>
  BY DEF IInv, vars
<1>2. Typed'
  BY <1>1 DEF Typed
<1>3. Tame /\ DrainsKnow'
  BY <1>1, NobodyMoves, DrainsKeepTheirs
<1> QED BY <1>1, <1>2, <1>3, Concludes

(* The invariant is kept by every step, one lemma per action.              *)
THEOREM Inductive == Spec => []IInv
<1>1. ASSUME IInv, [Next]_vars PROVE IInv'
  <2>1. ASSUME NEW t \in Terminals,
               \/ OpenNew(t) \/ Restart(t) \/ Clear(t) \/ Poll(t)
               \/ \E b \in BOOLEAN : OpenAgain(t, b) \/ Close(t, b)
        PROVE  IInv'
    BY <1>1, <2>1, OpenNewKeeps, RestartKeeps, ClearKeeps, PollKeeps, OpenAgainKeeps, CloseKeeps
  <2>2. ASSUME NEW p \in DOMAIN shells, Emit(p) \/ Exit(p) PROVE IInv'
    BY <1>1, <2>2, EmitKeeps, ExitKeeps
  <2>3. CASE Run
    BY <1>1, <2>3, ReadHistoryKeeps, PersistedKeeps, ClearedKeeps, ClosedKeeps, SpawnKeeps,
       WriteFileKeeps, TakeKeeps, PublishedKeeps, KillKeeps, PolledKeeps DEF Run
  <2>4. CASE UNCHANGED vars
    BY <1>1, <2>4, StutterKeeps
  <2> QED BY <1>1, <2>1, <2>2, <2>3, <2>4 DEF Next
<1> QED BY <1>1, InitHolds, PTL DEF Spec

(* Every variable keeps its type, for any number of terminals and shells,  *)
(* and no session shows the activity of a process that is not its own.     *)
THEOREM TypeCorrect == Spec => []TypeOK
<1>1. ASSUME IInv PROVE TypeOK
  <2>1. Typed /\ Owned
    BY <1>1 DEF IInv
  <2>2. sessionOf \in [Terminals -> 0..Len(sessions)]
    <3>1. \A t \in Terminals : sessionOf[t] \in 0..Len(sessions)
      BY <2>1 DEF Typed, Owned, Mapped
    <3> QED BY <2>1, <3>1 DEF Typed
  <2>3. ASSUME NEW o \in DOMAIN sessions
        PROVE  sessions[o] \in [term : Terminals,
                                status : {"starting", "running", "exited", "error"},
                                proc : 0..MaxSpawns, history : Histories,
                                pending : Seq({"output", "exit"}), draining : BOOLEAN,
                                busy : {0, sessions[o].proc}]
    <3>1. sessions[o] \in SessionType /\ Sound(sessions[o])
      BY <2>1 DEF Typed, Owned, SessionsOwn
    <3> QED BY <3>1 DEF SessionType, Sound
  <2>4. ASSUME NEW p \in DOMAIN shells
        PROVE  shells[p] \in [of : DOMAIN sessions, live : BOOLEAN, kill : {"no", "term", "done"}]
    <3>1. shells[p] \in ShellType /\ shells[p].of \in DOMAIN sessions
      BY <2>1 DEF Typed, Owned, ShellsOwned
    <3> QED BY <3>1 DEF ShellType
  <2> QED BY <2>1, <2>2, <2>3, <2>4 DEF TypeOK, Typed
<1> QED BY <1>1, Inductive, PTL

(* A shell that lives and is not being killed is the process of its        *)
(* session, and the only one of its terminal, whatever closes, restarts,   *)
(* exits and is evicted meanwhile.                                         *)
THEOREM ShellsAreKept == Spec => []NoShellForgotten
<1>1. ASSUME IInv PROVE NoShellForgotten
  <2>1. SessionsOwn /\ ShellsOwned /\ Typed
    BY <1>1 DEF IInv, Owned
  <2>2. ASSUME NEW p \in DOMAIN shells, Free(p)
        PROVE  /\ shells[p].of \in DOMAIN sessions /\ sessions[shells[p].of].proc = p /\ p # 0
               /\ Current(shells[p].of)
    BY <2>1, <2>2 DEF ShellsOwned, SessionsOwn, Free, FreeIn, Typed
  <2>3. ASSUME NEW p \in DOMAIN shells, NEW q \in DOMAIN shells, Free(p), Free(q),
               TerminalOf(q) = TerminalOf(p), TerminalOf(p) \notin strays
        PROVE  p = q
    BY <2>2, <2>3 DEF Current, TerminalOf
  <2> QED BY <2>2, <2>3 DEF NoShellForgotten
<1> QED BY <1>1, Inductive, PTL

-----------------------------------------------------------------------------
(* What the file will hold.  A step leaves a terminal alone, takes its     *)
(* session out of the map, or ends with its history queued or written.     *)
WillHold(queued, files, t) == IF queued[t] = None THEN files[t] ELSE queued[t]
Recorded(t) ==
  sessionOf'[t] = 0 \/ t \in strays'
    \/ WillHold(toWrite', file', t) = sessions'[sessionOf'[t]].history
Untouched(t) ==
  /\ toWrite'[t] = toWrite[t] /\ file'[t] = file[t] /\ sessionOf'[t] \in {0, sessionOf[t]}
  /\ sessionOf'[t] # 0 => sessions'[sessionOf[t]].history = sessions[sessionOf[t]].history

LEMMA Remembers ==
  ASSUME HistoryIsSaved, strays \subseteq strays',
         \A t \in Terminals : Untouched(t) \/ Recorded(t)
  PROVE  HistoryIsSaved'
<1>1. ASSUME NEW t \in Terminals, t \notin strays', sessionOf'[t] # 0
      PROVE  Saved(t)' = sessions'[sessionOf'[t]].history
  <2>1. CASE Recorded(t)
    BY <1>1, <2>1 DEF Recorded, WillHold, Saved
  <2>2. CASE Untouched(t)
    <3>1. /\ Saved(t)' = Saved(t) /\ sessionOf'[t] = sessionOf[t]
          /\ sessions'[sessionOf'[t]].history = sessions[sessionOf[t]].history
      BY <1>1, <2>2 DEF Untouched, Saved
    <3>2. Saved(t) = sessions[sessionOf[t]].history
      BY <1>1, <3>1 DEF HistoryIsSaved
    <3> QED BY <3>1, <3>2
  <2> QED BY <2>1, <2>2
<1> QED BY <1>1 DEF HistoryIsSaved

LEMMA EvictsOnly ==
  ASSUME NEW all, NEW order, Evict(sessionOf, all, order)
  PROVE  strays \subseteq strays' /\ \A t \in Terminals : sessionOf'[t] \in {0, sessionOf[t]}
<1>1. \A t \in Terminals : sessionOf'[t] \in {0, sessionOf[t]}
  BY Retains DEF Evict
<1> QED BY <1>1 DEF Evict

(* One session changes, and perhaps some are evicted.                      *)
Changes(o, history) ==
  /\ \A x \in DOMAIN sessions \ {o} : sessions'[x] = sessions[x]
  /\ sessions'[o].history = history /\ strays \subseteq strays'
  /\ \A t \in Terminals : sessionOf'[t] \in {0, sessionOf[t]}
Writes(t, history) ==
  /\ WillHold(toWrite', file', t) = history
  /\ \A u \in Terminals \ {t} : toWrite'[u] = toWrite[u] /\ file'[u] = file[u]

LEMMA HandsOut ==
  ASSUME IInv, NEW o \in DOMAIN sessions, NEW s, Settle(o, s) \/ Update(o, s)
  PROVE  Changes(o, s.history)
<1>1. sessions \in Seq(SessionType)
  BY DEF IInv, Typed
<1>2. /\ sessions' = [sessions EXCEPT ![o] = s] /\ strays \subseteq strays'
      /\ \A t \in Terminals : sessionOf'[t] \in {0, sessionOf[t]}
  <2>1. CASE Settle(o, s)
    <3>1. sessions' = [sessions EXCEPT ![o] = s] /\ Evict(sessionOf, sessions', recency')
      BY <2>1 DEF Settle, Becomes
    <3> QED BY <3>1, EvictsOnly
  <2>2. CASE Update(o, s)
    BY <2>2 DEF Update, Becomes
  <2> QED BY <2>1, <2>2
<1> QED BY <1>1, <1>2 DEF Changes

LEMMA ChangeSaved ==
  ASSUME IInv, HistoryIsSaved, NEW o \in DOMAIN sessions, NEW history, NEW t \in Terminals,
         Changes(o, history), t = sessions[o].term, Writes(t, history),
         sessionOf[t] = o \/ t \in strays
  PROVE  HistoryIsSaved'
<1>1. Typed /\ Owned
  BY DEF IInv
<1>2. ASSUME NEW u \in Terminals PROVE Untouched(u) \/ Recorded(u)
  <2>1. CASE sessionOf'[u] = 0
    BY <2>1 DEF Recorded
  <2>2. CASE sessionOf'[u] # 0 /\ u # t
    <3>1. sessionOf'[u] = sessionOf[u] /\ sessionOf[u] # 0
      BY <2>2 DEF Changes
    <3>2. sessionOf[u] \in DOMAIN sessions /\ sessions[sessionOf[u]].term = u
      BY <1>1, <3>1, SessionOf
    <3>3. sessionOf[u] # o
      BY <2>2, <3>2
    <3>4. sessions'[sessionOf[u]] = sessions[sessionOf[u]]
      BY <3>2, <3>3 DEF Changes
    <3> QED BY <2>2, <3>1, <3>4 DEF Untouched, Writes
  <2>3. CASE sessionOf'[u] # 0 /\ u = t
    <3>1. sessionOf'[t] = sessionOf[t]
      BY <2>3 DEF Changes
    <3> QED BY <2>3, <3>1 DEF Recorded, Changes, Writes
  <2> QED BY <2>1, <2>2, <2>3
<1>3. strays \subseteq strays'
  BY DEF Changes
<1> QED BY <1>2, <1>3, Remembers

LEMMA ChangeUnsaved ==
  ASSUME IInv, HistoryIsSaved, NEW o \in DOMAIN sessions,
         Changes(o, sessions[o].history), UNCHANGED <<toWrite, file>>
  PROVE  HistoryIsSaved'
<1>1. Typed /\ Owned
  BY DEF IInv
<1>2. ASSUME NEW u \in Terminals PROVE Untouched(u) \/ Recorded(u)
  <2>1. CASE sessionOf'[u] = 0
    BY <2>1 DEF Recorded
  <2>2. CASE sessionOf'[u] # 0
    <3>1. sessionOf'[u] = sessionOf[u] /\ sessionOf[u] # 0
      BY <2>2 DEF Changes
    <3>2. sessionOf[u] \in DOMAIN sessions
      BY <1>1, <3>1, SessionOf
    <3>3. sessions'[sessionOf[u]].history = sessions[sessionOf[u]].history
      BY <3>2 DEF Changes
    <3> QED BY <3>1, <3>3 DEF Untouched
  <2> QED BY <2>1, <2>2
<1>3. strays \subseteq strays'
  BY DEF Changes
<1> QED BY <1>2, <1>3, Remembers

LEMMA Queued ==
  ASSUME Typed, NEW t \in Terminals, NEW history \in Histories, Persist(t, history),
         UNCHANGED file
  PROVE  Writes(t, history)
<1>1. toWrite'[t] = history /\ history # None
  BY TerminalAssumption DEF Typed, Persist, Histories
<1> QED BY <1>1 DEF Typed, Persist, Writes, WillHold

LEMMA SameHistory ==
  ASSUME NEW s \in SessionType
  PROVE  /\ Stopped(s).history = s.history /\ Starting(s).history = s.history
         /\ Undrained(s).history = s.history /\ Emptied(s).history = <<>>
BY DEF SessionType, Stopped, Starting, Undrained, Emptied

(* A step that neither queues, writes nor changes a session.               *)
LEMMA MapShrinks ==
  ASSUME HistoryIsSaved, UNCHANGED <<sessions, toWrite, file>>, strays \subseteq strays',
         \A t \in Terminals : sessionOf'[t] \in {0, sessionOf[t]}
  PROVE  HistoryIsSaved'
<1>1. \A t \in Terminals : Untouched(t)
  BY DEF Untouched
<1> QED BY <1>1, Remembers

LEMMA NothingSaved ==
  ASSUME HistoryIsSaved, UNCHANGED <<sessionOf, sessions, toWrite, file, strays>>
  PROVE  HistoryIsSaved'
BY MapShrinks

(* A session changes and the map does not.                                 *)
LEMMA InPlace ==
  ASSUME IInv, NEW o \in DOMAIN sessions, NEW s, sessions' = [sessions EXCEPT ![o] = s],
         UNCHANGED <<sessionOf, strays>>
  PROVE  Changes(o, s.history)
<1>1. sessions \in Seq(SessionType)
  BY DEF IInv, Typed
<1> QED BY <1>1 DEF Changes

(* A new session of a terminal that had none.                              *)
LEMMA MakeSaves ==
  ASSUME IInv, HistoryIsSaved, NEW t \in Terminals, NEW history, Make(t, history),
         Writes(t, history)
  PROVE  HistoryIsSaved'
<1>1. PICK n : n = Len(sessions) + 1
  OBVIOUS
<1>2. Typed /\ Owned /\ n \in Nat /\ sessions \in Seq(SessionType)
  BY <1>1 DEF IInv, Typed
<1>3. PICK s : s = NewSession(t, history)
  OBVIOUS
<1>4. s.history = history
  BY <1>3 DEF NewSession
<1>5. /\ sessions'[n] = s /\ Len(sessions') = n
      /\ \A x \in DOMAIN sessions : sessions'[x] = sessions[x]
  <2>1. sessions' = Append(sessions, s)
    BY <1>3 DEF Make
  <2> QED BY <1>1, <1>2, <2>1
<1>6. PICK map : map = [sessionOf EXCEPT ![t] = n]
  OBVIOUS
<1>7. map[t] = n /\ \A u \in Terminals \ {t} : map[u] = sessionOf[u]
  BY <1>2, <1>6 DEF Typed
<1>8. /\ strays \subseteq strays' /\ \A u \in Terminals : sessionOf'[u] \in {0, map[u]}
  <2>1. Evict(map, sessions', recency')
    BY <1>5, <1>6 DEF Make
  <2> QED BY <2>1, Retains DEF Evict
<1>9. ASSUME NEW u \in Terminals PROVE Untouched(u) \/ Recorded(u)
  <2>1. CASE u = t
    BY <1>4, <1>5, <1>7, <1>8, <2>1 DEF Recorded, Writes
  <2>2. CASE u # t /\ sessionOf'[u] # 0
    <3>1. sessionOf'[u] = sessionOf[u] /\ sessionOf[u] # 0
      BY <1>7, <1>8, <2>2
    <3>2. sessionOf[u] \in DOMAIN sessions
      BY <1>2, <3>1, SessionOf
    <3> QED BY <1>5, <2>2, <3>1, <3>2 DEF Untouched, Writes
  <2>3. CASE sessionOf'[u] = 0
    BY <2>3 DEF Recorded
  <2> QED BY <2>1, <2>2, <2>3
<1> QED BY <1>8, <1>9, Remembers

LEMMA ReplaceSaves ==
  ASSUME IInv, HistoryIsSaved, NEW t \in Terminals, sessionOf[t] # 0, Replace(sessionOf[t]),
         Persist(t, <<>>), UNCHANGED file
  PROVE  HistoryIsSaved'
<1>1. PICK o : o = sessionOf[t]
  OBVIOUS
<1>2. Typed /\ Owned
  BY DEF IInv
<1>3. o \in DOMAIN sessions /\ sessions[o].term = t /\ sessions[o] \in SessionType
  BY <1>1, <1>2, SessionOf
<1>4. Writes(t, <<>>)
  BY <1>2, EmptyHistory, Queued
<1>5. Changes(o, <<>>)
  <2>1. CASE sessions[o].proc # 0
    <3>1. Stopped(sessions[o]) \in SessionType
      BY <1>3, Objects
    <3>2. Emptied(Stopped(sessions[o])).history = <<>>
      BY <3>1, SameHistory
    <3>3. Settle(o, Emptied(Stopped(sessions[o])))
      BY <1>1, <2>1 DEF Replace, Stop
    <3>4. Changes(o, Emptied(Stopped(sessions[o])).history)
      BY <1>3, <3>3, HandsOut
    <3> QED BY <3>2, <3>4
  <2>2. CASE sessions[o].proc = 0
    <3>1. sessions' = [sessions EXCEPT ![o] = Emptied(sessions[o])]
      BY <1>1, <2>2 DEF Replace
    <3>2. Emptied(sessions[o]).history = <<>>
      BY <1>3, SameHistory
    <3>3. UNCHANGED <<sessionOf, strays>>
      BY <1>1, <2>2 DEF Replace
    <3>4. Changes(o, Emptied(sessions[o]).history)
      BY <1>3, <3>1, <3>3, InPlace
    <3> QED BY <3>2, <3>4
  <2> QED BY <2>1, <2>2
<1> QED BY <1>1, <1>3, <1>4, <1>5, ChangeSaved

LEMMA OpeningSaves ==
  ASSUME IInv, HistoryIsSaved, NEW t \in Terminals,
         \/ OpenNew(t) \/ Restart(t) \/ Clear(t) \/ Poll(t)
         \/ \E b \in BOOLEAN : OpenAgain(t, b) \/ Close(t, b)
  PROVE  HistoryIsSaved'
<1>0. Typed /\ Owned
  BY DEF IInv
<1>1. CASE OpenNew(t) \/ Poll(t)
  BY <1>1, NothingSaved DEF OpenNew, Poll, Locks
<1>2. CASE Restart(t)
  <2>1. UNCHANGED file /\ Persist(t, <<>>)
    BY <1>2 DEF Restart, Locks
  <2>2. Writes(t, <<>>)
    BY <1>0, <2>1, EmptyHistory, Queued
  <2>3. CASE sessionOf[t] = 0
    <3>1. Make(t, <<>>)
      BY <1>2, <2>3 DEF Restart
    <3> QED BY <2>2, <3>1, MakeSaves
  <2>4. CASE sessionOf[t] # 0
    <3>1. Replace(sessionOf[t])
      BY <1>2, <2>4 DEF Restart
    <3> QED BY <2>1, <2>4, <3>1, ReplaceSaves
  <2> QED BY <2>3, <2>4
<1>3. ASSUME NEW b \in BOOLEAN, OpenAgain(t, b) PROVE HistoryIsSaved'
  <2>1. UNCHANGED file /\ Persist(t, <<>>) /\ Replace(sessionOf[t]) /\ sessionOf[t] # 0
    BY <1>3 DEF OpenAgain, Locks
  <2> QED BY <2>1, ReplaceSaves
<1>4. CASE Clear(t)
  <2>1. PICK o : o = sessionOf[t]
    OBVIOUS
  <2>2. /\ UNCHANGED file /\ Persist(t, <<>>) /\ o # 0 /\ Update(o, Emptied(sessions[o]))
    BY <1>4, <2>1 DEF Clear, Locks
  <2>3. Writes(t, <<>>)
    BY <1>0, <2>2, EmptyHistory, Queued
  <2>4. o \in DOMAIN sessions /\ sessions[o].term = t /\ sessions[o] \in SessionType
    BY <1>0, <2>1, <2>2, SessionOf
  <2>5. Changes(o, Emptied(sessions[o]).history)
    BY <2>2, <2>4, HandsOut
  <2>6. Changes(o, <<>>)
    BY <2>4, <2>5, SameHistory
  <2> QED BY <2>1, <2>3, <2>4, <2>6, ChangeSaved
<1>5. ASSUME NEW b \in BOOLEAN, Close(t, b) PROVE HistoryIsSaved'
  <2>1. UNCHANGED file
    BY <1>5 DEF Close, Locks
  <2>2. CASE sessionOf[t] = 0
    BY <1>5, <2>1, <2>2, NothingSaved DEF Close
  <2>3. CASE sessionOf[t] # 0
    <3>1. PICK o : o = sessionOf[t]
      OBVIOUS
    <3>2. o \in DOMAIN sessions /\ sessions[o].term = t /\ sessions[o] \in SessionType
      BY <1>0, <2>3, <3>1, SessionOf
    <3>3. PICK history : history = sessions[o].history
      OBVIOUS
    <3>4. history \in Histories /\ Persist(t, history)
      BY <1>5, <2>3, <3>1, <3>2, <3>3 DEF Close, SessionType
    <3>5. Writes(t, history)
      BY <1>0, <2>1, <3>4, Queued
    <3>6. Changes(o, history)
      <4>1. CASE sessions[o].proc # 0
        <5>1. Settle(o, Stopped(sessions[o]))
          BY <1>5, <2>3, <3>1, <4>1 DEF Close, Stop
        <5>2. Stopped(sessions[o]).history = history
          BY <3>2, <3>3, SameHistory
        <5>3. Changes(o, Stopped(sessions[o]).history)
          BY <3>2, <5>1, HandsOut
        <5> QED BY <5>2, <5>3
      <4>2. CASE sessions[o].proc = 0
        <5>1. UNCHANGED <<sessionOf, sessions, strays>>
          BY <1>5, <2>3, <3>1, <4>2 DEF Close
        <5> QED BY <3>3, <5>1 DEF Changes
      <4> QED BY <4>1, <4>2
    <3> QED BY <3>1, <3>2, <3>5, <3>6, ChangeSaved
  <2> QED BY <2>2, <2>3
<1> QED BY <1>1, <1>2, <1>3, <1>4, <1>5

(* The session of an operation.                                            *)
LEMMA OperatesOn ==
  ASSUME IInv, NEW h \in Threads, NEW step \in {"persist", "spawn"}, At(h, step)
  PROVE  op[h].obj \in DOMAIN sessions /\ sessions[op[h].obj] \in SessionType
<1>1. Typed /\ Owned
  BY DEF IInv
<1>2. Holds(op[h], h) /\ op[h].step = step
  BY <1>1, AtStep
<1>3. op[h].obj \in DOMAIN sessions
  BY <1>2 DEF Holds
<1> QED BY <1>1, <1>3 DEF Typed

LEMMA ReadHistorySaves ==
  ASSUME IInv, HistoryIsSaved, NEW h \in Threads, ReadHistory(h) PROVE HistoryIsSaved'
<1>1. PICK t : t = op[h].term
  OBVIOUS
<1>2. /\ Typed /\ Owned /\ At(h, "read") /\ toWrite[t] = None /\ UNCHANGED <<toWrite, file>>
      /\ Make(t, file[t])
  BY <1>1 DEF IInv, ReadHistory, Flushed
<1>3. op[h] \in OpType
  BY <1>2, AtStep
<1>4. t \in Terminals
  BY <1>1, <1>3 DEF OpType
<1>5. Writes(t, file[t])
  BY <1>2 DEF Writes, WillHold
<1> QED BY <1>2, <1>4, <1>5, MakeSaves

LEMMA PersistedSaves ==
  ASSUME IInv, HistoryIsSaved, NEW h \in Threads, Persisted(h) PROVE HistoryIsSaved'
<1>1. PICK o : o = op[h].obj
  OBVIOUS
<1>2. o \in DOMAIN sessions /\ sessions[o] \in SessionType
  BY <1>1, OperatesOn DEF Persisted
<1>3. Update(o, Starting(sessions[o])) /\ UNCHANGED <<toWrite, file>>
  BY <1>1 DEF Persisted
<1>4. Changes(o, Starting(sessions[o]).history)
  BY <1>2, <1>3, HandsOut
<1>5. Changes(o, sessions[o].history)
  BY <1>2, <1>4, SameHistory
<1> QED BY <1>2, <1>3, <1>5, ChangeUnsaved

LEMMA ClosedSaves ==
  ASSUME IInv, HistoryIsSaved, NEW h \in Threads, Closed(h) PROVE HistoryIsSaved'
<1>1. PICK t : t = op[h].term
  OBVIOUS
<1>2. /\ sessionOf \in [Terminals -> Nat] /\ file \in [Terminals -> Histories]
      /\ sessionOf' = [sessionOf EXCEPT ![t] = 0]
      /\ file' \in {[file EXCEPT ![t] = <<>>], file} /\ UNCHANGED <<sessions, toWrite, strays>>
  BY <1>1 DEF IInv, Typed, Closed
<1>3. \A u \in Terminals : Untouched(u) \/ Recorded(u)
  BY <1>2 DEF Untouched, Recorded
<1> QED BY <1>2, <1>3, Remembers

LEMMA SpawnSaves ==
  ASSUME IInv, HistoryIsSaved, NEW h \in Threads, Spawn(h) PROVE HistoryIsSaved'
<1>1. PICK o : o = op[h].obj
  OBVIOUS
<1>2. o \in DOMAIN sessions /\ sessions[o] \in SessionType
  BY <1>1, OperatesOn DEF Spawn
<1>3. UNCHANGED <<toWrite, file>>
  BY DEF Spawn
<1>4. PICK s : s.history = sessions[o].history /\ (Settle(o, s) \/ Update(o, s))
  <2>1. CASE Update(o, [sessions[o] EXCEPT !.proc = Len(shells'), !.status = "running"])
    <3>1. PICK s : s = [sessions[o] EXCEPT !.proc = Len(shells'), !.status = "running"]
      OBVIOUS
    <3>2. s.history = sessions[o].history
      BY <1>2, <3>1 DEF SessionType
    <3> QED BY <2>1, <3>1, <3>2
  <2>2. CASE Settle(o, [Stopped(sessions[o]) EXCEPT !.status = "error"])
    <3>1. PICK s : s = [Stopped(sessions[o]) EXCEPT !.status = "error"]
      OBVIOUS
    <3>2. Stopped(sessions[o]) \in SessionType
      BY <1>2, Objects
    <3>3. s.history = sessions[o].history
      BY <1>2, <3>1, <3>2, SameHistory DEF SessionType
    <3> QED BY <2>2, <3>1, <3>3
  <2> QED BY <1>1, <2>1, <2>2 DEF Spawn
<1>5. Changes(o, sessions[o].history)
  BY <1>2, <1>4, HandsOut
<1> QED BY <1>2, <1>3, <1>5, ChangeUnsaved

LEMMA EnqueueSaves ==
  ASSUME IInv, HistoryIsSaved, NEW p \in DOMAIN shells, NEW event, EnqueueEvent(p, event),
         UNCHANGED <<sessionOf, toWrite, file, strays>>
  PROVE  HistoryIsSaved'
<1>1. PICK o : o = shells[p].of
  OBVIOUS
<1>2. o \in DOMAIN sessions /\ sessions[o] \in SessionType
  BY <1>1 DEF IInv, Typed, Owned, ShellsOwned
<1>3. PICK s : s = [sessions[o] EXCEPT !.pending = Append(@, event), !.draining = TRUE]
  OBVIOUS
<1>4. s.history = sessions[o].history
  BY <1>2, <1>3 DEF SessionType
<1>5. sessions' = [sessions EXCEPT ![o] = s]
  BY <1>1, <1>3 DEF EnqueueEvent
<1>6. Changes(o, s.history)
  BY <1>2, <1>5, InPlace
<1>7. Changes(o, sessions[o].history)
  BY <1>4, <1>6
<1> QED BY <1>2, <1>7, ChangeUnsaved

(* Only the current session of a terminal has a process to take output of. *)
LEMMA TakeSaves ==
  ASSUME IInv, HistoryIsSaved, NEW d \in Drains, TakeEvent(d) PROVE HistoryIsSaved'
<1>1. PICK o : o = drains[d].obj
  OBVIOUS
<1>2. PICK s : s = sessions[o]
  BY Zenon
<1>3. Typed /\ Typed' /\ Owned /\ drains[d].step = "take" /\ UNCHANGED file
  BY Zenon, TakeKeeps DEF IInv, TakeEvent
<1>4. o \in DOMAIN sessions /\ s \in SessionType
  <2>1. drains[d] # NoDrain
    BY <1>3 DEF NoDrain
  <2> QED BY <1>1, <1>2, <1>3, <2>1 DEF Owned, DrainsKnow, Typed
<1>5. CASE /\ sessions' = [sessions EXCEPT ![o] = Undrained(s)]
           /\ UNCHANGED <<sessionOf, toWrite, strays>>
  <2>1. Changes(o, Undrained(s).history)
    BY <1>4, <1>5, InPlace
  <2>2. Changes(o, sessions[o].history)
    BY <1>2, <1>4, <2>1, SameHistory
  <2> QED BY <1>3, <1>4, <1>5, <2>2, ChangeUnsaved
<1>6. CASE /\ s.status = "running"
           /\ Update(o, [[s EXCEPT !.pending = Tail(@)] EXCEPT !.history = Append(@, s.proc)])
           /\ Persist(s.term, sessions'[o].history)
  <2>1. PICK t \in Terminals : t = s.term
    BY <1>4 DEF SessionType
  <2>2. sessionOf[t] = o \/ t \in strays
    BY <1>2, <1>3, <1>4, <1>6, <2>1 DEF Owned, SessionsOwn, Sound, Current
  <2>3. PICK history : history = sessions'[o].history
    OBVIOUS
  <2>4. PICK n : n = [[s EXCEPT !.pending = Tail(@)] EXCEPT !.history = Append(@, s.proc)]
    OBVIOUS
  <2>5. Changes(o, n.history)
    BY <1>4, <1>6, <2>4, HandsOut
  <2>6. Changes(o, history)
    BY <2>3, <2>5 DEF Changes
  <2>7. history \in Histories
    <3>1. DOMAIN sessions' = DOMAIN sessions
      BY <1>6 DEF Update, Becomes
    <3>2. sessions'[o] \in SessionType
      BY <1>3, <1>4, <3>1 DEF Typed
    <3> QED BY <2>3, <3>2 DEF SessionType
  <2>8. Writes(t, history)
    BY <1>3, <1>6, <2>1, <2>3, <2>7, Queued
  <2> QED BY <1>2, <1>4, <2>1, <2>2, <2>6, <2>8, ChangeSaved
<1>7. CASE Update(o, Stopped(s)) /\ UNCHANGED toWrite
  <2>1. Changes(o, Stopped(s).history)
    BY <1>4, <1>7, HandsOut
  <2>2. Changes(o, sessions[o].history)
    BY <1>2, <1>4, <2>1, SameHistory
  <2> QED BY <1>3, <1>4, <1>7, <2>2, ChangeUnsaved
<1> QED BY <1>1, <1>2, <1>5, <1>6, <1>7 DEF TakeEvent

LEMMA PublishedSaves ==
  ASSUME HistoryIsSaved, NEW d \in Drains, Published(d) PROVE HistoryIsSaved'
<1>1. UNCHANGED <<sessions, toWrite, file>>
  BY DEF Published
<1>2. strays \subseteq strays' /\ \A t \in Terminals : sessionOf'[t] \in {0, sessionOf[t]}
  BY EvictsOnly DEF Published
<1> QED BY <1>1, <1>2, MapShrinks

LEMMA PolledSaves ==
  ASSUME IInv, HistoryIsSaved, NEW active \in BOOLEAN, Polled(active) PROVE HistoryIsSaved'
<1>1. PICK o : o = sessionOf[poll.term]
  OBVIOUS
<1>2. PICK busy : busy = IF active THEN poll.proc ELSE 0
  OBVIOUS
<1>3. UNCHANGED <<toWrite, file>> /\ Typed /\ Owned /\ poll # None
  BY DEF IInv, Polled
<1>4. CASE UNCHANGED <<sessionOf, sessions, strays>>
  BY <1>3, <1>4, NothingSaved
<1>5. CASE o # 0 /\ Update(o, [sessions[o] EXCEPT !.busy = busy])
  <2>1. poll.term \in Terminals
    BY <1>3 DEF Typed, PollType
  <2>2. o \in DOMAIN sessions /\ sessions[o] \in SessionType
    BY <1>1, <1>3, <1>5, <2>1, SessionOf
  <2>3. PICK s : s = [sessions[o] EXCEPT !.busy = busy]
    OBVIOUS
  <2>4. s.history = sessions[o].history
    BY <2>2, <2>3 DEF SessionType
  <2>5. Changes(o, s.history)
    BY <1>5, <2>2, <2>3, HandsOut
  <2>6. Changes(o, sessions[o].history)
    BY <2>4, <2>5
  <2> QED BY <1>3, <2>2, <2>6, ChangeUnsaved
<1> QED BY <1>1, <1>2, <1>4, <1>5 DEF Polled

LEMMA WriteFileSaves ==
  ASSUME IInv, HistoryIsSaved, NEW t \in Terminals, WriteFile(t) PROVE HistoryIsSaved'
<1>1. /\ toWrite[t] # None /\ toWrite' = [toWrite EXCEPT ![t] = None]
      /\ file' = [file EXCEPT ![t] = toWrite[t]] /\ UNCHANGED <<sessionOf, sessions, strays>>
      /\ DOMAIN toWrite = Terminals /\ DOMAIN file = Terminals
  BY DEF IInv, Typed, WriteFile
<1>2. \A u \in Terminals : Saved(u)' = Saved(u)
  BY <1>1 DEF Saved
<1> QED BY <1>1, <1>2 DEF HistoryIsSaved

(* Whatever is evicted, closed, killed or written late: what a session in  *)
(* the map shows as its history is in the file of its terminal, or waits   *)
(* to be written there; so a terminal that is opened again reads it.       *)
THEOREM HistoriesAreSaved == Spec => []HistoryIsSaved
<1>1. Init => HistoryIsSaved
  BY DEF Init, HistoryIsSaved
<1>2. ASSUME IInv, HistoryIsSaved, [Next]_vars PROVE HistoryIsSaved'
  <2>1. ASSUME NEW t \in Terminals,
               \/ OpenNew(t) \/ Restart(t) \/ Clear(t) \/ Poll(t)
               \/ \E b \in BOOLEAN : OpenAgain(t, b) \/ Close(t, b)
        PROVE  HistoryIsSaved'
    BY <1>2, <2>1, OpeningSaves
  <2>2. ASSUME NEW p \in DOMAIN shells, Emit(p) \/ Exit(p) PROVE HistoryIsSaved'
    BY <1>2, <2>2, EnqueueSaves, NothingSaved DEF Emit, Exit
  <2>3. ASSUME NEW h \in Threads, Cleared(h) PROVE HistoryIsSaved'
    BY <1>2, <2>3, NothingSaved DEF Cleared
  <2>4. ASSUME NEW p \in DOMAIN shells, Kill(p) PROVE HistoryIsSaved'
    BY <1>2, <2>4, NothingSaved DEF Kill
  <2>5. CASE Run
    BY <1>2, <2>3, <2>4, <2>5, ReadHistorySaves, PersistedSaves, ClosedSaves, SpawnSaves,
       WriteFileSaves, TakeSaves, PublishedSaves, PolledSaves DEF Run
  <2>6. CASE UNCHANGED vars
    BY <1>2, <2>6, NothingSaved DEF vars
  <2> QED BY <1>2, <2>1, <2>2, <2>5, <2>6 DEF Next
<1> QED BY <1>1, <1>2, Inductive, PTL DEF Spec

-----------------------------------------------------------------------------
(* The worker that writes the histories, for any keys and however many     *)
(* items are enqueued.                                                     *)
(*                                                                         *)
(* Where a key is recorded: a key in the queue is in queuedKeys, and so is *)
(* the key the fiber has taken or is about to offer again, which is not in *)
(* the queue; the key the fiber processes is in activeKeys.                *)
KeysRecorded ==
  /\ \A i \in DOMAIN queue : queue[i] \in queuedKeys
  /\ worker.step \in {"taken", "requeue"} =>
       /\ worker.key \in queuedKeys
       /\ \A i \in DOMAIN queue : queue[i] # worker.key
  /\ worker.step \in {"processing", "succeeded", "failed"} => worker.key \in activeKeys

WorkerInv == WorkerTypeOK /\ NothingLost /\ KeyQueuedOnce /\ KeysRecorded

LEMMA WorkerStarts == WorkerInit => WorkerInv
<1> SUFFICES ASSUME WorkerInit PROVE WorkerInv
  OBVIOUS
<1> USE DEF WorkerInit, AtRest
<1>1. WorkerTypeOK
  BY DEF WorkerTypeOK
<1>2. NothingLost
  BY DEF NothingLost, InHand
<1>3. KeyQueuedOnce /\ KeysRecorded
  BY DEF KeyQueuedOnce, KeysRecorded
<1> QED
  BY <1>1, <1>2, <1>3 DEF WorkerInv

(* The fiber's position is one of three shapes, with a key but when idle.  *)
LEMMA WorkerShape ==
  ASSUME WorkerTypeOK
  PROVE  /\ worker = AtRest => worker.step = "idle" /\ worker.value = {}
         /\ worker.step # "idle" => worker.key \in Keys
         /\ worker.step \in {"processing", "succeeded", "failed"}
              => worker.value \in SUBSET Nat /\ worker.value # {}
  BY DEF WorkerTypeOK, AtRest

LEMMA WorkerStaysTyped == WorkerInv /\ [WorkerNext]_workerVars => WorkerTypeOK'
<1> SUFFICES ASSUME WorkerInv, [WorkerNext]_workerVars PROVE WorkerTypeOK'
  OBVIOUS
<1>0. WorkerTypeOK /\ NothingLost
  BY DEF WorkerInv
<1> USE <1>0, WorkerShape DEF Fiber
<1>1. ASSUME NEW k \in Keys, Enqueue(k) PROVE WorkerTypeOK'
  <2>1. queue' \in Seq(Keys) /\ queuedKeys' \subseteq Keys
    <3>1. Append(queue, k) \in Seq(Keys)
      BY DEF WorkerTypeOK
    <3> QED
      BY <1>1, <3>1 DEF Enqueue, WorkerTypeOK
  <2>2. enqueued' \in [Keys -> Nat] /\ latestByKey' \in [Keys -> SUBSET Nat]
    BY <1>1 DEF Enqueue, WorkerTypeOK, Merged
  <2> QED
    BY <1>1, <2>1, <2>2 DEF Enqueue, WorkerTypeOK
<1>2. CASE Take
  <2>1. Head(queue) \in Keys /\ Tail(queue) \in Seq(Keys)
    BY <1>2 DEF Take, WorkerTypeOK
  <2> QED
    BY <1>2, <2>1 DEF Take, WorkerTypeOK
<1>3. CASE Begin
  BY SMTT(30), <1>3 DEF Begin, WorkerTypeOK
<1>4. ASSUME NEW step \in {"succeeded", "failed"}, Finish(step) PROVE WorkerTypeOK'
  BY <1>4 DEF Finish, WorkerTypeOK
<1>5. CASE Continue
  <2>1. worker.key \in Keys
    BY <1>5 DEF Continue
  <2>2. latestByKey[worker.key] \in SUBSET Nat
    BY <2>1 DEF WorkerTypeOK
  <2>3. CASE GoesOn(worker.key)
    BY <1>5, <2>1, <2>2, <2>3 DEF Continue, GoesOn, WorkerTypeOK
  <2>4. CASE ~GoesOn(worker.key)
    BY <1>5, <2>4 DEF Continue, WorkerTypeOK
  <2> QED
    BY <2>3, <2>4
<1>6. CASE CleanUp
  BY <1>6 DEF CleanUp, Requeues, WorkerTypeOK
<1>7. CASE Requeue
  <2>1. worker.key \in Keys
    BY <1>7 DEF Requeue
  <2>2. Append(queue, worker.key) \in Seq(Keys)
    BY <2>1 DEF WorkerTypeOK
  <2> QED
    BY <1>7, <2>2 DEF Requeue, WorkerTypeOK
<1>8. CASE UNCHANGED workerVars
  BY <1>8 DEF workerVars, WorkerTypeOK
<1> QED
  BY <1>1, <1>2, <1>3, <1>4, <1>5, <1>6, <1>7, <1>8 DEF WorkerNext, Work

LEMMA WorkerLosesNothing == WorkerInv /\ [WorkerNext]_workerVars => NothingLost'
<1> SUFFICES ASSUME WorkerInv, [WorkerNext]_workerVars, NEW k \in Keys
             PROVE  /\ settled'[k] \cup InHand(k)' \cup latestByKey'[k] = 1..enqueued'[k]
                    /\ \A i \in settled'[k], j \in InHand(k)' \cup latestByKey'[k] : i < j
                    /\ \A i \in InHand(k)', j \in latestByKey'[k] : i < j
  BY DEF NothingLost
<1>0. WorkerTypeOK /\ NothingLost
  BY DEF WorkerInv
<1> USE <1>0, WorkerShape DEF Fiber
<1>1. ASSUME NEW q \in Keys, Enqueue(q) PROVE
             /\ settled'[k] \cup InHand(k)' \cup latestByKey'[k] = 1..enqueued'[k]
             /\ \A i \in settled'[k], j \in InHand(k)' \cup latestByKey'[k] : i < j
             /\ \A i \in InHand(k)', j \in latestByKey'[k] : i < j
  <2>1. settled'[k] = settled[k] /\ InHand(k)' = InHand(k)
    BY <1>1 DEF Enqueue, InHand
  <2>2. CASE q = k
    <3>1. /\ latestByKey'[k] = latestByKey[k] \cup {enqueued[k] + 1}
          /\ enqueued'[k] = enqueued[k] + 1 /\ enqueued[k] \in Nat
      BY <1>1, <2>2 DEF Enqueue, Merged, WorkerTypeOK
    <3>2. 1..(enqueued[k] + 1) = (1..enqueued[k]) \cup {enqueued[k] + 1}
      BY <3>1
    <3>3. \A i \in settled[k] \cup InHand(k) : i < enqueued[k] + 1
      BY <3>1 DEF NothingLost
    <3> QED
      BY <2>1, <3>1, <3>2, <3>3 DEF NothingLost
  <2>3. CASE q # k
    BY <1>1, <2>1, <2>3 DEF Enqueue, NothingLost, WorkerTypeOK
  <2> QED
    BY <2>2, <2>3
<1>2. ASSUME Take \/ CleanUp \/ Requeue PROVE
             /\ settled'[k] = settled[k] /\ InHand(k)' = InHand(k)
             /\ latestByKey'[k] = latestByKey[k] /\ enqueued'[k] = enqueued[k]
  BY <1>2 DEF Take, CleanUp, Requeue, InHand, AtRest
<1>3. ASSUME Begin \/ Continue PROVE
             /\ settled'[k] = settled[k] /\ enqueued'[k] = enqueued[k] /\ InHand(k) = {}
             /\ \/ InHand(k)' = {} /\ latestByKey'[k] = latestByKey[k]
                \/ InHand(k)' = latestByKey[k] /\ latestByKey'[k] = {}
  BY <1>3 DEF Begin, Continue, InHand, AtRest, WorkerTypeOK
<1>4. ASSUME NEW step \in {"succeeded", "failed"}, Finish(step) PROVE
             /\ settled'[k] = settled[k] \cup InHand(k) /\ InHand(k)' = {}
             /\ latestByKey'[k] = latestByKey[k] /\ enqueued'[k] = enqueued[k]
  BY <1>4 DEF Finish, InHand, WorkerTypeOK
<1>5. ASSUME UNCHANGED workerVars PROVE
             /\ settled'[k] = settled[k] /\ InHand(k)' = InHand(k)
             /\ latestByKey'[k] = latestByKey[k] /\ enqueued'[k] = enqueued[k]
  BY <1>5 DEF workerVars, InHand
<1>6. /\ settled[k] \cup InHand(k) \cup latestByKey[k] = 1..enqueued[k]
      /\ \A i \in settled[k], j \in InHand(k) \cup latestByKey[k] : i < j
      /\ \A i \in InHand(k), j \in latestByKey[k] : i < j
  BY DEF NothingLost
<1> QED
  BY <1>1, <1>2, <1>3, <1>4, <1>5, <1>6 DEF WorkerNext, Work

LEMMA WorkerRecorded == WorkerInv /\ [WorkerNext]_workerVars => KeyQueuedOnce' /\ KeysRecorded'
<1> SUFFICES ASSUME WorkerInv, [WorkerNext]_workerVars PROVE KeyQueuedOnce' /\ KeysRecorded'
  OBVIOUS
<1>0. WorkerTypeOK /\ KeyQueuedOnce /\ KeysRecorded
  BY DEF WorkerInv
<1> USE <1>0, WorkerShape DEF Fiber, AtRest
<1>a. ASSUME NEW k \in Keys, queue' = Append(queue, k), \A i \in DOMAIN queue : queue[i] # k
      PROVE  /\ KeyQueuedOnce'
             /\ \A i \in DOMAIN queue' :
                  queue'[i] = k \/ \E j \in DOMAIN queue : queue'[i] = queue[j]
  <2>1. /\ Len(queue) \in Nat /\ DOMAIN queue = 1..Len(queue)
        /\ DOMAIN queue' = 1..(Len(queue) + 1)
        /\ \A i \in 1..Len(queue) : queue'[i] = queue[i]
        /\ queue'[Len(queue) + 1] = k
    BY <1>a DEF WorkerTypeOK
  <2> QED
    BY <1>a, <2>1 DEF KeyQueuedOnce
<1>1. ASSUME NEW k \in Keys, Enqueue(k) PROVE KeyQueuedOnce' /\ KeysRecorded'
  <2>1. CASE Offers(k)
    <3>1. \A i \in DOMAIN queue : queue[i] # k
      BY <2>1 DEF Offers, KeysRecorded
    <3>2. queue' = Append(queue, k) /\ queuedKeys' = queuedKeys \cup {k}
      BY <1>1, <2>1 DEF Enqueue
    <3>3. worker' = worker /\ activeKeys' = activeKeys
      BY <1>1 DEF Enqueue
    <3>4. worker.step \in {"taken", "requeue"} => worker.key # k
      BY <2>1 DEF Offers, KeysRecorded
    <3> QED
      BY <1>a, <3>1, <3>2, <3>3, <3>4 DEF KeysRecorded
  <2>2. CASE ~Offers(k)
    BY <1>1, <2>2 DEF Enqueue, KeyQueuedOnce, KeysRecorded
  <2> QED
    BY <2>1, <2>2
<1>2. CASE Take
  <2>1. /\ Len(queue) \in Nat /\ DOMAIN queue = 1..Len(queue) /\ 1 \in DOMAIN queue
        /\ DOMAIN queue' = 1..(Len(queue) - 1)
        /\ \A i \in 1..(Len(queue) - 1) : queue'[i] = queue[i + 1]
        /\ worker'.key = queue[1] /\ worker'.step = "taken"
    BY <1>2 DEF Take, WorkerTypeOK
  <2>2. \A i \in DOMAIN queue' : i + 1 \in DOMAIN queue /\ i + 1 # 1
    BY <2>1
  <2> HIDE DEF Fiber
  <2> QED
    BY <1>2, <2>1, <2>2 DEF Take, KeyQueuedOnce, KeysRecorded
<1>3. CASE Begin
  BY <1>3 DEF Begin, KeyQueuedOnce, KeysRecorded
<1>4. ASSUME NEW step \in {"succeeded", "failed"}, Finish(step) PROVE KeyQueuedOnce' /\ KeysRecorded'
  BY <1>4 DEF Finish, KeyQueuedOnce, KeysRecorded
<1>5. CASE Continue
  BY <1>5 DEF Continue, KeyQueuedOnce, KeysRecorded
<1>6. CASE CleanUp
  BY <1>6 DEF CleanUp, Requeues, KeyQueuedOnce, KeysRecorded
<1>7. CASE Requeue
  <2>1. \A i \in DOMAIN queue : queue[i] # worker.key
    BY <1>7 DEF Requeue, KeysRecorded
  <2> QED
    BY <1>7, <1>a, <2>1 DEF Requeue, KeysRecorded
<1>8. CASE UNCHANGED workerVars
  BY <1>8 DEF workerVars, KeyQueuedOnce, KeysRecorded
<1> QED
  BY <1>1, <1>2, <1>3, <1>4, <1>5, <1>6, <1>7, <1>8 DEF WorkerNext, Work

LEMMA WorkerInvariant == WorkerSpec => []WorkerInv
<1>1. WorkerInv /\ [WorkerNext]_workerVars => WorkerInv'
  BY WorkerStaysTyped, WorkerLosesNothing, WorkerRecorded DEF WorkerInv
<1> QED
  BY WorkerStarts, <1>1, PTL DEF WorkerSpec

(* No item is lost, processed twice or overtaken by an older one.          *)
THEOREM ItemsAreKept == WorkerSpec => []NothingLost
<1>1. WorkerInv => NothingLost
  BY DEF WorkerInv
<1> QED
  BY WorkerInvariant, <1>1, PTL

(* The queue is no longer than there are keys.                             *)
THEOREM QueueIsShort == WorkerSpec => []KeyQueuedOnce
<1>1. WorkerInv => KeyQueuedOnce
  BY DEF WorkerInv
<1> QED
  BY WorkerInvariant, <1>1, PTL

(* drainKey returns only when everything enqueued for the key is processed *)
THEOREM DrainIsComplete == WorkerSpec => []DrainMeansDone
<1>1. WorkerInv => DrainMeansDone
  BY DEF WorkerInv, NothingLost, KeysRecorded, DrainMeansDone, Drained, InHand
<1> QED
  BY WorkerInvariant, <1>1, PTL
=============================================================================
