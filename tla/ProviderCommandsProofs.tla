------------------------ MODULE ProviderCommandsProofs -------------------------
(***************************************************************************)
(* However many requests, failures, crashes and sweeps there are: all      *)
(* turns of a thread go to one conversation, and the stored binding leads  *)
(* back to it.                                                             *)
(***************************************************************************)
EXTENDS ProviderCommands, TLAPS

Fibers == Worker..Reaper
Events ==
  [type : {"session.started", "session.exited", "turn.started", "turn.completed"},
   turn : Turns \cup {None}]
Lives == [conversation : Conversations, turn : Turns \cup {None}, mode : Modes]
Rows ==
  [status : {"running", "stopped"}, cursor : Nat \cup {None}, mode : Modes \cup {None}]

EventsTyped ==
  runtime \in Seq(Events) /\ ingesting \in [event : Events, seen : SessionType] \cup {None}

(* What a fiber has read by the time it makes a step.                      *)
Knows(x, f) ==
  /\ x.op = "send" => f \in Turns
  /\ x.op \in {"turn", "send"} => x.turn \in Turns
  /\ x.step \in {"ensure", "find", "start", "bind"} => f = Worker
  /\ x.step = "deliver" => f \in Turns
  /\ x.step \in {"recover", "report"} => x.op \in {"turn", "send"}
  /\ x.step \in {"find", "start", "recoverSession", "read", "write", "bind"} => x.put # None
  /\ x.step \in {"find", "start", "recoverSession"} => x.put.mode \in Modes
  /\ x.step \in {"find", "report"} => x.seen \in SessionType
  /\ x.step = "write" /\ x.seen # None => x.seen \in Rows /\ x.seen.mode \in Modes
  /\ x.step \in {"start", "recoverSession", "read", "write"} =>
       /\ x.after \in {"bind", "deliver", "interrupt", "unbind", "done"}
       /\ x.after = "bind" => f = Worker
       /\ x.after = "deliver" => f \in Turns

(* Before the thread has a binding b only the worker can be writing one,   *)
(* and it writes the conversation of the session l that runs.  Afterwards  *)
(* every cursor that a fiber has in hand is that of the binding.           *)
Follows(x, f, b, l) ==
  /\ b = None =>
       /\ x.step \notin {"recoverSession", "deliver", "interrupt", "halt"}
       /\ x.step \in {"read", "write"} =>
            /\ f = Worker /\ x.put.cursor # None
            /\ l # None => l.conversation = x.put.cursor
       /\ x.step = "write" => x.seen = None
  /\ b # None =>
       /\ x.step \in {"find", "start", "read", "write"} => x.put.cursor \in {None, b.cursor}
       /\ x.step = "recoverSession" => x.put.cursor = b.cursor
       /\ x.step = "write" => x.seen # None /\ x.seen.cursor = b.cursor

Good(x, f, b, l) == x # Idle => Knows(x, f) /\ Follows(x, f, b, l)

FibersFollow == \A f \in Fibers : Good(fibers[f], f, binding, live)

OneConversation ==
  /\ binding = None => handed = {}
  /\ binding # None => /\ binding.mode \in Modes /\ binding.cursor # None
                       /\ live # None => live.conversation = binding.cursor
                       /\ \A h \in handed : h.conversation = binding.cursor

IInv == TypeOK /\ EventsTyped /\ FibersFollow /\ OneConversation

-----------------------------------------------------------------------------
(* Types.                                                                  *)
LEMMA NoneIsNothing ==
  /\ None \notin Turns /\ None \notin Modes
  /\ conversations \in Nat =>
       None \notin Conversations /\ None \notin BindingType /\ None \notin Lives
  /\ conversations \in Nat => BindingType \subseteq Rows
  /\ Worker \in Fibers /\ Worker \notin Turns /\ Turns \subseteq Fibers
<1>1. Worker \in Fibers /\ Worker \notin Turns /\ Turns \subseteq Fibers
      /\ Turns \subseteq Nat /\ (conversations \in Nat => Conversations \subseteq Nat)
  BY RequestAssumption DEF Fibers, Worker, Reaper, Turns, Conversations
<1>2. None \notin Turns /\ None \notin Modes /\ (conversations \in Nat => None \notin Conversations)
  BY <1>1, RequestAssumption
<1>3. conversations \in Nat => BindingType \subseteq Rows
  BY <1>1 DEF BindingType, Rows
<1>4. ASSUME conversations \in Nat, None \in Lives PROVE FALSE
  <2>1. Lives \subseteq [conversation : Nat, turn : Nat \cup {None}, mode : Modes]
    BY <1>1, <1>4 DEF Lives
  <2> QED BY <2>1, <1>4, RequestAssumption
<1> QED BY <1>1, <1>2, <1>3, <1>4, RequestAssumption DEF Rows

LEMMA Grows ==
  ASSUME conversations \in Nat, conversations' \in Nat, conversations <= conversations'
  PROVE  /\ Conversations \subseteq Conversations'
         /\ BindingType \subseteq BindingType' /\ FiberType \subseteq FiberType'
         /\ Lives \subseteq Lives'
         /\ [turn : Turns, conversation : Conversations]
              \subseteq [turn : Turns, conversation : Conversations]'
<1>1. Conversations \subseteq Conversations'
  BY DEF Conversations
<1>2. BindingType \subseteq BindingType'
  BY <1>1 DEF BindingType
<1>3. FiberType \subseteq FiberType'
  BY <1>2 DEF FiberType
<1> QED BY <1>1, <1>2, <1>3 DEF Lives

LEMMA FiberFields ==
  ASSUME NEW x \in FiberType
  PROVE  /\ x # Idle /\ x.op \in Ops /\ x.turn \in Turns \cup {None} /\ x.step \in Steps
         /\ x.seen \in SessionType \cup BindingType \cup {None}
         /\ x.put \in BindingType \cup {None} /\ x.after \in Steps \cup {"done", None}
BY DEF FiberType, Idle, Ops

LEMMA NewFiber ==
  ASSUME NEW op \in Ops, NEW turn \in Turns \cup {None}, NEW step \in Steps
  PROVE  Fiber(op, turn, step) \in FiberType
BY DEF FiberType, Fiber

(* What a fiber knows before it makes a step.                              *)
LEMMA AtStep ==
  ASSUME IInv, NEW f \in Fibers, NEW step, At(f, step)
  PROVE  /\ fibers[f] \in FiberType /\ fibers[f] # Idle /\ fibers[f].step = step
         /\ Knows(fibers[f], f) /\ Follows(fibers[f], f, binding, live)
BY DEF IInv, TypeOK, FibersFollow, Good, At, Fibers

-----------------------------------------------------------------------------
(* A step of one fiber: the others go on as before if they could not be    *)
(* writing the binding or if the conversation stays the same.              *)
LEMMA StillFollows ==
  ASSUME NEW x, NEW f, NEW b, NEW l, NEW c, NEW m, Good(x, f, b, l),
         \/ b # None /\ c # None /\ c.cursor = b.cursor
         \/ b = None /\ f # Worker
         \/ b = None /\ c = None /\ (m # None => l # None /\ m.conversation = l.conversation)
  PROVE  Good(x, f, c, m)
BY DEF Good, Knows, Follows

Moves(f, x) == fibers' = [fibers EXCEPT ![f] = x]

Undisturbed(f) ==
  \/ binding # None /\ binding' # None /\ binding'.cursor = binding.cursor
  \/ binding = None /\ f = Worker
  \/ binding = None /\ binding' = None
     /\ (live' # None => live # None /\ live'.conversation = live.conversation)

LEMMA OneMoves ==
  ASSUME IInv, NEW f \in Fibers, NEW x \in FiberType' \cup {Idle}, Moves(f, x),
         Good(x, f, binding', live'), Undisturbed(f),
         conversations' \in Nat, conversations <= conversations'
  PROVE  FibersFollow' /\ fibers' \in [Fibers -> FiberType' \cup {Idle}]
<1>1. fibers \in [Fibers -> FiberType \cup {Idle}] /\ conversations \in Nat
  BY DEF IInv, TypeOK, Fibers
<1>2. FiberType \subseteq FiberType'
  BY <1>1, Grows
<1>3. fibers' \in [Fibers -> FiberType' \cup {Idle}]
  BY <1>1, <1>2 DEF Moves
<1>4. ASSUME NEW g \in Fibers PROVE Good(fibers'[g], g, binding', live')
  <2>1. CASE g = f
    BY <1>1, <2>1 DEF Moves
  <2>2. CASE g # f
    <3>1. fibers'[g] = fibers[g] /\ Good(fibers[g], g, binding, live)
      BY <1>1, <2>2 DEF Moves, IInv, FibersFollow
    <3> QED
      BY <2>2, <3>1, StillFollows DEF Undisturbed
  <2> QED BY <2>1, <2>2
<1> QED BY <1>3, <1>4 DEF FibersFollow

-----------------------------------------------------------------------------
(* Steps that change no more than what fibers know.                        *)
LEMMA OnlyFibers ==
  ASSUME IInv, FibersFollow', fibers' \in [Fibers -> FiberType' \cup {Idle}],
         UNCHANGED <<readModel, session, binding, provider, ingestion, history>>,
         queue' \in Seq(Turns)
  PROVE  IInv'
<1>1. TypeOK'
  BY DEF IInv, TypeOK, readModel, provider, ingestion, history, Fibers, FiberType, BindingType,
         Conversations
<1>2. EventsTyped' /\ OneConversation'
  BY DEF IInv, EventsTyped, OneConversation, provider, ingestion, history
<1> QED BY <1>1, <1>2 DEF IInv

LEMMA OneThinks ==
  ASSUME IInv, NEW f \in Fibers, NEW x \in FiberType \cup {Idle}, Moves(f, x),
         Good(x, f, binding, live),
         UNCHANGED <<readModel, session, binding, provider, ingestion, history>>,
         queue' \in Seq(Turns)
  PROVE  IInv'
<1>1. conversations \in Nat /\ conversations' = conversations /\ binding' = binding /\ live' = live
  BY DEF IInv, TypeOK, provider
<1>2. conversations' \in Nat /\ conversations <= conversations'
  BY <1>1
<1>3. x \in FiberType' \cup {Idle}
  BY <1>1, <1>2, Grows
<1>4. Undisturbed(f)
  BY <1>1 DEF Undisturbed, IInv, OneConversation
<1>5. FibersFollow' /\ fibers' \in [Fibers -> FiberType' \cup {Idle}]
  BY <1>1, <1>2, <1>3, <1>4, OneMoves
<1> QED BY <1>5, OnlyFibers

LEMMA EnsureKeeps == ASSUME IInv, NEW f \in Fibers, Ensure(f) PROVE IInv'
<1> DEFINE x == [fibers[f] EXCEPT !.step = "find", !.seen = session,
                                  !.put = Binding("running", None, mode)]
<1>1. /\ fibers[f] \in FiberType /\ fibers[f].step = "ensure" /\ Knows(fibers[f], f)
  BY AtStep DEF Ensure
<1>2. session \in SessionType /\ mode \in Modes /\ queue' \in Seq(Turns)
  BY DEF IInv, TypeOK, Ensure
<1>3. Binding("running", None, mode) \in BindingType
  BY <1>2 DEF Binding, BindingType
<1>4. /\ x \in FiberType /\ x.step = "find" /\ x.seen = session /\ x.op = fibers[f].op
      /\ x.turn = fibers[f].turn /\ x.put = Binding("running", None, mode)
  BY <1>1, <1>2, <1>3 DEF FiberType, Steps
<1>5. Moves(f, x)
  BY DEF Ensure, Moves
<1> HIDE DEF x
<1>6. Good(x, f, binding, live)
  <2>1. x.put # None
    BY <1>3, <1>4, NoneIsNothing DEF IInv, TypeOK
  <2> QED
    BY <1>1, <1>2, <1>4, <2>1 DEF Good, Knows, Follows, Binding
<1> QED
  BY <1>2, <1>4, <1>5, <1>6, OneThinks DEF Ensure, readModel, provider, ingestion, history

(* The worker ends its request, or hands it to the sender of the turn.     *)
LEMMA PreparedKeeps ==
  ASSUME IInv, fibers[Worker] \in FiberType, Knows(fibers[Worker], Worker), Prepared(Worker),
         UNCHANGED <<binding, live, conversations>>
  PROVE  FibersFollow' /\ fibers' \in [Fibers -> FiberType' \cup {Idle}]
<1> DEFINE t == fibers[Worker].turn
           send == Fiber("send", t, "route")
<1>1. /\ fibers \in [Fibers -> FiberType \cup {Idle}] /\ FiberType' = FiberType
      /\ Worker \in Fibers /\ Turns \subseteq Fibers /\ Worker \notin Turns
  BY NoneIsNothing DEF IInv, TypeOK, Fibers, FiberType, BindingType, Conversations
<1>2. CASE fibers[Worker].op = "turn"
  <2>1. t \in Turns /\ send \in FiberType
    BY <1>2, NewFiber DEF Knows, Ops, Steps
  <2>2. Good(send, t, binding, live)
    BY <2>1 DEF Good, Knows, Follows, Fiber
  <2>3. fibers' = [fibers EXCEPT ![Worker] = Idle, ![t] = send]
    BY <1>2 DEF Prepared
  <2> HIDE DEF t, send
  <2>4. fibers' \in [Fibers -> FiberType' \cup {Idle}]
    BY <1>1, <2>1, <2>3
  <2>5. ASSUME NEW g \in Fibers PROVE Good(fibers'[g], g, binding', live')
    <3>1. CASE g = t
      BY <1>1, <2>1, <2>2, <2>3, <3>1
    <3>2. CASE g = Worker
      BY <1>1, <2>1, <2>3, <3>2 DEF Good
    <3>3. CASE g # t /\ g # Worker
      BY <1>1, <2>1, <2>3, <3>3 DEF IInv, FibersFollow
    <3> QED BY <3>1, <3>2, <3>3
  <2> QED BY <2>4, <2>5 DEF FibersFollow
<1>3. CASE fibers[Worker].op # "turn"
  <2>1. fibers' = [fibers EXCEPT ![Worker] = Idle]
    BY <1>3 DEF Prepared, End
  <2>2. fibers' \in [Fibers -> FiberType' \cup {Idle}]
    BY <1>1, <2>1
  <2>3. ASSUME NEW g \in Fibers PROVE Good(fibers'[g], g, binding', live')
    BY <1>1, <2>1 DEF IInv, FibersFollow, Good
  <2> QED BY <2>2, <2>3 DEF FibersFollow
<1> QED BY <1>2, <1>3

LEMMA FindKeeps == ASSUME IInv, NEW f \in Fibers, Find(f) PROVE IInv'
<1>1. /\ fibers[f] \in FiberType /\ fibers[f].step = "find" /\ Knows(fibers[f], f)
      /\ Follows(fibers[f], f, binding, live) /\ f = Worker
  <2>1. /\ fibers[f] \in FiberType /\ fibers[f].step = "find" /\ Knows(fibers[f], f)
        /\ Follows(fibers[f], f, binding, live)
    BY AtStep DEF Find
  <2> QED BY <2>1 DEF Knows
<1>2. queue' \in Seq(Turns) /\ conversations \in Nat
      /\ UNCHANGED <<readModel, session, binding, provider, ingestion, history>>
  BY DEF IInv, TypeOK, Find
<1>3. CASE Prepared(f)
  <2>1. FibersFollow' /\ fibers' \in [Fibers -> FiberType' \cup {Idle}]
    BY <1>1, <1>2, <1>3, PreparedKeeps DEF provider
  <2> QED BY <1>2, <2>1, OnlyFibers
<1>4. CASE /\ live # None
           /\ fibers' = [fibers EXCEPT ![f].step = "start", ![f].after = "bind",
                                       ![f].put.cursor = live.conversation]
  <2> DEFINE x == [fibers[f] EXCEPT !.step = "start", !.after = "bind",
                                    !.put.cursor = live.conversation]
  <2>1. /\ fibers[f].put \in BindingType /\ fibers[f].put.mode \in Modes
        /\ live \in Lives /\ live.conversation \in Conversations
    BY <1>1, <1>4, FiberFields DEF Knows, IInv, TypeOK, Lives
  <2>2. /\ x \in FiberType /\ x.step = "start" /\ x.after = "bind" /\ x.op = fibers[f].op
        /\ x.turn = fibers[f].turn /\ x.put \in BindingType
        /\ x.put.cursor = live.conversation /\ x.put.mode = fibers[f].put.mode
    BY <1>1, <2>1 DEF FiberType, Steps, BindingType
  <2>3. Moves(f, x)
    BY <1>4 DEF Moves
  <2> HIDE DEF x
  <2>4. x.put # None
    BY <1>2, <2>2, NoneIsNothing
  <2>5. Good(x, f, binding, live)
    BY <1>1, <1>4, <2>1, <2>2, <2>4 DEF Good, Knows, Follows, IInv, OneConversation
  <2> QED BY <1>2, <2>2, <2>3, <2>5, OneThinks
<1>5. CASE fibers' = [fibers EXCEPT ![f].step = "start", ![f].after = "bind"]
  <2> DEFINE x == [fibers[f] EXCEPT !.step = "start", !.after = "bind"]
  <2>1. /\ x \in FiberType /\ x.step = "start" /\ x.after = "bind" /\ x.op = fibers[f].op
        /\ x.turn = fibers[f].turn /\ x.put = fibers[f].put
    BY <1>1 DEF FiberType, Steps
  <2>2. Moves(f, x)
    BY <1>5 DEF Moves
  <2> HIDE DEF x
  <2>3. Good(x, f, binding, live)
    BY <1>1, <2>1 DEF Good, Knows, Follows
  <2> QED BY <1>2, <2>1, <2>2, <2>3, OneThinks
<1> QED BY <1>3, <1>4, <1>5 DEF Find

LEMMA GoingOn ==
  ASSUME NEW f \in Fibers, fibers[f] \in FiberType, Knows(fibers[f], f), NEW step \in Steps,
         Go(f, step), step \in {"recover", "deliver", "interrupt", "halt", "unbind", "route"},
         step = "recover" => fibers[f].op \in {"turn", "send"},
         step = "deliver" => f \in Turns
  PROVE  \E x \in FiberType : /\ Moves(f, x) /\ x # Idle /\ x.step = step /\ Knows(x, f)
                              /\ \A b, l : b # None => Good(x, f, b, l)
                              /\ step \in {"recover", "unbind", "route"} =>
                                   \A b, l : Good(x, f, b, l)
<1> DEFINE x == [fibers[f] EXCEPT !.step = step]
<1>1. /\ x \in FiberType /\ x.step = step /\ x.op = fibers[f].op /\ x.turn = fibers[f].turn
  BY DEF FiberType
<1>2. Moves(f, x)
  BY DEF Moves, Go
<1> HIDE DEF x
<1>3. Knows(x, f)
  BY <1>1 DEF Knows
<1>4. /\ \A b, l : b # None => Good(x, f, b, l)
      /\ step \in {"recover", "unbind", "route"} => \A b, l : Good(x, f, b, l)
  BY <1>1, <1>3 DEF Good, Follows
<1> QED BY <1>1, <1>2, <1>3, <1>4, FiberFields

LEMMA Failing ==
  ASSUME NEW f \in Fibers, fibers[f] \in FiberType, Knows(fibers[f], f), Fail(f)
  PROVE  \E x \in FiberType \cup {Idle} : Moves(f, x) /\ \A b, l : Good(x, f, b, l)
<1>1. CASE fibers[f].op \in {"turn", "send"}
  <2>1. Go(f, "recover")
    BY <1>1 DEF Fail
  <2> QED BY <1>1, <2>1, GoingOn DEF Steps
<1>2. CASE fibers[f].op \notin {"turn", "send"}
  BY <1>2 DEF Fail, End, Moves, Good
<1> QED BY <1>1, <1>2

LEMMA RouteKeeps == ASSUME IInv, NEW f \in Fibers, Route(f) PROVE IInv'
<1>1. /\ fibers[f] \in FiberType /\ fibers[f].step = "route" /\ Knows(fibers[f], f)
  BY AtStep DEF Route
<1>2. queue' \in Seq(Turns) /\ conversations \in Nat
      /\ UNCHANGED <<readModel, session, binding, provider, ingestion, history>>
  BY DEF IInv, TypeOK, Route
<1>3. CASE binding = None
  <2>1. PICK x \in FiberType \cup {Idle} : Moves(f, x) /\ \A b, l : Good(x, f, b, l)
    BY <1>1, <1>3, Failing DEF Route
  <2> QED BY <1>2, <2>1, OneThinks
<1>4. CASE binding # None /\ live # None
  <2>1. Go(f, Arrival(f))
    BY <1>4 DEF Route
  <2>2. /\ Arrival(f) \in {"deliver", "interrupt", "halt"}
        /\ Arrival(f) = "deliver" => f \in Turns
    BY <1>1 DEF Arrival, Knows
  <2>3. /\ Arrival(f) \in Steps /\ Arrival(f) # "recover"
        /\ Arrival(f) \in {"recover", "deliver", "interrupt", "halt", "unbind", "route"}
    BY <2>2 DEF Steps
  <2>4. PICK x \in FiberType : Moves(f, x) /\ \A b, l : b # None => Good(x, f, b, l)
    BY <1>1, <2>1, <2>2, <2>3, GoingOn, Zenon
  <2> QED BY <1>2, <1>4, <2>4, OneThinks
<1>5. CASE binding # None /\ live = None /\ Recovers(f)
  <2> DEFINE x == [fibers[f] EXCEPT !.step = "recoverSession", !.after = Arrival(f),
                                    !.put = Binding("running", binding.cursor, binding.mode)]
  <2>1. /\ binding \in BindingType /\ binding.mode \in Modes /\ binding.cursor \in Conversations
    BY <1>5 DEF IInv, TypeOK, OneConversation, BindingType
  <2>2. Binding("running", binding.cursor, binding.mode) \in BindingType
    BY <2>1 DEF Binding, BindingType
  <2>3. /\ Arrival(f) \in {"deliver", "interrupt"} /\ (Arrival(f) = "deliver" => f \in Turns)
    BY <1>1, <1>5 DEF Arrival, Knows, Recovers
  <2>4. /\ x \in FiberType /\ x.step = "recoverSession" /\ x.after = Arrival(f)
        /\ x.op = fibers[f].op /\ x.turn = fibers[f].turn
        /\ x.put = Binding("running", binding.cursor, binding.mode)
    BY <1>1, <2>2, <2>3 DEF FiberType, Steps
  <2>5. Moves(f, x)
    BY <1>5 DEF Moves, Route
  <2> HIDE DEF x
  <2>6. x.put # None /\ x.put.cursor = binding.cursor /\ x.put.mode = binding.mode
    BY <1>2, <2>2, <2>4, NoneIsNothing DEF Binding
  <2>7. Good(x, f, binding, live)
    BY <1>1, <1>5, <2>1, <2>3, <2>4, <2>6 DEF Good, Knows, Follows
  <2> QED BY <1>2, <2>4, <2>5, <2>7, OneThinks
<1>6. CASE binding # None /\ live = None /\ ~Recovers(f)
  <2> DEFINE after == IF fibers[f].op = "stop" THEN "unbind" ELSE "done"
             x == [fibers[f] EXCEPT !.step = "read", !.put = Stopped, !.after = after]
  <2>1. Stopped \in BindingType /\ Stopped.cursor = None
    BY DEF Stopped, Binding, BindingType
  <2>2. /\ x \in FiberType /\ x.step = "read" /\ x.after = after
        /\ x.op = fibers[f].op /\ x.turn = fibers[f].turn /\ x.put = Stopped
    BY ZenonT(30), <1>1, <2>1 DEF FiberType, Steps
  <2>3. Moves(f, x)
    BY <1>6 DEF Moves, Route
  <2>4. after \in {"unbind", "done"}
    OBVIOUS
  <2> HIDE DEF x, after
  <2>5. x.put # None
    BY <1>2, <2>1, <2>2, NoneIsNothing
  <2>6. Good(x, f, binding, live)
    BY <1>1, <1>6, <2>1, <2>2, <2>4, <2>5 DEF Good, Knows, Follows
  <2> QED BY <1>2, <2>2, <2>3, <2>6, OneThinks
<1> QED BY <1>3, <1>4, <1>5, <1>6

LEMMA ReadKeeps == ASSUME IInv, NEW f \in Fibers, Read(f) PROVE IInv'
<1> DEFINE x == [fibers[f] EXCEPT !.step = "write", !.seen = binding]
<1>1. /\ fibers[f] \in FiberType /\ fibers[f].step = "read" /\ Knows(fibers[f], f)
      /\ Follows(fibers[f], f, binding, live)
  BY AtStep DEF Read
<1>2. queue' \in Seq(Turns) /\ conversations \in Nat /\ binding \in BindingType \cup {None}
      /\ UNCHANGED <<readModel, session, binding, provider, ingestion, history>>
  BY DEF IInv, TypeOK, Read
<1>3. /\ x \in FiberType /\ x.step = "write" /\ x.seen = binding
      /\ x.op = fibers[f].op /\ x.turn = fibers[f].turn /\ x.put = fibers[f].put
      /\ x.after = fibers[f].after
  BY <1>1, <1>2 DEF FiberType, Steps
<1>4. Moves(f, x)
  BY DEF Moves, Read
<1> HIDE DEF x
<1>5. binding # None => binding \in Rows /\ binding.mode \in Modes
  BY <1>2, NoneIsNothing DEF IInv, OneConversation
<1>6. Good(x, f, binding, live)
  BY <1>1, <1>3, <1>5 DEF Good, Knows, Follows
<1> QED BY <1>2, <1>3, <1>4, <1>6, OneThinks

LEMMA MergedTyped ==
  ASSUME NEW put \in BindingType, NEW row, None \notin BindingType,
         row # None => row \in BindingType /\ row.mode \in Modes
  PROVE  /\ Merged(put, row) \in BindingType /\ Merged(put, row).mode \in Modes
         /\ Merged(put, row).cursor =
              IF put.cursor = None /\ row # None THEN row.cursor ELSE put.cursor
<1>1. /\ put.status \in {"running", "stopped"} /\ put.cursor \in Conversations \cup {None}
      /\ put.mode \in Modes \cup {None}
      /\ put = [status |-> put.status, cursor |-> put.cursor, mode |-> put.mode]
  BY DEF BindingType
<1>2. CASE row = None
  BY <1>1, <1>2 DEF Merged, BindingType, Modes
<1>3. CASE row # None
  <2>1. row.cursor \in Conversations \cup {None} /\ row.mode \in Modes
    BY <1>3 DEF BindingType
  <2> QED BY <1>1, <1>3, <2>1 DEF Merged, BindingType
<1> QED BY <1>2, <1>3

LEMMA WriteKeeps == ASSUME IInv, NEW f \in Fibers, Write(f) PROVE IInv'
<1>1. /\ fibers[f] \in FiberType /\ fibers[f].step = "write" /\ Knows(fibers[f], f)
      /\ Follows(fibers[f], f, binding, live)
  BY AtStep DEF Write
<1>2. /\ queue' \in Seq(Turns) /\ conversations \in Nat /\ binding \in BindingType \cup {None}
      /\ UNCHANGED <<readModel, session, provider, ingestion, history>>
      /\ None \notin BindingType /\ BindingType \subseteq Rows
  BY NoneIsNothing DEF IInv, TypeOK, Write
<1>3. CASE Fail(f) /\ UNCHANGED binding
  <2>1. PICK x \in FiberType \cup {Idle} : Moves(f, x) /\ \A b, l : Good(x, f, b, l)
    BY <1>1, <1>3, Failing
  <2> QED BY <1>2, <1>3, <2>1, OneThinks
<1>4. CASE /\ binding' = Merged(fibers[f].put, fibers[f].seen)
           /\ IF fibers[f].after = "done" THEN End(f) ELSE Go(f, fibers[f].after)
  <2> DEFINE put == fibers[f].put
             seen == fibers[f].seen
             x == IF fibers[f].after = "done" THEN Idle
                  ELSE [fibers[f] EXCEPT !.step = fibers[f].after]
  <2>1. put \in BindingType /\ put # None
    BY <1>1, FiberFields DEF Knows
  <2>2. seen # None => seen \in BindingType /\ seen.mode \in Modes /\ seen.cursor = binding.cursor
                       /\ binding # None
    <3>1. ASSUME seen # None
          PROVE  seen \in Rows /\ seen.mode \in Modes /\ binding # None
                 /\ seen.cursor = binding.cursor
      BY <1>1, <3>1 DEF Knows, Follows
    <3>2. ASSUME seen # None PROVE seen.cursor \in Conversations \cup {None}
      BY <1>2, <3>1, <3>2 DEF BindingType
    <3> HIDE DEF seen
    <3>3. ASSUME seen # None PROVE seen \in BindingType
      BY <3>1, <3>2, <3>3 DEF Rows, BindingType
    <3> QED BY <3>1, <3>3
  <2>3. /\ binding' \in BindingType /\ binding'.mode \in Modes /\ binding' # None
        /\ binding'.cursor = IF put.cursor = None /\ seen # None THEN seen.cursor ELSE put.cursor
    BY <1>2, <1>4, <2>1, <2>2, MergedTyped
  <2>4. /\ x \in FiberType \cup {Idle}
        /\ x # Idle => /\ x.step = fibers[f].after /\ x.op = fibers[f].op
                       /\ x.turn = fibers[f].turn /\ x.put = put
                       /\ x.step \in {"bind", "deliver", "interrupt", "unbind"}
    BY <1>1 DEF FiberType, Steps, Knows
  <2>5. Moves(f, x)
    BY <1>4 DEF Moves, End, Go
  <2> HIDE DEF x, put, seen
  <2>6. Good(x, f, binding', live')
    BY <1>1, <2>1, <2>3, <2>4 DEF Good, Knows, Follows
  <2>7. binding # None => binding'.cursor = binding.cursor
    BY <1>1, <2>2, <2>3 DEF Follows, put, seen
  <2>8. binding = None => f = Worker /\ binding'.cursor # None
                          /\ (live # None => live.conversation = binding'.cursor)
    BY <1>1, <2>3 DEF Follows, put, seen
  <2>9. /\ FibersFollow' /\ fibers' \in [Fibers -> FiberType' \cup {Idle}]
    <3>1. Undisturbed(f)
      BY <2>3, <2>7, <2>8 DEF Undisturbed
    <3>2. conversations' \in Nat /\ conversations <= conversations' /\ x \in FiberType' \cup {Idle}
      BY <1>2, <2>4 DEF provider, FiberType, BindingType, Conversations
    <3> QED BY <2>5, <2>6, <3>1, <3>2, OneMoves
  <2>10. TypeOK'
    BY <1>2, <2>3, <2>9 DEF IInv, TypeOK, readModel, provider, ingestion, history, Fibers,
         FiberType, BindingType, Conversations
  <2>11. EventsTyped'
    BY <1>2 DEF IInv, EventsTyped, ingestion
  <2>12. OneConversation'
    BY <1>2, <2>3, <2>7, <2>8 DEF IInv, OneConversation, provider, history
  <2> QED BY <2>9, <2>10, <2>11, <2>12 DEF IInv
<1> QED BY <1>3, <1>4 DEF Write

LEMMA BindKeeps == ASSUME IInv, NEW f \in Fibers, Bind(f) PROVE IInv'
<1>1. /\ fibers[f] \in FiberType /\ fibers[f].step = "bind" /\ Knows(fibers[f], f) /\ f = Worker
  <2>1. /\ fibers[f] \in FiberType /\ fibers[f].step = "bind" /\ Knows(fibers[f], f)
    BY AtStep DEF Bind
  <2> QED BY <2>1 DEF Knows
<1>2. /\ UNCHANGED <<readModel, binding, provider, queue, ingestion, history>>
      /\ UNCHANGED <<binding, live, conversations>>
  BY DEF Bind, provider
<1>3. FibersFollow' /\ fibers' \in [Fibers -> FiberType' \cup {Idle}]
  BY <1>1, <1>2, PreparedKeeps DEF Bind
<1>4. session' \in SessionType
  <2>1. fibers[f].put \in BindingType
    BY <1>1, FiberFields DEF Knows
  <2>2. fibers[f].put.mode \in Modes \cup {None}
    BY <2>1 DEF BindingType
  <2> QED BY <2>2 DEF Bind, Session, SessionType
<1>5. TypeOK'
  BY <1>2, <1>3, <1>4 DEF IInv, TypeOK, readModel, provider, ingestion, history, Fibers,
       FiberType, BindingType, Conversations
<1>6. EventsTyped' /\ OneConversation'
  BY <1>2 DEF IInv, EventsTyped, OneConversation, ingestion, provider, history
<1> QED BY <1>3, <1>5, <1>6 DEF IInv

(* A fiber ends or goes on, and the session or the reports change with it. *)
LEMMA OneTells ==
  ASSUME IInv, NEW f \in Fibers, NEW x \in FiberType \cup {Idle}, Moves(f, x),
         \A b, l : Good(x, f, b, l), session' \in SessionType, reported' \subseteq Turns,
         UNCHANGED <<readModel, binding, provider, queue, ingestion, handed, lost, cut>>
  PROVE  IInv'
<1>1. /\ conversations \in Nat /\ conversations' = conversations /\ binding' = binding
      /\ live' = live
  BY DEF IInv, TypeOK, provider
<1>2. conversations' \in Nat /\ conversations <= conversations'
  BY <1>1
<1>3. x \in FiberType' \cup {Idle}
  BY <1>1, <1>2, Grows
<1>4. Undisturbed(f)
  BY <1>1 DEF Undisturbed
<1>5. FibersFollow' /\ fibers' \in [Fibers -> FiberType' \cup {Idle}]
  BY <1>1, <1>2, <1>3, <1>4, OneMoves
<1>6. TypeOK'
  BY <1>5 DEF IInv, TypeOK, readModel, provider, ingestion, Fibers,
       FiberType, BindingType, Conversations
<1>7. EventsTyped' /\ OneConversation'
  BY DEF IInv, EventsTyped, OneConversation, ingestion, provider
<1> QED BY <1>5, <1>6, <1>7 DEF IInv

LEMMA IdleIsGood == \A f, b, l : Good(Idle, f, b, l)
BY DEF Good

LEMMA UnbindKeeps == ASSUME IInv, NEW f \in Fibers, Unbind(f) PROVE IInv'
<1>1. session' \in SessionType
  BY DEF IInv, TypeOK, Unbind, Session, SessionType
<1>2. Moves(f, Idle)
  BY DEF Unbind, End, Moves
<1>3. reported' \subseteq Turns
  BY DEF IInv, TypeOK, Unbind, history
<1> QED BY <1>1, <1>2, <1>3, IdleIsGood, OneTells DEF Unbind, history

LEMMA RecoverKeeps == ASSUME IInv, NEW f \in Fibers, Recover(f) PROVE IInv'
<1> DEFINE x == [fibers[f] EXCEPT !.step = "report", !.seen = session]
<1>1. /\ fibers[f] \in FiberType /\ fibers[f].step = "recover" /\ Knows(fibers[f], f)
  BY AtStep DEF Recover
<1>2. session \in SessionType /\ queue' \in Seq(Turns)
      /\ UNCHANGED <<readModel, session, binding, provider, ingestion, history>>
  BY DEF IInv, TypeOK, Recover
<1>3. /\ x \in FiberType /\ x.step = "report" /\ x.seen = session
      /\ x.op = fibers[f].op /\ x.turn = fibers[f].turn
  BY <1>1, <1>2 DEF FiberType, Steps
<1>4. Moves(f, x)
  BY DEF Moves, Recover
<1> HIDE DEF x
<1>5. Good(x, f, binding, live)
  BY <1>1, <1>2, <1>3 DEF Good, Knows, Follows
<1> QED BY <1>2, <1>3, <1>4, <1>5, OneThinks

LEMMA ReportKeeps == ASSUME IInv, NEW f \in Fibers, Report(f) PROVE IInv'
<1>1. /\ fibers[f] \in FiberType /\ fibers[f].step = "report" /\ Knows(fibers[f], f)
  BY AtStep DEF Report
<1>2. fibers[f].seen \in SessionType /\ fibers[f].turn \in Turns
  BY <1>1 DEF Knows
<1>3. session' \in SessionType
  BY <1>2 DEF IInv, TypeOK, Report, Session, SessionType
<1>4. Moves(f, Idle)
  BY DEF Report, End, Moves
<1>5. reported' \subseteq Turns
  BY <1>2 DEF IInv, TypeOK, Report
<1> QED BY <1>3, <1>4, <1>5, IdleIsGood, OneTells DEF Report

LEMMA BindingsKeeps == ASSUME IInv, NEW f \in Fibers, Bindings(f) PROVE IInv'
<1>1. /\ fibers[f] \in FiberType /\ Knows(fibers[f], f)
  BY AtStep DEF Bindings
<1>2. queue' \in Seq(Turns)
      /\ UNCHANGED <<readModel, session, binding, provider, ingestion, history>>
  BY DEF IInv, TypeOK, Bindings
<1>3. CASE Go(f, "route")
  <2>1. PICK x \in FiberType : Moves(f, x) /\ \A b, l : Good(x, f, b, l)
    BY <1>1, <1>3, GoingOn DEF Steps
  <2> QED BY <1>2, <2>1, OneThinks
<1>4. CASE End(f)
  <2>1. Moves(f, Idle)
    BY <1>4 DEF End, Moves
  <2> QED BY <1>2, <2>1, IdleIsGood, OneThinks
<1> QED BY <1>3, <1>4 DEF Bindings

-----------------------------------------------------------------------------
(* Steps that reach the provider.                                          *)
LEMMA Emitted ==
  ASSUME IInv, NEW type \in {"session.started", "session.exited", "turn.started", "turn.completed"},
         NEW turn \in Turns \cup {None}
  PROVE  /\ Append(TurnEnds, Event(type, turn)) \in Seq(Events) /\ TurnEnds \in Seq(Events)
         /\ \A e \in Seq(Events) : Emit(e) => runtime' \in Seq(Events)
<1>1. runtime \in Seq(Events) /\ Event(type, turn) \in Events
  BY DEF IInv, EventsTyped, Event, Events
<1>2. TurnEnds \in Seq(Events)
  <2>1. live # None /\ live.turn # None => live.turn \in Turns
    BY DEF IInv, TypeOK
  <2>2. live # None /\ live.turn # None => Event("turn.completed", live.turn) \in Events
    BY <2>1 DEF Event, Events
  <2> HIDE DEF Events
  <2> QED BY <2>2 DEF TurnEnds
<1> HIDE DEF Events
<1>3. Append(TurnEnds, Event(type, turn)) \in Seq(Events)
  BY <1>1, <1>2
<1>4. ASSUME NEW e \in Seq(Events), Emit(e) PROVE runtime' \in Seq(Events)
  BY <1>1, <1>4 DEF Emit
<1> QED BY <1>2, <1>3, <1>4

LEMMA OneActs ==
  ASSUME IInv, NEW f \in Fibers, NEW x \in FiberType' \cup {Idle}, Moves(f, x),
         Good(x, f, binding, live'), conversations' \in Nat, conversations <= conversations',
         live' \in Lives' \cup {None}, runtime' \in Seq(Events),
         handed' \subseteq [turn : Turns, conversation : Conversations]',
         binding # None => /\ live' # None => live'.conversation = binding.cursor
                           /\ \A h \in handed' : h.conversation = binding.cursor,
         binding = None => /\ handed' = {}
                           /\ \/ f = Worker
                              \/ live' # None =>
                                   live # None /\ live'.conversation = live.conversation,
         UNCHANGED <<readModel, session, binding, queue, ingesting, reported, lost, cut>>
  PROVE  IInv'
<1>1. Undisturbed(f) /\ binding' = binding
  BY DEF Undisturbed
<1>2. Good(x, f, binding', live')
  BY <1>1
<1>3. FibersFollow' /\ fibers' \in [Fibers -> FiberType' \cup {Idle}]
  BY <1>1, <1>2, OneMoves
<1>4. binding' \in BindingType' \cup {None}
  BY <1>1, Grows DEF IInv, TypeOK
<1>5. TypeOK'
  BY <1>3, <1>4 DEF IInv, TypeOK, readModel, Fibers, Lives
<1>6. EventsTyped' /\ OneConversation'
  BY <1>1 DEF IInv, EventsTyped, OneConversation
<1> QED BY <1>3, <1>5, <1>6 DEF IInv

LEMMA Opening ==
  ASSUME IInv, NEW cursor \in Conversations \cup {None}, NEW m \in Modes, Open(cursor, m)
  PROVE  /\ conversations' \in Nat /\ conversations <= conversations'
         /\ live' \in Lives' /\ live' # None /\ runtime' \in Seq(Events)
         /\ live'.conversation \in Conversations' /\ live'.conversation # None
         /\ cursor # None => live'.conversation = cursor
<1>1. runtime' \in Seq(Events)
  BY Emitted DEF Open
<1>2. conversations \in Nat
  BY DEF IInv, TypeOK
<1>3. CASE cursor # None
  <2>1. /\ live' = [conversation |-> cursor, turn |-> None, mode |-> m]
        /\ conversations' = conversations
    BY <1>3 DEF Open
  <2>2. Conversations' = Conversations /\ cursor \in Conversations /\ live' \in Lives
    BY <1>3, <2>1 DEF Conversations, Lives
  <2>3. Lives' = Lives
    BY <2>2 DEF Lives
  <2>4. live' # None /\ live'.conversation = cursor /\ None \notin Conversations
    BY <1>2, <2>1, <2>2, NoneIsNothing
  <2>5. conversations' \in Nat /\ conversations <= conversations'
    BY <1>2, <2>1
  <2> QED BY <1>1, <1>3, <2>2, <2>3, <2>4, <2>5
<1>4. CASE cursor = None
  <2>1. /\ conversations' = conversations + 1
        /\ live' = [conversation |-> conversations', turn |-> None, mode |-> m]
    BY <1>4 DEF Open
  <2>2. conversations' \in Nat /\ conversations' \in Conversations'
    BY <1>2, <2>1 DEF Conversations
  <2>3. live' \in Lives'
    BY <2>1, <2>2 DEF Lives
  <2>4. live' \in [conversation : Nat, turn : Nat \cup {None}, mode : Modes]
    BY <2>1, <2>2
  <2> QED BY <1>1, <1>2, <1>4, <2>1, <2>2, <2>3, <2>4, RequestAssumption
<1> QED BY <1>3, <1>4

(* The session a fiber has opened is in its hands for the upsert.          *)
LEMMA OpenedKeeps ==
  ASSUME IInv, NEW f \in Fibers, fibers[f] \in FiberType, Knows(fibers[f], f),
         fibers[f].step \in {"start", "recoverSession"},
         NEW cursor \in Conversations \cup {None}, NEW m \in Modes, Open(cursor, m), Opened(f),
         binding # None => cursor = binding.cursor,
         binding = None => f = Worker,
         UNCHANGED <<readModel, session, binding, queue, ingesting, history>>
  PROVE  IInv'
<1> DEFINE x == [fibers[f] EXCEPT !.step = "read", !.put.cursor = live'.conversation]
<1>1. /\ conversations' \in Nat /\ conversations <= conversations'
      /\ live' \in Lives' /\ live' # None /\ runtime' \in Seq(Events)
      /\ live'.conversation \in Conversations' /\ live'.conversation # None
      /\ cursor # None => live'.conversation = cursor
  BY Opening
<1>2. /\ conversations \in Nat /\ BindingType \subseteq BindingType'
      /\ FiberType \subseteq FiberType'
      /\ [turn : Turns, conversation : Conversations]
           \subseteq [turn : Turns, conversation : Conversations]'
  BY <1>1, Grows DEF IInv, TypeOK
<1>3. fibers[f].put \in BindingType' /\ fibers[f] \in FiberType'
  BY <1>2, FiberFields DEF Knows
<1>4. /\ x \in FiberType' /\ x.step = "read" /\ x.op = fibers[f].op /\ x.turn = fibers[f].turn
      /\ x.put \in BindingType' /\ x.put.cursor = live'.conversation /\ x.after = fibers[f].after
  BY <1>1, <1>3 DEF FiberType, Steps, BindingType
<1>5. Moves(f, x)
  BY DEF Moves, Opened
<1> HIDE DEF x
<1>6. x.put # None
  <2>1. BindingType' \subseteq Rows
    BY <1>1 DEF BindingType, Rows, Conversations
  <2> QED BY <1>4, <2>1, RequestAssumption DEF Rows
<1>7. binding # None => live'.conversation = binding.cursor
  BY <1>1 DEF IInv, OneConversation
<1>8. Good(x, f, binding, live')
  BY <1>1, <1>4, <1>6, <1>7 DEF Good, Knows, Follows
<1>9. handed' \subseteq [turn : Turns, conversation : Conversations]' /\ handed' = handed
  BY <1>2 DEF IInv, TypeOK, history
<1>10. UNCHANGED <<readModel, session, binding, queue, ingesting, reported, lost, cut>>
  BY DEF history
<1> QED
  BY <1>1, <1>4, <1>5, <1>7, <1>8, <1>9, <1>10, OneActs DEF IInv, OneConversation

(* A fiber fails, and the provider's session is as it was or gone.         *)
LEMMA FailingKeeps ==
  ASSUME IInv, NEW f \in Fibers, fibers[f] \in FiberType, Knows(fibers[f], f), Fail(f),
         UNCHANGED <<readModel, session, binding, conversations, queue, ingesting, history>>,
         \/ UNCHANGED <<live, runtime>>
         \/ live' = None /\ runtime' \in Seq(Events)
  PROVE  IInv'
<1>1. PICK x \in FiberType \cup {Idle} : Moves(f, x) /\ \A b, l : Good(x, f, b, l)
  BY Failing
<1>2. /\ conversations \in Nat /\ conversations' = conversations
      /\ live \in Lives \cup {None} /\ runtime \in Seq(Events)
      /\ handed \subseteq [turn : Turns, conversation : Conversations]
  BY DEF IInv, TypeOK, EventsTyped, Lives
<1>3. /\ conversations' \in Nat /\ conversations <= conversations'
  BY <1>2
<1>4. /\ x \in FiberType' \cup {Idle} /\ live' \in Lives' \cup {None}
      /\ handed' \subseteq [turn : Turns, conversation : Conversations]' /\ handed' = handed
  BY <1>2, <1>3, Grows DEF history
<1>5. runtime' \in Seq(Events) /\ (live' = live \/ live' = None)
  BY <1>2
<1>6. Good(x, f, binding, live')
  BY <1>1
<1>7. UNCHANGED <<readModel, session, binding, queue, ingesting, reported, lost, cut>>
  BY DEF history
<1> QED
  BY <1>1, <1>3, <1>4, <1>5, <1>6, <1>7, OneActs DEF IInv, OneConversation

LEMMA StartKeeps == ASSUME IInv, NEW f \in Fibers, Start(f) PROVE IInv'
<1>1. /\ fibers[f] \in FiberType /\ fibers[f].step = "start" /\ Knows(fibers[f], f)
      /\ Follows(fibers[f], f, binding, live) /\ f = Worker
  <2>1. /\ fibers[f] \in FiberType /\ fibers[f].step = "start" /\ Knows(fibers[f], f)
        /\ Follows(fibers[f], f, binding, live)
    BY AtStep DEF Start
  <2> QED BY <2>1 DEF Knows
<1>2. UNCHANGED <<readModel, session, binding, queue, ingesting, history>>
  BY DEF Start
<1>3. CASE Open(Cursor(f), fibers[f].put.mode) /\ Opened(f)
  <2>1. fibers[f].put.mode \in Modes /\ fibers[f].put \in BindingType
    BY <1>1, FiberFields DEF Knows
  <2>2. fibers[f].put.cursor \in Conversations \cup {None}
    BY <2>1 DEF BindingType
  <2>3. binding # None => binding.cursor \in Conversations \cup {None}
    BY DEF IInv, TypeOK, BindingType
  <2>4. Cursor(f) \in Conversations \cup {None}
    BY <2>2, <2>3 DEF Cursor
  <2>5. binding # None => Cursor(f) = binding.cursor
    BY <1>1 DEF Cursor, Follows
  <2> QED BY <1>1, <1>2, <1>3, <2>1, <2>4, <2>5, OpenedKeeps
<1>4. CASE Fail(f) /\ UNCHANGED <<live, conversations, runtime>>
  BY <1>1, <1>2, <1>4, FailingKeeps
<1>5. CASE Fail(f) /\ live' = None /\ Emit(TurnEnds) /\ UNCHANGED conversations
  <2>1. runtime' \in Seq(Events)
    BY <1>5, Emitted
  <2> QED BY <1>1, <1>2, <1>5, <2>1, FailingKeeps
<1> QED BY <1>3, <1>4, <1>5 DEF Start

LEMMA RecoverSessionKeeps == ASSUME IInv, NEW f \in Fibers, RecoverSession(f) PROVE IInv'
<1>1. /\ fibers[f] \in FiberType /\ fibers[f].step = "recoverSession" /\ Knows(fibers[f], f)
      /\ Follows(fibers[f], f, binding, live)
  BY AtStep DEF RecoverSession
<1>2. UNCHANGED <<readModel, session, binding, queue, ingesting, history>>
  BY DEF RecoverSession
<1>3. binding # None /\ fibers[f].put.cursor = binding.cursor /\ fibers[f].put.mode \in Modes
  BY <1>1 DEF Follows, Knows
<1>4. CASE /\ live # None
           /\ fibers' = [fibers EXCEPT ![f].step = "read",
                           ![f].put = Binding("running", live.conversation, live.mode)]
           /\ UNCHANGED <<provider, runtime>>
  <2> DEFINE x == [fibers[f] EXCEPT !.step = "read",
                     !.put = Binding("running", live.conversation, live.mode)]
  <2>1. /\ live.conversation \in Conversations /\ live.mode \in Modes
        /\ live.conversation = binding.cursor /\ conversations \in Nat
    BY <1>3, <1>4 DEF IInv, TypeOK, OneConversation
  <2>2. Binding("running", live.conversation, live.mode) \in BindingType
    BY <2>1 DEF Binding, BindingType
  <2>3. /\ x \in FiberType /\ x.step = "read" /\ x.op = fibers[f].op /\ x.turn = fibers[f].turn
        /\ x.put = Binding("running", live.conversation, live.mode)
        /\ x.after = fibers[f].after
    BY <1>1, <2>2 DEF FiberType, Steps
  <2>4. Moves(f, x)
    BY <1>4 DEF Moves
  <2> HIDE DEF x
  <2>5. x.put # None /\ x.put.cursor = binding.cursor
    BY <2>1, <2>2, <2>3, NoneIsNothing DEF Binding
  <2>6. Good(x, f, binding, live)
    BY <1>1, <1>3, <2>3, <2>5 DEF Good, Knows, Follows
  <2>7. /\ queue' \in Seq(Turns)
        /\ UNCHANGED <<readModel, session, binding, provider, ingestion, history>>
    BY <1>2, <1>4 DEF IInv, TypeOK, ingestion
  <2> QED BY <2>3, <2>4, <2>6, <2>7, OneThinks
<1>5. CASE Open(fibers[f].put.cursor, fibers[f].put.mode) /\ Opened(f)
  <2>1. fibers[f].put \in BindingType
    BY <1>1, FiberFields DEF Knows
  <2>2. fibers[f].put.cursor \in Conversations \cup {None}
    BY <2>1 DEF BindingType
  <2> QED BY <1>1, <1>2, <1>3, <1>5, <2>2, OpenedKeeps
<1>6. CASE Fail(f) /\ UNCHANGED <<provider, runtime>>
  BY <1>1, <1>2, <1>6, FailingKeeps DEF provider
<1> QED BY <1>4, <1>5, <1>6 DEF RecoverSession

LEMMA DeliverKeeps == ASSUME IInv, NEW f \in Fibers, Deliver(f) PROVE IInv'
<1>1. /\ fibers[f] \in FiberType /\ fibers[f].step = "deliver" /\ Knows(fibers[f], f)
      /\ Follows(fibers[f], f, binding, live)
  BY AtStep DEF Deliver
<1>2. f \in Turns /\ binding # None
  BY <1>1 DEF Knows, Follows
<1>3. /\ UNCHANGED <<readModel, session, binding, conversations, queue, ingesting>>
      /\ UNCHANGED <<reported, lost, cut>> /\ conversations \in Nat
  BY DEF Deliver, IInv, TypeOK
<1>4. CASE /\ live # None
           /\ live' = [live EXCEPT !.turn = f]
           /\ Emit(Append(TurnEnds, Event("turn.started", f)))
           /\ handed' = handed \cup {[turn |-> f, conversation |-> live.conversation]}
           /\ fibers' = [fibers EXCEPT ![f].step = "read", ![f].after = "done",
                                       ![f].put = Binding("running", live.conversation, None)]
  <2> DEFINE x == [fibers[f] EXCEPT !.step = "read", !.after = "done",
                                    !.put = Binding("running", live.conversation, None)]
  <2>1. /\ live.conversation \in Conversations /\ live.conversation = binding.cursor
        /\ live \in Lives
    BY <1>2, <1>4 DEF IInv, TypeOK, OneConversation, Lives
  <2>2. /\ live' \in Lives /\ live'.conversation = binding.cursor
    BY <1>2, <1>4, <2>1 DEF Lives
  <2>3. Binding("running", live.conversation, None) \in BindingType
    BY <2>1 DEF Binding, BindingType
  <2>4. /\ x \in FiberType /\ x.step = "read" /\ x.op = fibers[f].op /\ x.turn = fibers[f].turn
        /\ x.put = Binding("running", live.conversation, None) /\ x.after = "done"
    BY <1>1, <2>3 DEF FiberType, Steps
  <2>5. Moves(f, x)
    BY <1>4 DEF Moves
  <2> HIDE DEF x
  <2>6. x.put # None /\ x.put.cursor = binding.cursor
    BY <1>3, <2>1, <2>3, <2>4, NoneIsNothing DEF Binding
  <2>7. Good(x, f, binding, live')
    BY <1>1, <1>2, <2>4, <2>6 DEF Good, Knows, Follows
  <2>8. runtime' \in Seq(Events)
    BY <1>2, <1>4, Emitted
  <2>9. conversations' \in Nat /\ conversations <= conversations'
    BY <1>3
  <2>10. handed' \subseteq [turn : Turns, conversation : Conversations]
    BY <1>2, <1>4, <2>1 DEF IInv, TypeOK
  <2>11. /\ x \in FiberType' \cup {Idle} /\ live' \in Lives' \cup {None}
         /\ handed' \subseteq [turn : Turns, conversation : Conversations]'
    BY <1>3, <2>2, <2>4, <2>9, <2>10, Grows
  <2>12. \A h \in handed' : h.conversation = binding.cursor
    BY <1>2, <1>4, <2>1 DEF IInv, OneConversation
  <2> QED BY <1>2, <1>3, <2>2, <2>5, <2>7, <2>8, <2>9, <2>11, <2>12, OneActs
<1>5. CASE Fail(f) /\ UNCHANGED <<live, runtime, handed>>
  BY <1>1, <1>3, <1>5, FailingKeeps DEF history
<1> QED BY <1>4, <1>5 DEF Deliver

(* An interrupt, the end of a turn or of the provider's process: the       *)
(* session loses its turn or is gone.                                      *)
Quieter == live' = None \/ (live # None /\ live' = [live EXCEPT !.turn = None])

LEMMA QuieterIsTyped ==
  ASSUME IInv, Quieter, UNCHANGED conversations
  PROVE  /\ live' \in Lives' \cup {None}
         /\ live' # None => live # None /\ live'.conversation = live.conversation
<1>1. live \in Lives \cup {None} /\ Lives' = Lives
  BY DEF IInv, TypeOK, Lives, Conversations
<1>2. CASE live' = None
  BY <1>2
<1>3. CASE live # None /\ live' = [live EXCEPT !.turn = None]
  BY <1>1, <1>3 DEF Lives
<1> QED BY <1>2, <1>3 DEF Quieter

LEMMA OneQuiets ==
  ASSUME IInv, NEW f \in Fibers, NEW x \in FiberType \cup {Idle}, Moves(f, x), Quieter,
         \A l : Good(x, f, binding, l), runtime' \in Seq(Events),
         UNCHANGED <<readModel, session, binding, conversations, queue, ingesting, history>>
  PROVE  IInv'
<1>1. /\ conversations \in Nat /\ conversations' = conversations
      /\ handed \subseteq [turn : Turns, conversation : Conversations]
  BY DEF IInv, TypeOK
<1>2. conversations' \in Nat /\ conversations <= conversations'
  BY <1>1
<1>3. /\ live' \in Lives' \cup {None}
      /\ live' # None => live # None /\ live'.conversation = live.conversation
  BY QuieterIsTyped
<1>4. /\ x \in FiberType' \cup {Idle} /\ handed' = handed
      /\ handed' \subseteq [turn : Turns, conversation : Conversations]'
  BY <1>1, <1>2, Grows DEF history
<1>5. UNCHANGED <<readModel, session, binding, queue, ingesting, reported, lost, cut>>
  BY DEF history
<1> QED
  BY <1>2, <1>3, <1>4, <1>5, OneActs DEF IInv, OneConversation

LEMMA InterruptKeeps == ASSUME IInv, NEW f \in Fibers, Interrupt(f) PROVE IInv'
<1>1. Moves(f, Idle)
  BY DEF Interrupt, End, Moves
<1>2. Quieter
  BY DEF Interrupt, Quieter
<1>3. runtime' \in Seq(Events)
  BY Emitted DEF Interrupt
<1> QED BY <1>1, <1>2, <1>3, IdleIsGood, OneQuiets DEF Interrupt

LEMMA HaltKeeps == ASSUME IInv, NEW f \in Fibers, Halt(f) PROVE IInv'
<1>1. /\ fibers[f] \in FiberType /\ fibers[f].step = "halt" /\ Knows(fibers[f], f)
      /\ Follows(fibers[f], f, binding, live)
  BY AtStep DEF Halt
<1>2. UNCHANGED <<readModel, session, binding, conversations, queue, ingesting, history>>
  BY DEF Halt
<1>3. runtime' \in Seq(Events) /\ Quieter
  <2>1. runtime' \in Seq(Events)
    <3>1. CASE live = None
      <4>1. Emit(<<>>) /\ runtime \in Seq(Events)
        BY <3>1 DEF Halt, IInv, EventsTyped
      <4> QED BY <4>1 DEF Emit
    <3>2. CASE live # None
      BY <3>2, Emitted DEF Halt
    <3> QED BY <3>1, <3>2
  <2> QED BY <2>1 DEF Halt, Quieter
<1>4. CASE live = None
  <2>1. Fail(f) /\ live' = None
    BY <1>4 DEF Halt
  <2> QED BY <1>1, <1>2, <1>3, <2>1, FailingKeeps
<1>5. CASE live # None
  <2> DEFINE after == IF fibers[f].op = "stop" THEN "unbind" ELSE "done"
             x == [fibers[f] EXCEPT !.step = "read", !.put = Stopped, !.after = after]
  <2>1. Stopped \in BindingType /\ Stopped.cursor = None
    BY DEF Stopped, Binding, BindingType
  <2>2. /\ x \in FiberType /\ x.step = "read" /\ x.after = after
        /\ x.op = fibers[f].op /\ x.turn = fibers[f].turn /\ x.put = Stopped
    BY ZenonT(30), <1>1, <2>1 DEF FiberType, Steps
  <2>3. Moves(f, x)
    BY <1>5 DEF Moves, Halt
  <2>4. after \in {"unbind", "done"}
    OBVIOUS
  <2> HIDE DEF x, after
  <2>5. x.put # None
    BY <2>1, <2>2, NoneIsNothing DEF IInv, TypeOK
  <2>6. ASSUME NEW l PROVE Good(x, f, binding, l)
    BY <1>1, <2>1, <2>2, <2>4, <2>5 DEF Good, Knows, Follows
  <2> QED BY <1>2, <1>3, <2>2, <2>3, <2>6, OneQuiets
<1> QED BY <1>4, <1>5

-----------------------------------------------------------------------------
(* Requests come and are taken.                                            *)
LEMMA Untouched ==
  ASSUME IInv, UNCHANGED <<fibers, binding, conversations>>, UNCHANGED live \/ Quieter
  PROVE  /\ FibersFollow' /\ fibers' \in [Fibers -> FiberType' \cup {Idle}]
         /\ live' \in Lives' \cup {None} /\ binding' \in BindingType' \cup {None}
         /\ handed \subseteq [turn : Turns, conversation : Conversations]'
         /\ (handed' = handed => OneConversation')
<1>1. /\ fibers \in [Fibers -> FiberType \cup {Idle}] /\ conversations \in Nat
      /\ binding \in BindingType \cup {None} /\ live \in Lives \cup {None}
      /\ handed \subseteq [turn : Turns, conversation : Conversations]
      /\ FibersFollow /\ OneConversation
  BY DEF IInv, TypeOK, Fibers, Lives
<1>2. conversations' \in Nat /\ conversations <= conversations'
  BY <1>1
<1>3. /\ fibers' \in [Fibers -> FiberType' \cup {Idle}] /\ binding' \in BindingType' \cup {None}
      /\ handed \subseteq [turn : Turns, conversation : Conversations]'
  BY <1>1, <1>2, Grows
<1>4. /\ live' \in Lives' \cup {None}
      /\ live' # None => live # None /\ live'.conversation = live.conversation
  <2>1. CASE UNCHANGED live
    BY <1>1, <1>2, <2>1, Grows
  <2>2. CASE Quieter
    BY <2>2, QuieterIsTyped
  <2> QED BY <2>1, <2>2
<1>5. ASSUME NEW g \in Fibers PROVE Good(fibers'[g], g, binding', live')
  <2>1. Good(fibers[g], g, binding, live)
    BY <1>1 DEF FibersFollow
  <2> QED BY <1>4, <2>1, StillFollows
<1>6. handed' = handed => OneConversation'
  BY <1>1, <1>4 DEF OneConversation
<1> QED BY <1>3, <1>4, <1>5, <1>6 DEF FibersFollow

LEMMA RequestKeeps == ASSUME IInv, NEW kind \in Kinds, Request(kind) PROVE IInv'
<1>1. /\ requests \in Seq(Kinds) /\ queue \in Seq(Turns) /\ mode \in Modes
      /\ Len(requests) < MaxRequests /\ MaxRequests \in Nat
  BY RequestAssumption DEF IInv, TypeOK, Request
<1>2. /\ requests' \in Seq(Kinds) /\ Len(requests') \in Turns
  BY <1>1 DEF Request, Turns
<1>3. queue' \in Seq(Turns)
  BY <1>1, <1>2 DEF Request
<1>4. mode' \in Modes
  BY <1>1 DEF Request, Other, Modes
<1>5. UNCHANGED <<session, binding, live, conversations, fibers, runtime, ingesting, handed,
                  reported, lost, cut>>
  BY DEF Request, provider, ingestion, history
<1>6. /\ FibersFollow' /\ OneConversation' /\ fibers' \in [Fibers -> FiberType' \cup {Idle}]
      /\ live' \in Lives' \cup {None} /\ binding' \in BindingType' \cup {None}
      /\ handed' \subseteq [turn : Turns, conversation : Conversations]'
  BY <1>5, Untouched
<1>7. TypeOK'
  BY <1>2, <1>3, <1>4, <1>5, <1>6 DEF IInv, TypeOK, Fibers, Lives
<1>8. EventsTyped'
  BY <1>5 DEF IInv, EventsTyped
<1> QED BY <1>6, <1>7, <1>8 DEF IInv

LEMMA TakeKeeps ==
  ASSUME IInv, NEW kind, Take(kind), UNCHANGED lost,
         \/ UNCHANGED fibers
         \/ \E op \in Ops \ {"send"}, step \in {"ensure", "route", "unbind"} : Do(op, step)
  PROVE  IInv'
<1>1. /\ queue \in Seq(Turns) /\ queue # <<>> /\ fibers[Worker] = Idle
  BY DEF IInv, TypeOK, Take
<1>2. queue' \in Seq(Turns) /\ Head(queue) \in Turns
  BY <1>1 DEF Take
<1>3. UNCHANGED <<readModel, session, binding, provider, ingestion, history>>
  BY DEF Take, history
<1>4. CASE UNCHANGED fibers
  <2>1. UNCHANGED <<fibers, binding, conversations, live>>
    BY <1>3, <1>4 DEF provider
  <2>2. FibersFollow' /\ fibers' \in [Fibers -> FiberType' \cup {Idle}]
    BY <2>1, Untouched
  <2> QED BY <1>2, <1>3, <2>2, OnlyFibers
<1>5. ASSUME NEW op \in Ops \ {"send"}, NEW step \in {"ensure", "route", "unbind"}, Do(op, step)
      PROVE  IInv'
  <2> DEFINE x == Fiber(op, Head(queue), step)
  <2>1. x \in FiberType
    BY <1>2, NewFiber DEF Steps
  <2>2. x.op = op /\ x.step = step /\ x.turn = Head(queue)
    BY DEF Fiber
  <2>3. Moves(Worker, x)
    BY <1>5 DEF Do, Moves
  <2> HIDE DEF x
  <2>4. Good(x, Worker, binding, live)
    BY <1>2, <2>2 DEF Good, Knows, Follows
  <2> QED BY <1>2, <1>3, <2>1, <2>3, <2>4, NoneIsNothing, OneThinks
<1> QED BY <1>4, <1>5

LEMMA TakingKeeps ==
  ASSUME IInv, TakeTurn \/ TakeMode \/ TakeInterrupt \/ TakeStop PROVE IInv'
<1>1. CASE TakeTurn
  BY <1>1, TakeKeeps DEF TakeTurn, Ops
<1>2. CASE TakeMode
  BY <1>2, TakeKeeps DEF TakeMode, Ops
<1>3. CASE TakeInterrupt
  BY <1>3, TakeKeeps DEF TakeInterrupt, Ops
<1>4. CASE TakeStop
  <2>1. \E step \in {"route", "unbind"} : Do("stop", step)
    BY <1>4 DEF TakeStop
  <2>2. Take("stop") /\ UNCHANGED lost
    BY <1>4 DEF TakeStop
  <2> QED BY <2>1, <2>2, TakeKeeps DEF Ops
<1> QED BY <1>1, <1>2, <1>3, <1>4

LEMMA SweepKeeps == ASSUME IInv, Sweep PROVE IInv'
<1> DEFINE x == [Fiber("reap", None, "bindings") EXCEPT !.seen = session]
<1>1. session \in SessionType /\ queue' \in Seq(Turns)
      /\ UNCHANGED <<readModel, session, binding, provider, ingestion, history>>
  BY DEF IInv, TypeOK, Sweep
<1>2. Reaper \in Fibers
  BY RequestAssumption DEF Fibers, Reaper, Worker
<1>3. x \in FiberType /\ x.op = "reap" /\ x.step = "bindings"
  BY <1>1 DEF Fiber, FiberType, Ops, Steps
<1>4. Moves(Reaper, x)
  BY DEF Sweep, Moves
<1> HIDE DEF x
<1>5. Good(x, Reaper, binding, live)
  BY <1>3 DEF Good, Knows, Follows
<1> QED BY <1>1, <1>2, <1>3, <1>4, <1>5, OneThinks

-----------------------------------------------------------------------------
(* What happens beside the fibers.                                         *)
LEMMA BesideKeeps ==
  ASSUME IInv, UNCHANGED <<readModel, binding, conversations, fibers, handed, reported, cut>>,
         UNCHANGED live \/ Quieter, session' \in SessionType, queue' \in Seq(Turns),
         lost' \subseteq Turns, runtime' \in Seq(Events),
         ingesting' \in [event : Events, seen : SessionType] \cup {None}
  PROVE  IInv'
<1>1. /\ FibersFollow' /\ OneConversation' /\ fibers' \in [Fibers -> FiberType' \cup {Idle}]
      /\ live' \in Lives' \cup {None} /\ binding' \in BindingType' \cup {None}
      /\ handed' \subseteq [turn : Turns, conversation : Conversations]'
  BY Untouched
<1>2. TypeOK'
  BY <1>1 DEF IInv, TypeOK, Fibers, Lives, readModel
<1>3. EventsTyped'
  BY DEF EventsTyped
<1> QED BY <1>1, <1>2, <1>3 DEF IInv

LEMMA Known ==
  ASSUME IInv
  PROVE  /\ session \in SessionType /\ queue \in Seq(Turns) /\ lost \subseteq Turns
         /\ runtime \in Seq(Events)
         /\ ingesting \in [event : Events, seen : SessionType] \cup {None}
BY DEF IInv, TypeOK, EventsTyped

LEMMA LoseTurnKeeps == ASSUME IInv, LoseTurn PROVE IInv'
<1>1. queue' \in Seq(Turns) /\ Head(queue) \in Turns
  BY Known DEF LoseTurn, Take
<1>2. lost' \subseteq Turns
  BY <1>1, Known DEF LoseTurn
<1> QED BY <1>1, <1>2, Known, BesideKeeps DEF LoseTurn, Take, provider, ingestion

LEMMA IngestTakeKeeps == ASSUME IInv, IngestTake PROVE IInv'
<1>1. Head(runtime) \in Events /\ runtime' \in Seq(Events)
  BY Known DEF IngestTake
<1>2. ingesting' \in [event : Events, seen : SessionType]
  BY <1>1, Known DEF IngestTake
<1> QED BY <1>1, <1>2, Known, BesideKeeps DEF IngestTake, provider, history

LEMMA IngestApplyKeeps == ASSUME IInv, IngestApply PROVE IInv'
<1>1. ingesting.event \in Events /\ ingesting.seen \in SessionType
  BY Known DEF IngestApply
<1>2. ASSUME NEW s \in SessionType, NEW e \in Events
      PROVE  SessionAfter(s, e) \in SessionType
  BY DEF SessionAfter, Session, SessionType, Events, Modes
<1>3. session' \in SessionType
  BY <1>1, <1>2, Known DEF IngestApply
<1> QED BY <1>3, Known, BesideKeeps DEF IngestApply, provider, history

LEMMA ProviderKeeps == ASSUME IInv, EndTurn \/ Exit PROVE IInv'
<1>1. Quieter
  BY DEF EndTurn, Exit, Quieter
<1>2. runtime' \in Seq(Events)
  BY Emitted DEF EndTurn, Exit
<1> QED BY <1>1, <1>2, Known, BesideKeeps DEF EndTurn, Exit, history

LEMMA CrashKeeps == ASSUME IInv, Crash PROVE IInv'
<1>1. /\ UNCHANGED <<readModel, session, binding, conversations, handed, reported>>
      /\ live' = None /\ queue' = <<>> /\ runtime' = <<>> /\ ingesting' = None
      /\ fibers' = [f \in Fibers |-> Idle]
  BY DEF Crash, Fibers
<1>2. lost' \subseteq Turns /\ cut' \subseteq Turns
  <2>1. Asked \subseteq Turns /\ lost \subseteq Turns /\ cut \subseteq Turns
        /\ session.turn \in Turns \cup {None}
    BY DEF IInv, TypeOK, Asked, SessionType
  <2> QED BY <2>1 DEF Crash
<1>3. binding' \in BindingType' \cup {None}
      /\ handed' \subseteq [turn : Turns, conversation : Conversations]'
  BY <1>1 DEF IInv, TypeOK, BindingType, Conversations
<1>4. FibersFollow'
  BY <1>1, IdleIsGood DEF FibersFollow
<1>5. TypeOK'
  BY <1>1, <1>2, <1>3 DEF IInv, TypeOK, Fibers, readModel
<1>6. EventsTyped' /\ OneConversation'
  BY <1>1 DEF IInv, EventsTyped, OneConversation
<1> QED BY <1>4, <1>5, <1>6 DEF IInv

-----------------------------------------------------------------------------
LEMMA InitHolds == Init => IInv
<1> SUFFICES ASSUME Init PROVE IInv
  OBVIOUS
<1>1. TypeOK
  BY RequestAssumption DEF Init, TypeOK, Session, SessionType, Modes, Worker, Reaper, Turns
<1>2. EventsTyped /\ OneConversation
  BY DEF Init, EventsTyped, OneConversation
<1>3. FibersFollow
  BY IdleIsGood DEF Init, FibersFollow, Fibers
<1> QED BY <1>1, <1>2, <1>3 DEF IInv

LEMMA StepKeeps == ASSUME IInv, NEW f \in Fibers, Step(f) PROVE IInv'
BY EnsureKeeps, FindKeeps, StartKeeps, RouteKeeps, RecoverSessionKeeps, ReadKeeps, WriteKeeps,
   BindKeeps, DeliverKeeps, InterruptKeeps, HaltKeeps, UnbindKeeps, RecoverKeeps, ReportKeeps,
   BindingsKeeps DEF Step

(* The invariant is kept by every step, one lemma per action.              *)
THEOREM Inductive == Spec => []IInv
<1>1. ASSUME IInv, [Next]_vars PROVE IInv'
  <2>1. ASSUME NEW kind \in Kinds, Request(kind) PROVE IInv'
    BY <1>1, <2>1, RequestKeeps
  <2>2. CASE Run
    <3>1. ASSUME NEW f \in Worker..Reaper, Step(f) PROVE IInv'
      BY <1>1, <3>1, StepKeeps DEF Fibers
    <3> QED
      BY <1>1, <2>2, <3>1, TakingKeeps, IngestTakeKeeps, IngestApplyKeeps, ProviderKeeps DEF Run
  <2>3. CASE LoseTurn \/ Sweep \/ Exit \/ Crash
    BY <1>1, <2>3, LoseTurnKeeps, SweepKeeps, ProviderKeeps, CrashKeeps
  <2>4. CASE UNCHANGED vars
    <3>1. /\ UNCHANGED <<readModel, binding, conversations, fibers, handed, reported, cut>>
          /\ UNCHANGED <<live, session, queue, lost, runtime, ingesting>>
      BY <2>4 DEF vars, readModel
    <3> QED BY <1>1, <3>1, Known, BesideKeeps
  <2> QED BY <1>1, <2>1, <2>2, <2>3, <2>4 DEF Next
<1> QED BY <1>1, InitHolds, PTL DEF Spec

(* Every variable keeps its type, for any number of requests, failures and *)
(* crashes.                                                                *)
THEOREM TypeCorrect == Spec => []TypeOK
<1>1. IInv => TypeOK
  BY DEF IInv
<1> QED BY <1>1, Inductive, PTL

(* Every turn the provider was given is in the conversation of the binding *)
(* that is stored: no stop, restart, recovery or late upsert of            *)
(* ProviderService begins another one for the thread.                      *)
THEOREM ConversationIsKept == Spec => []ConversationKept
<1>1. IInv => ConversationKept
  BY DEF IInv, OneConversation, ConversationKept
<1> QED BY <1>1, Inductive, PTL
=============================================================================
