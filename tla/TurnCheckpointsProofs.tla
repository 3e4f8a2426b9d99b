------------------------- MODULE TurnCheckpointsProofs -------------------------
(***************************************************************************)
(* However many turns there are, and however placeholders, captures and    *)
(* failures mix: what has been captured stays captured until it is         *)
(* reverted; and as long as the user waits for the workers, no two turns   *)
(* have the same count, a captured turn has its files under its ref, a     *)
(* revert brings them back, and the checkpoints are those of the turns in  *)
(* the conversation.  Whether the user waits or not, the state has its     *)
(* type: nothing is ever counted above the bounds TypeOK gives.            *)
(***************************************************************************)
EXTENDS TurnCheckpoints, FiniteSetTheorems, TLAPS

Report(turn, count, status) == [Capture(turn, count, status) EXCEPT !.step = "report"]

(* The thread exists, and has checkpoints.                                 *)
ThreadShape == thread.exists = TRUE /\ {"exists", "checkpoints"} \subseteq DOMAIN thread

ReactorShape ==
  /\ reactor.step \in {"capture", "report"} =>
       reactor = Capture(reactor.turn, reactor.count, reactor.status)
         \/ reactor = Report(reactor.turn, reactor.count, reactor.status)
  /\ reactor.step \in {"restore", "rollback", "delete", "deleting"} =>
       reactor = [step |-> reactor.step, count |-> reactor.count, current |-> reactor.current,
                  stale |-> reactor.stale]

(* Nobody else captures the turn that the reactor is about to report: it   *)
(* was not captured when the reactor decided, and the ingestion leaves     *)
(* placeholders only.                                                      *)
NotYetCaptured ==
  reactor.step \in {"capture", "report"} => ~IsCaptured(thread.checkpoints, reactor.turn)

IInv == ThreadShape /\ ReactorShape /\ NotYetCaptured

(* The checkpoints when c takes the place of what its turn had.            *)
Replaced(checkpoints, c) == {k \in checkpoints : k.turn # c.turn} \cup {c}

(* The user waits, and the workers are busy with the last turn t, or with  *)
(* a revert.  Counts are those of other turns, up to Highest, and the next *)
(* one, which is that of turn t wherever it was counted.                   *)
OthersOf(checkpoints, t) == {k \in checkpoints : k.turn # t}
NextCount(checkpoints, t) == Highest(OthersOf(checkpoints, t)) + 1

Counted(checkpoints) ==
  /\ \A k \in checkpoints : k.count \in Nat /\ k.turn \in Nat
  /\ \E bound \in Nat : \A k \in checkpoints : k.count <= bound

CountedInTurn(checkpoints, t) ==
  /\ Counted(checkpoints)
  /\ \A j, k \in checkpoints : j.count = k.count => j.turn = k.turn
  /\ \A k \in checkpoints : k.turn <= t /\ (k.turn = t => k.count = NextCount(checkpoints, t))

Events(inbox) == {inbox[i] : i \in DOMAIN inbox}
IsRevert(e) == e.type = "thread.checkpoint-revert-requested"

AboutTurn(e, t, next) ==
  /\ e.type = "turn.completed" => e.turn = t
  /\ e.type = "thread.turn-diff-completed" => e.turn = t /\ e.count = next
  /\ IsRevert(e) => e.count \in Nat

Reverting == {"restore", "rollback", "delete", "deleting"}

IsQueue(inbox) == \E S : inbox \in Seq(S)

(* A revert is asked for when all is quiet, and nothing happens beside it. *)
RevertAlone ==
  /\ (\E e \in Events(reactorInbox) : IsRevert(e)) =>
       Len(reactorInbox) = 1 /\ reactor = Idle /\ ingestInbox = <<>> /\ ingesting = Idle
  /\ reactor.step \in Reverting =>
       /\ reactorInbox = <<>> /\ ingestInbox = <<>> /\ ingesting = Idle
       /\ reactor.count \in Nat

OneRound ==
  LET next == NextCount(thread.checkpoints, lastTurn) IN
  /\ lastTurn \in Nat /\ asked \in {None, lastTurn} /\ running \in {None, lastTurn}
  /\ IsQueue(reactorInbox) /\ IsQueue(ingestInbox)
  /\ CountedInTurn(thread.checkpoints, lastTurn)
  /\ \A e \in Events(reactorInbox) : AboutTurn(e, lastTurn, next)
  /\ \A e \in Events(ingestInbox) : e.turn = lastTurn
  /\ reactor.step \in {"capture", "report"} => reactor.turn = lastTurn /\ reactor.count = next
  /\ ingesting.step = "dispatch" =>
       /\ ingesting.event.turn = lastTurn
       /\ OthersOf(ingesting.seen.checkpoints, lastTurn) = OthersOf(thread.checkpoints, lastTurn)
  /\ RevertAlone

RInv == ~hurried => OneRound

(* The end of the turn that the workers are busy with: while anything of   *)
(* it is under way the workspace is as it was when the turn ended, so a    *)
(* ref that is written then is right, and stays so.                        *)
InFlight ==
  \/ reactor.step \in {"capture", "report"}
  \/ \E e \in Events(reactorInbox) : e.type \in {"turn.completed", "thread.turn-diff-completed"}
  \/ \E e \in Events(ingestInbox) : e.type = "turn.diff.updated"
  \/ ingesting.step = "dispatch" /\ ingesting.event.type = "turn.diff.updated"

TurnIsOver ==
  lastTurn \in Turns /\ running = None /\ asked = None /\ files = filesAfter[lastTurn]

Workspaces == SUBSET Edits

FilesTyped ==
  /\ lastTurn \in 0..MaxTurns /\ files \in Workspaces
  /\ refs \in [Counts -> Workspaces \cup {None}]
  /\ DOMAIN filesAfter = Turns

RefsAreCounts ==
  \A k \in thread.checkpoints :
    /\ k.count \in Counts \ {0} /\ k.count <= k.turn /\ k.ref \in {None, k.count}
    /\ k.status # "missing" => k.ref # None

(* A turn has no checkpoint before it ends.                                *)
RunningIsNew ==
  /\ running = None \/ asked = None
  /\ running # None \/ asked # None =>
       lastTurn \in Turns /\ \A k \in thread.checkpoints : k.turn # lastTurn

(* A ref is right, or has been deleted by the revert in hand.              *)
RefsAreTurnEnds ==
  \A k \in thread.checkpoints : k.ref # None =>
    \/ reactor.step = "deleting" /\ k.count > reactor.count
    \/ refs[k.count] = filesAfter[k.turn] /\ refs[k.count] # None

ReportedRef == reactor.step = "report" => refs[reactor.count] = files

(* A revert has a target, restores it, and deletes refs above it only.     *)
RevertGoesBack ==
  /\ reactor.step = "restore" =>
       reactor.count = 0 \/ \E k \in thread.checkpoints : k.count = reactor.count /\ k.ref # None
  /\ reactor.step \in {"rollback", "delete", "deleting"} =>
       \A k \in thread.checkpoints : k.count = reactor.count => files = filesAfter[k.turn]
  /\ reactor.step \in Reverting =>
       /\ \A n \in reactor.stale : n > reactor.count
       /\ \A k \in thread.checkpoints : k.count > reactor.count /\ k.ref # None =>
            k.count \in reactor.stale \/ refs[k.count] = None

FilesInv ==
  /\ FilesTyped /\ (InFlight => TurnIsOver)
  /\ RefsAreCounts /\ RunningIsNew /\ RefsAreTurnEnds
  /\ ReportedRef /\ RevertGoesBack

FInv == ~hurried /\ ~torn => FilesInv

Stays(old, new) ==
  \A k \in old : k.status # "missing" =>
    \E c \in new : c.status # "missing" /\ c.turn = k.turn /\ c.count = k.count

-----------------------------------------------------------------------------
(* The projector.                                                          *)
LEMMA SessionSetKeeps ==
  ASSUME NEW th, th.exists = TRUE, {"exists", "checkpoints"} \subseteq DOMAIN th, NEW s,
         NEW new, new = ThreadAfter(th, [type |-> "thread.session-set", arg |-> s])
  PROVE  /\ new.exists = TRUE /\ {"exists", "checkpoints"} \subseteq DOMAIN new
         /\ new.checkpoints = th.checkpoints
<1>1. new = SetSession(th, s)
  BY DEF ThreadAfter
<1> QED BY <1>1 DEF SetSession

LEMMA DiffCompletes ==
  ASSUME NEW th, th.exists = TRUE, {"exists", "checkpoints"} \subseteq DOMAIN th, NEW c,
         NEW new, new = ThreadAfter(th, [type |-> "thread.turn-diff-completed", arg |-> c])
  PROVE  /\ new.exists = TRUE /\ {"exists", "checkpoints"} \subseteq DOMAIN new
         /\ \/ /\ new.checkpoints = th.checkpoints
               /\ IsCaptured(th.checkpoints, c.turn) /\ c.status = "missing"
            \/ /\ new.checkpoints = Replaced(th.checkpoints, c)
               /\ c.status = "missing" => ~IsCaptured(th.checkpoints, c.turn)
<1>1. new = CompleteTurnDiff(th, c)
  BY DEF ThreadAfter
<1> QED BY <1>1 DEF CompleteTurnDiff, IsCaptured, Replaced

LEMMA RevertKeepsShape ==
  ASSUME NEW th, th.exists = TRUE, {"exists", "checkpoints"} \subseteq DOMAIN th, NEW n,
         NEW new, new = ThreadAfter(th, [type |-> "thread.reverted", arg |-> [turnCount |-> n]])
  PROVE  new.exists = TRUE /\ {"exists", "checkpoints"} \subseteq DOMAIN new
<1>1. new = Revert(th, n)
  BY DEF ThreadAfter
<1> QED BY <1>1 DEF Revert

-----------------------------------------------------------------------------
(* The two workers.                                                        *)
LEMMA IngestDispatchKeeps ==
  ASSUME IInv, IngestDispatch PROVE IInv' /\ Stays(thread.checkpoints, thread'.checkpoints)
<1>1. ThreadShape /\ ReactorShape /\ NotYetCaptured /\ UNCHANGED reactor
  BY DEF IInv, IngestDispatch
<1>2. /\ ThreadShape'
      /\ \/ thread'.checkpoints = thread.checkpoints
         \/ \E c : /\ thread'.checkpoints = Replaced(thread.checkpoints, c)
                   /\ c.status = "missing" /\ ~IsCaptured(thread.checkpoints, c.turn)
  <2>1. ASSUME NEW s, thread' = ThreadAfter(thread, [type |-> "thread.session-set", arg |-> s])
        PROVE  ThreadShape' /\ thread'.checkpoints = thread.checkpoints
    BY <1>1, <2>1, SessionSetKeeps DEF ThreadShape
  <2>2. ASSUME NEW c, CompleteDiff(c), c.status = "missing"
        PROVE  /\ ThreadShape'
               /\ \/ thread'.checkpoints = thread.checkpoints
                  \/ /\ thread'.checkpoints = Replaced(thread.checkpoints, c)
                     /\ ~IsCaptured(thread.checkpoints, c.turn)
    <3>1. thread' = ThreadAfter(thread, [type |-> "thread.turn-diff-completed", arg |-> c])
      BY <2>2 DEF CompleteDiff
    <3>2. thread.exists = TRUE /\ {"exists", "checkpoints"} \subseteq DOMAIN thread
      BY <1>1 DEF ThreadShape
    <3>3. /\ thread'.exists = TRUE /\ {"exists", "checkpoints"} \subseteq DOMAIN thread'
          /\ \/ thread'.checkpoints = thread.checkpoints
             \/ /\ thread'.checkpoints = Replaced(thread.checkpoints, c)
                /\ c.status = "missing" => ~IsCaptured(thread.checkpoints, c.turn)
      BY <3>1, <3>2, DiffCompletes
    <3> QED BY <2>2, <3>3 DEF ThreadShape
  <2>3. CASE \E s : thread' = ThreadAfter(thread, [type |-> "thread.session-set", arg |-> s])
    BY <2>1, <2>3
  <2>4. CASE \E turn, count : CompleteDiff(Checkpoint(turn, count, "missing", None))
    <3>1. \A turn, count : Checkpoint(turn, count, "missing", None).status = "missing"
      BY DEF Checkpoint
    <3> QED BY <2>2, <2>4, <3>1
  <2> QED BY <2>3, <2>4 DEF IngestDispatch, SetSessionTo
<1>3. /\ Stays(thread.checkpoints, thread'.checkpoints)
      /\ \A turn : IsCaptured(thread'.checkpoints, turn) => IsCaptured(thread.checkpoints, turn)
  <2>1. CASE thread'.checkpoints = thread.checkpoints
    BY <2>1 DEF Stays
  <2>2. ASSUME NEW c, c.status = "missing", ~IsCaptured(thread.checkpoints, c.turn),
               thread'.checkpoints = Replaced(thread.checkpoints, c)
        PROVE  /\ Stays(thread.checkpoints, thread'.checkpoints)
               /\ \A turn : IsCaptured(thread'.checkpoints, turn)
                              => IsCaptured(thread.checkpoints, turn)
    BY <2>2 DEF Stays, IsCaptured, Replaced
  <2> QED BY <1>2, <2>1, <2>2
<1>4. ReactorShape' /\ NotYetCaptured'
  BY <1>1, <1>3 DEF ReactorShape, NotYetCaptured
<1> QED BY <1>2, <1>3, <1>4 DEF IInv

(* The reactor decides to capture a turn only if nobody has.               *)
LEMMA TakeKeeps ==
  ASSUME IInv, TakeTurnStart \/ TakeCompletion \/ TakePlaceholder \/ TakeRevert
  PROVE  IInv' /\ UNCHANGED thread
<1>1. ThreadShape /\ UNCHANGED thread
  BY DEF IInv, TakeTurnStart, TakeCompletion, TakePlaceholder, TakeRevert, Take
<1>2. \/ reactor'.step \in {"idle", "baseline"}
      \/ \E turn, count, status : /\ reactor' = Capture(turn, count, status)
                                  /\ ~IsCaptured(thread.checkpoints, turn)
      \/ \E n, current, stale : reactor' = [step |-> "restore", count |-> n, current |-> current,
                                            stale |-> stale]
  <2>1. CASE TakeTurnStart
    <3>1. \E n : reactor' = [step |-> "baseline", count |-> n]
      BY <2>1 DEF TakeTurnStart, Take
    <3> QED BY <3>1
  <2>2. CASE TakeCompletion \/ TakePlaceholder
    <3>1. \/ reactor' = Idle
          \/ \E turn, count, status : /\ reactor' = Capture(turn, count, status)
                                      /\ ~IsCaptured(thread.checkpoints, turn)
      BY <2>2 DEF TakeCompletion, TakePlaceholder, Take, CapturesCompletion
    <3> QED BY <3>1 DEF Idle
  <2>3. CASE TakeRevert
    <3>1. \/ reactor' = Idle
          \/ \E n, current, stale : reactor' = [step |-> "restore", count |-> n,
                                                current |-> current, stale |-> stale]
      BY <2>3 DEF TakeRevert, Take
    <3> QED BY <3>1 DEF Idle
  <2> QED BY <2>1, <2>2, <2>3
<1>3. ReactorShape' /\ NotYetCaptured'
  <2>1. CASE reactor'.step \in {"idle", "baseline"}
    BY <2>1 DEF ReactorShape, NotYetCaptured
  <2>2. ASSUME NEW turn, NEW count, NEW status, reactor' = Capture(turn, count, status),
               ~IsCaptured(thread.checkpoints, turn)
        PROVE  ReactorShape' /\ NotYetCaptured'
    <3>1. /\ reactor'.step = "capture" /\ reactor'.turn = turn /\ reactor'.count = count
          /\ reactor'.status = status
      BY <2>2 DEF Capture
    <3> QED BY <1>1, <2>2, <3>1 DEF ReactorShape, NotYetCaptured
  <2>3. ASSUME NEW n, NEW current, NEW stale,
               reactor' = [step |-> "restore", count |-> n, current |-> current, stale |-> stale]
        PROVE  ReactorShape' /\ NotYetCaptured'
    <3>1. /\ reactor'.step = "restore" /\ reactor'.count = n /\ reactor'.current = current
          /\ reactor'.stale = stale
      BY <2>3
    <3> QED BY <2>3, <3>1 DEF ReactorShape, NotYetCaptured
  <2> QED BY <1>2, <2>1, <2>2, <2>3
<1> QED BY <1>1, <1>3 DEF IInv, ThreadShape

LEMMA CaptureTurnKeeps ==
  ASSUME IInv, CaptureTurn PROVE IInv' /\ UNCHANGED thread
<1>1. /\ ThreadShape /\ reactor.step = "capture" /\ reactor' = [reactor EXCEPT !.step = "report"]
      /\ UNCHANGED thread /\ ~IsCaptured(thread.checkpoints, reactor.turn)
  BY DEF IInv, CaptureTurn, NotYetCaptured
<1>2. \/ reactor = Capture(reactor.turn, reactor.count, reactor.status)
      \/ reactor = Report(reactor.turn, reactor.count, reactor.status)
  BY <1>1 DEF IInv, ReactorShape
<1>3. reactor' = Report(reactor.turn, reactor.count, reactor.status)
  BY <1>1, <1>2 DEF Capture, Report
<1>4. /\ reactor'.step = "report" /\ reactor'.turn = reactor.turn
      /\ reactor'.count = reactor.count /\ reactor'.status = reactor.status
  BY <1>3 DEF Capture, Report
<1>5. ReactorShape' /\ NotYetCaptured'
  BY <1>1, <1>3, <1>4 DEF ReactorShape, NotYetCaptured
<1> QED BY <1>1, <1>5 DEF IInv, ThreadShape

LEMMA ReportCaptureKeeps ==
  ASSUME IInv, ReportCapture PROVE IInv' /\ Stays(thread.checkpoints, thread'.checkpoints)
<1>1. PICK c : c = Checkpoint(reactor.turn, reactor.count, reactor.status, reactor.count)
  OBVIOUS
<1>2. c.turn = reactor.turn /\ ~IsCaptured(thread.checkpoints, c.turn)
  BY <1>1 DEF IInv, NotYetCaptured, ReportCapture, Checkpoint
<1>3. /\ ThreadShape'
      /\ \/ thread'.checkpoints = thread.checkpoints
         \/ thread'.checkpoints = Replaced(thread.checkpoints, c)
  <2>1. thread' = ThreadAfter(thread, [type |-> "thread.turn-diff-completed", arg |-> c])
    BY <1>1 DEF ReportCapture, CompleteDiff
  <2>2. thread.exists = TRUE /\ {"exists", "checkpoints"} \subseteq DOMAIN thread
    BY DEF IInv, ThreadShape
  <2>3. /\ thread'.exists = TRUE /\ {"exists", "checkpoints"} \subseteq DOMAIN thread'
        /\ \/ thread'.checkpoints = thread.checkpoints
           \/ thread'.checkpoints = Replaced(thread.checkpoints, c)
    BY <2>1, <2>2, DiffCompletes
  <2> QED BY <2>3 DEF ThreadShape
<1>4. Stays(thread.checkpoints, thread'.checkpoints)
  BY <1>2, <1>3 DEF Stays, IsCaptured, Replaced
<1>5. reactor'.step = "idle"
  BY DEF ReportCapture, Idle
<1> QED BY <1>3, <1>4, <1>5 DEF IInv, ReactorShape, NotYetCaptured

LEMMA RevertKeeps ==
  ASSUME IInv, RestoreFiles \/ RollBackConversation \/ DeleteRef
  PROVE  IInv' /\ UNCHANGED thread
<1>1. PICK r : r = reactor'
  OBVIOUS
<1>2. ThreadShape /\ UNCHANGED thread
  BY DEF IInv, RestoreFiles, RollBackConversation, DeleteRef
<1>3. reactor = [step |-> reactor.step, count |-> reactor.count, current |-> reactor.current,
                 stale |-> reactor.stale]
  BY DEF IInv, ReactorShape, RestoreFiles, RollBackConversation, DeleteRef
<1>4. \/ r = Idle
      \/ \E step \in {"rollback", "delete"} : r = [reactor EXCEPT !.step = step]
      \/ \E n : r = [reactor EXCEPT !.stale = reactor.stale \ {n}, !.step = "deleting"]
  BY <1>1, <1>3 DEF RestoreFiles, RollBackConversation, DeleteRef
<1>5. \/ r.step = "idle"
      \/ /\ r.step \in {"rollback", "delete", "deleting"}
         /\ r = [step |-> r.step, count |-> r.count, current |-> r.current, stale |-> r.stale]
  <2>1. CASE r = Idle
    BY <2>1 DEF Idle
  <2>2. ASSUME NEW step \in {"rollback", "delete"}, r = [reactor EXCEPT !.step = step]
        PROVE  /\ r.step = step
               /\ r = [step |-> r.step, count |-> r.count, current |-> r.current,
                       stale |-> r.stale]
    BY <1>3, <2>2
  <2>3. ASSUME NEW n, r = [reactor EXCEPT !.stale = reactor.stale \ {n}, !.step = "deleting"]
        PROVE  /\ r.step = "deleting"
               /\ r = [step |-> r.step, count |-> r.count, current |-> r.current,
                       stale |-> r.stale]
    BY <1>3, <2>3
  <2> QED BY <1>4, <2>1, <2>2, <2>3
<1>6. ReactorShape' /\ NotYetCaptured'
  BY <1>1, <1>5 DEF ReactorShape, NotYetCaptured
<1> QED BY <1>2, <1>6 DEF IInv, ThreadShape

LEMMA CompleteRevertKeeps == ASSUME IInv, CompleteRevert PROVE IInv'
<1>1. ThreadShape'
  <2>1. thread' = ThreadAfter(thread, [type |-> "thread.reverted",
                                       arg |-> [turnCount |-> reactor.count]])
    BY DEF CompleteRevert
  <2>2. thread.exists = TRUE /\ {"exists", "checkpoints"} \subseteq DOMAIN thread
    BY DEF IInv, ThreadShape
  <2>3. thread'.exists = TRUE /\ {"exists", "checkpoints"} \subseteq DOMAIN thread'
    BY <2>1, <2>2, RevertKeepsShape
  <2> QED BY <2>3 DEF ThreadShape
<1>2. reactor'.step = "idle"
  BY DEF CompleteRevert, Idle
<1> QED BY <1>1, <1>2 DEF IInv, ReactorShape, NotYetCaptured

(* What the others do is beside the thread; the reactor may go back to     *)
(* rest.                                                                   *)
LEMMA BesideKeeps ==
  ASSUME IInv, UNCHANGED thread, reactor' \in {reactor, Idle} PROVE IInv'
<1>1. reactor' = reactor \/ reactor'.step = "idle"
  BY DEF Idle
<1> QED BY <1>1 DEF IInv, ThreadShape, ReactorShape, NotYetCaptured

LEMMA OthersBeside ==
  ASSUME \/ AskTurn \/ StartTurn \/ Edit \/ EndTurn \/ AskRevert
         \/ IngestTake \/ IngestIgnore \/ CaptureBaseline \/ FailReactor \/ FailIngestion
         \/ UNCHANGED vars
  PROVE  UNCHANGED thread /\ reactor' \in {reactor, Idle}
BY DEF AskTurn, StartTurn, Edit, EndTurn, AskRevert, IngestTake, IngestIgnore, CaptureBaseline,
       FailReactor, FailIngestion, vars

-----------------------------------------------------------------------------
LEMMA InitHolds == Init => IInv
<1> SUFFICES ASSUME Init PROVE IInv
  OBVIOUS
<1>1. thread = NewThread(None) /\ reactor.step = "idle"
  BY DEF Init, Idle
<1> QED BY <1>1 DEF IInv, ThreadShape, ReactorShape, NotYetCaptured, NewThread

LEMMA StepKeeps ==
  ASSUME IInv, [Next]_vars
  PROVE  /\ IInv'
         /\ reactor.step \in {"delete", "deleting"}
              \/ Stays(thread.checkpoints, thread'.checkpoints)
<1>1. UNCHANGED thread => Stays(thread.checkpoints, thread'.checkpoints)
  BY DEF Stays
<1>2. CASE IngestDispatch \/ ReportCapture
  BY <1>2, IngestDispatchKeeps, ReportCaptureKeeps
<1>3. CASE CompleteRevert
  BY <1>3, CompleteRevertKeeps DEF CompleteRevert
<1>4. CASE \/ TakeTurnStart \/ TakeCompletion \/ TakePlaceholder \/ TakeRevert
           \/ CaptureTurn \/ RestoreFiles \/ RollBackConversation \/ DeleteRef
  BY <1>1, <1>4, TakeKeeps, CaptureTurnKeeps, RevertKeeps
<1>5. CASE \/ AskTurn \/ StartTurn \/ Edit \/ EndTurn \/ AskRevert
           \/ IngestTake \/ IngestIgnore \/ CaptureBaseline \/ FailReactor \/ FailIngestion
           \/ UNCHANGED vars
  <2>1. UNCHANGED thread /\ reactor' \in {reactor, Idle}
    BY <1>5, OthersBeside
  <2> QED BY <1>1, <2>1, BesideKeeps
<1> QED BY <1>2, <1>3, <1>4, <1>5 DEF Next, Outside, Workers

(* A captured checkpoint stays captured, under its count, until a revert   *)
(* discards it, for any number of turns, reverts and failures, and         *)
(* whether or not user and provider wait for the workers.                  *)
THEOREM CapturesStay == Spec => CapturedStays
<1>1. ASSUME IInv, [Next]_vars
      PROVE  /\ IInv'
             /\ [reactor.step \notin {"delete", "deleting"} =>
                   \A k \in Captured :
                     \E c \in Captured' : c.turn = k.turn /\ c.count = k.count]_vars
  BY <1>1, StepKeeps DEF Stays, Captured
<1> QED BY <1>1, InitHolds, PTL DEF Spec, CapturedStays

-----------------------------------------------------------------------------
(* Counting: the highest of a bounded set of numbers.                      *)
LEMMA MaxOfBounded ==
  ASSUME NEW S, S \subseteq Nat, S # {}, NEW bound \in Nat, \A n \in S : n <= bound
  PROVE  Max(S) \in S /\ \A n \in S : n <= Max(S)
<1> DEFINE T == {m \in Nat : \E n \in S : m = bound - n}
<1>1. T \subseteq Nat /\ T # {}
  <2>1. PICK n \in S : TRUE
    OBVIOUS
  <2>2. n \in Nat /\ n <= bound
    BY <2>1
  <2>3. bound - n \in T
    BY <2>1, <2>2
  <2> QED BY <2>3
<1>2. PICK x \in T : \A y \in T : x <= y
  <2>1. OpToRel(<, Nat) = {pair \in Nat \X Nat : pair[1] < pair[2]}
    BY Zenon DEF OpToRel
  <2>2. IsWellFoundedOn({pair \in Nat \X Nat : pair[1] < pair[2]}, Nat)
    BY Zenon, NatLessThanWellFounded, <2>1
  <2>3. PICK less : less = {pair \in Nat \X Nat : pair[1] < pair[2]}
    OBVIOUS
  <2>4. IsWellFoundedOn(less, Nat)
    BY Zenon, <2>2, <2>3
  <2>5. PICK x \in T : \A y \in T : <<y, x>> \notin less
    BY Zenon, <1>1, <2>4, WFMin
  <2>6. ASSUME NEW y \in Nat, NEW z \in Nat, y < z PROVE <<y, z>> \in less
    BY <2>3, <2>6
  <2>7. ASSUME NEW y \in T PROVE ~ y < x
    BY <1>1, <2>5, <2>6
  <2>8. ASSUME NEW y \in T PROVE x <= y
    BY <2>7
  <2> QED BY <2>8
<1>3. PICK m \in S : x = bound - m
  OBVIOUS
<1>4. ASSUME NEW n \in S PROVE m >= n
  <2>1. n \in Nat /\ n <= bound /\ m \in Nat
    BY <1>4
  <2>2. bound - n \in T
    BY <2>1
  <2>3. x <= bound - n
    BY <1>2, <2>2
  <2> QED BY <1>3, <2>1, <2>3
<1>5. Max(S) \in S /\ \A n \in S : Max(S) >= n
  BY <1>4 DEF Max
<1> QED BY <1>5

LEMMA HighestCount ==
  ASSUME NEW checkpoints, Counted(checkpoints)
  PROVE  /\ Highest(checkpoints) \in Nat
         /\ \A k \in checkpoints : k.count <= Highest(checkpoints)
         /\ Highest(checkpoints) = 0 \/ \E k \in checkpoints : k.count = Highest(checkpoints)
<1> DEFINE S == {k.count : k \in checkpoints} \cup {0}
<1>1. PICK bound \in Nat : \A k \in checkpoints : k.count \in Nat /\ k.count <= bound
  BY DEF Counted
<1>2. S \subseteq Nat /\ S # {} /\ \A n \in S : n <= bound
  BY <1>1
<1>3. Highest(checkpoints) = Max(S)
  BY DEF Highest
<1> HIDE DEF S
<1>4. Max(S) \in S /\ \A n \in S : n <= Max(S)
  BY <1>2, MaxOfBounded
<1> QED BY <1>2, <1>3, <1>4 DEF S

LEMMA CountedSubset ==
  ASSUME NEW all, Counted(all), NEW some, some \subseteq all PROVE Counted(some)
BY DEF Counted

LEMMA NextIsNew ==
  ASSUME NEW checkpoints, NEW t, Counted(checkpoints)
  PROVE  /\ NextCount(checkpoints, t) \in Nat
         /\ \A k \in checkpoints : k.turn # t => k.count < NextCount(checkpoints, t)
<1>1. Counted(OthersOf(checkpoints, t))
  BY CountedSubset DEF OthersOf
<1>2. /\ Highest(OthersOf(checkpoints, t)) \in Nat
      /\ \A k \in OthersOf(checkpoints, t) :
           k.count <= Highest(OthersOf(checkpoints, t)) /\ k.count \in Nat
  BY <1>1, HighestCount DEF Counted
<1> QED BY <1>2 DEF NextCount, OthersOf

(* A checkpoint of turn t under the next count takes the place of what     *)
(* that turn had.                                                          *)
LEMMA ReplacedIsCounted ==
  ASSUME NEW checkpoints, NEW t \in Nat, NEW c, CountedInTurn(checkpoints, t),
         c.turn = t, c.count = NextCount(checkpoints, t)
  PROVE  /\ CountedInTurn(Replaced(checkpoints, c), t)
         /\ OthersOf(Replaced(checkpoints, c), t) = OthersOf(checkpoints, t)
         /\ NextCount(Replaced(checkpoints, c), t) = NextCount(checkpoints, t)
<1>1. OthersOf(Replaced(checkpoints, c), t) = OthersOf(checkpoints, t)
  BY DEF OthersOf, Replaced
<1>2. NextCount(Replaced(checkpoints, c), t) = NextCount(checkpoints, t)
  BY <1>1 DEF NextCount
<1>3. /\ Counted(checkpoints) /\ NextCount(checkpoints, t) \in Nat
      /\ \A k \in checkpoints : k.turn # t => k.count < NextCount(checkpoints, t)
  BY NextIsNew DEF CountedInTurn
<1>4. PICK next \in Nat : next = NextCount(checkpoints, t)
  BY <1>3
<1>5. \A k \in Replaced(checkpoints, c) :
        k = c \/ (k \in checkpoints /\ k.turn # t /\ k.count < next)
  BY <1>3, <1>4 DEF Replaced
<1>6. Counted(Replaced(checkpoints, c))
  <2>1. PICK bound \in Nat : \A k \in checkpoints : k.count <= bound
    BY <1>3 DEF Counted
  <2>2. \A k \in checkpoints : k.count \in Nat /\ k.turn \in Nat
    BY <1>3 DEF Counted
  <2>3. \A k \in Replaced(checkpoints, c) : k.count \in Nat /\ k.turn \in Nat /\ k.count <= next
    BY <1>4, <1>5, <2>2
  <2> QED BY <2>3 DEF Counted
<1>7. ASSUME NEW j \in Replaced(checkpoints, c), NEW k \in Replaced(checkpoints, c),
             j.count = k.count
      PROVE  j.turn = k.turn
  BY <1>4, <1>5, <1>7 DEF CountedInTurn
<1>8. ASSUME NEW k \in Replaced(checkpoints, c)
      PROVE  k.turn <= t /\ (k.turn = t => k.count = NextCount(Replaced(checkpoints, c), t))
  BY <1>2, <1>4, <1>5 DEF CountedInTurn
<1> QED BY <1>1, <1>2, <1>6, <1>7, <1>8 DEF CountedInTurn

(* A revert to n turns.                                                    *)
LEMMA CutIsCounted ==
  ASSUME NEW checkpoints, NEW t \in Nat, NEW n \in Nat, CountedInTurn(checkpoints, t)
  PROVE  CountedInTurn({k \in checkpoints : k.count <= n}, t)
<1> DEFINE cut == {k \in checkpoints : k.count <= n}
<1>1. Counted(checkpoints) /\ Counted(cut)
  BY CountedSubset DEF CountedInTurn
<1>2. ASSUME NEW k \in cut, k.turn = t PROVE k.count = NextCount(cut, t)
  <2>1. k \in checkpoints /\ k.count = NextCount(checkpoints, t) /\ k.count <= n
    BY <1>2 DEF CountedInTurn
  <2>2. \A j \in OthersOf(checkpoints, t) : j.count \in Nat /\ j.count < k.count /\ k.count \in Nat
    BY <1>1, <2>1, NextIsNew DEF OthersOf, Counted
  <2>3. OthersOf(cut, t) = OthersOf(checkpoints, t)
    BY <2>1, <2>2 DEF OthersOf
  <2> QED BY <2>1, <2>3 DEF NextCount
<1> QED BY <1>1, <1>2 DEF CountedInTurn

LEMMA NextOfNewTurn ==
  ASSUME NEW checkpoints, NEW t, \A k \in checkpoints : k.turn # t
  PROVE  /\ OthersOf(checkpoints, t) = checkpoints
         /\ NextCount(checkpoints, t) = Highest(checkpoints) + 1
<1>1. OthersOf(checkpoints, t) = checkpoints
  BY DEF OthersOf
<1> QED BY <1>1 DEF NextCount

-----------------------------------------------------------------------------
(* The queues.                                                             *)
LEMMA AppendedQueue ==
  ASSUME NEW inbox, IsQueue(inbox), NEW e
  PROVE  /\ IsQueue(Append(inbox, e)) /\ Events(Append(inbox, e)) = Events(inbox) \cup {e}
         /\ inbox = <<>> => Len(Append(inbox, e)) = 1
<1>1. PICK S : inbox \in Seq(S)
  BY DEF IsQueue
<1>2. PICK new : new = Append(inbox, e)
  OBVIOUS
<1>3. PICK T : T = S \cup {e}
  OBVIOUS
<1>4. inbox \in Seq(T) /\ e \in T
  BY <1>1, <1>3
<1>5. /\ new \in Seq(T) /\ Len(new) = Len(inbox) + 1 /\ new[Len(new)] = e
      /\ \A i \in 1..Len(inbox) : new[i] = inbox[i]
  BY <1>2, <1>4
<1>6. /\ DOMAIN new = 1..Len(new) /\ DOMAIN inbox = 1..Len(inbox) /\ Len(inbox) \in Nat
  BY <1>4, <1>5
<1>7. Events(new) = Events(inbox) \cup {e}
  BY <1>5, <1>6 DEF Events
<1>8. inbox = <<>> => Len(inbox) = 0
  OBVIOUS
<1> QED BY <1>2, <1>5, <1>7, <1>8 DEF IsQueue

LEMMA TakenQueue ==
  ASSUME NEW inbox, IsQueue(inbox), inbox # <<>>
  PROVE  /\ IsQueue(Tail(inbox)) /\ Events(Tail(inbox)) \subseteq Events(inbox)
         /\ Head(inbox) \in Events(inbox) /\ (Len(inbox) = 1 => Tail(inbox) = <<>>)
<1>1. PICK S : inbox \in Seq(S)
  BY DEF IsQueue
<1>2. PICK rest : rest = Tail(inbox)
  OBVIOUS
<1>3. /\ rest \in Seq(S) /\ Len(rest) = Len(inbox) - 1 /\ Len(inbox) \in Nat /\ Len(inbox) > 0
      /\ \A i \in 1..Len(rest) : rest[i] = inbox[i + 1]
  BY <1>1, <1>2
<1>4. DOMAIN rest = 1..Len(rest) /\ DOMAIN inbox = 1..Len(inbox) /\ Head(inbox) = inbox[1]
  BY <1>1, <1>3
<1>5. Events(rest) \subseteq Events(inbox) /\ Head(inbox) \in Events(inbox)
  <2>1. ASSUME NEW i \in DOMAIN rest PROVE \E j \in DOMAIN inbox : rest[i] = inbox[j]
    <3>1. i + 1 \in 1..Len(inbox) /\ rest[i] = inbox[i + 1]
      BY <1>3, <1>4, <2>1
    <3> QED BY <1>4, <3>1
  <2>2. 1 \in DOMAIN inbox
    BY <1>3, <1>4
  <2> QED BY <1>4, <2>1, <2>2 DEF Events
<1>6. Len(inbox) = 1 => rest = <<>>
  BY <1>3
<1> QED BY <1>2, <1>3, <1>5, <1>6 DEF IsQueue

LEMMA EmptyQueue == IsQueue(<<>>) /\ Events(<<>>) = {}
<1>1. <<>> \in Seq({})
  OBVIOUS
<1>2. DOMAIN <<>> = {}
  OBVIOUS
<1> QED BY <1>1, <1>2 DEF IsQueue, Events

LEMMA FirstInQueue ==
  ASSUME NEW e, NEW new, new = Append(<<>>, e)
  PROVE  IsQueue(new) /\ Events(new) = {e} /\ Len(new) = 1
<1>1. PICK empty : empty = <<>>
  OBVIOUS
<1>2. IsQueue(empty) /\ Events(empty) = {} /\ new = Append(empty, e)
  BY <1>1, EmptyQueue
<1>3. /\ IsQueue(Append(empty, e)) /\ Events(Append(empty, e)) = Events(empty) \cup {e}
      /\ empty = <<>> => Len(Append(empty, e)) = 1
  BY Zenon, <1>2, AppendedQueue
<1>4. IsQueue(new) /\ Events(new) = Events(empty) \cup {e} /\ Len(new) = 1
  BY Zenon, <1>1, <1>2, <1>3
<1> QED BY <1>2, <1>4

LEMMA JoinedQueue ==
  ASSUME NEW n, NEW e
  PROVE  /\ IsQueue(<<n>> \o <<e>>) /\ Events(<<n>> \o <<e>>) \subseteq {n, e}
         /\ IsQueue(<<>> \o <<e>>) /\ Events(<<>> \o <<e>>) \subseteq {n, e}
<1>1. ASSUME NEW head, NEW tail, head \in Seq({n, e}), tail \in Seq({n, e})
      PROVE  IsQueue(head \o tail) /\ Events(head \o tail) \subseteq {n, e}
  <2>1. PICK both : both = head \o tail
    OBVIOUS
  <2>2. both \in Seq({n, e})
    BY <1>1, <2>1
  <2>3. DOMAIN both = 1..Len(both) /\ \A i \in 1..Len(both) : both[i] \in {n, e}
    BY <2>2
  <2> QED BY <2>1, <2>2, <2>3 DEF IsQueue, Events
<1>2. <<n>> \in Seq({n, e}) /\ <<e>> \in Seq({n, e}) /\ <<>> \in Seq({n, e})
  OBVIOUS
<1> QED BY Zenon, <1>1, <1>2

-----------------------------------------------------------------------------
(* A step within the turn: the other turns keep their checkpoints.         *)
LEMMA SameTurn ==
  ASSUME OneRound, lastTurn' = lastTurn,
         asked' \in {None, lastTurn}, running' \in {None, lastTurn},
         OthersOf(thread'.checkpoints, lastTurn) = OthersOf(thread.checkpoints, lastTurn),
         CountedInTurn(thread'.checkpoints, lastTurn),
         IsQueue(reactorInbox'), IsQueue(ingestInbox'),
         \A e \in Events(reactorInbox') :
           e \in Events(reactorInbox)
             \/ AboutTurn(e, lastTurn, NextCount(thread.checkpoints, lastTurn)),
         \A e \in Events(ingestInbox') : e \in Events(ingestInbox) \/ e.turn = lastTurn,
         reactor'.step \in {"capture", "report"} =>
           /\ reactor'.turn = lastTurn
           /\ reactor'.count = NextCount(thread.checkpoints, lastTurn),
         ingesting' \in {ingesting, Idle}
           \/ (ingesting'.event.turn = lastTurn /\ ingesting'.seen = thread),
         RevertAlone'
  PROVE  OneRound'
<1>1. PICK next : next = NextCount(thread.checkpoints, lastTurn)
  OBVIOUS
<1>2. NextCount(thread'.checkpoints, lastTurn') = next
  BY <1>1 DEF NextCount
<1>3. lastTurn' \in Nat /\ asked' \in {None, lastTurn'} /\ running' \in {None, lastTurn'}
  BY DEF OneRound
<1>4. CountedInTurn(thread'.checkpoints, lastTurn')
  OBVIOUS
<1>5. \A e \in Events(reactorInbox') : AboutTurn(e, lastTurn', next)
  BY <1>1 DEF OneRound
<1>6. \A e \in Events(ingestInbox') : e.turn = lastTurn'
  BY DEF OneRound
<1>7. reactor'.step \in {"capture", "report"} => reactor'.turn = lastTurn' /\ reactor'.count = next
  BY <1>1
<1>8. ASSUME ingesting'.step = "dispatch"
      PROVE  /\ ingesting'.event.turn = lastTurn'
             /\ OthersOf(ingesting'.seen.checkpoints, lastTurn')
                  = OthersOf(thread'.checkpoints, lastTurn')
  <2>1. CASE ingesting' = ingesting
    BY <1>8, <2>1 DEF OneRound
  <2>2. CASE ingesting' = Idle
    BY <1>8, <2>2 DEF Idle
  <2>3. CASE ingesting'.event.turn = lastTurn /\ ingesting'.seen = thread
    BY <2>3
  <2> QED BY <2>1, <2>2, <2>3
<1> QED BY <1>2, <1>3, <1>4, <1>5, <1>6, <1>7, <1>8 DEF OneRound

(* Who waits acts when all is quiet.                                       *)
LEMMA AskTurnCounts ==
  ASSUME OneRound, ~hurried, AskTurn PROVE OneRound'
<1>1. /\ Settled /\ running = None /\ lastTurn' = lastTurn + 1 /\ asked' = lastTurn'
      /\ reactorInbox' = Append(reactorInbox, Event("thread.turn-start-requested", lastTurn'))
      /\ UNCHANGED <<thread, running, ingestInbox, ingesting, reactor>>
  BY DEF AskTurn, MayAct, ingestion
<1>2. PICK e : e = Event("thread.turn-start-requested", lastTurn')
  OBVIOUS
<1>3. Events(reactorInbox') = {e} /\ IsQueue(reactorInbox')
  <2>1. reactorInbox' = Append(<<>>, e)
    BY <1>1, <1>2 DEF Settled
  <2> QED BY <2>1, FirstInQueue
<1>4. e.type = "thread.turn-start-requested"
  BY <1>2 DEF Event
<1>5. CountedInTurn(thread'.checkpoints, lastTurn')
  <2>1. PICK t \in Nat : t = lastTurn /\ lastTurn' = t + 1
    BY <1>1 DEF OneRound
  <2>2. PICK checkpoints : checkpoints = thread.checkpoints /\ checkpoints = thread'.checkpoints
    BY <1>1
  <2>3. CountedInTurn(checkpoints, t)
    BY <2>1, <2>2 DEF OneRound
  <2>4. \A k \in checkpoints : k.turn \in Nat /\ k.turn <= t
    BY <2>3 DEF CountedInTurn, Counted
  <2>5. \A k \in checkpoints : k.turn <= t + 1 /\ k.turn # t + 1
    BY <2>4
  <2>6. CountedInTurn(checkpoints, t + 1)
    BY <2>3, <2>5 DEF CountedInTurn
  <2> QED BY <2>1, <2>2, <2>6
<1>6. lastTurn' \in Nat /\ asked' \in {None, lastTurn'} /\ running' \in {None, lastTurn'}
  BY <1>1 DEF OneRound
<1>7. /\ ingestInbox' = <<>> /\ ingesting' = Idle /\ reactor' = Idle
      /\ ingesting'.step = "idle" /\ reactor'.step = "idle"
  BY <1>1 DEF Settled, Idle
<1>8. Events(ingestInbox') = {} /\ IsQueue(ingestInbox')
  BY <1>7, EmptyQueue
<1>9. \A f \in Events(reactorInbox') : \A t, next : AboutTurn(f, t, next) /\ ~IsRevert(f)
  BY <1>3, <1>4 DEF AboutTurn, IsRevert
<1>10. RevertAlone'
  BY <1>7, <1>9 DEF RevertAlone, Reverting
<1> QED BY <1>3, <1>5, <1>6, <1>7, <1>8, <1>9, <1>10 DEF OneRound

(* The thread is as it was, and so is the reactor.                         *)
LEMMA StartTurnCounts ==
  ASSUME OneRound, ~hurried, StartTurn PROVE OneRound'
<1>1. PICK e : e = Event("turn.started", asked)
  OBVIOUS
<1>2. /\ Settled /\ asked # None /\ running' = asked /\ asked' = None
      /\ ingestInbox' = Append(ingestInbox, e) /\ reactorInbox' = Append(reactorInbox, e)
      /\ UNCHANGED <<thread, lastTurn, ingesting, reactor>>
  BY <1>1 DEF StartTurn, MayAct
<1>3. e.type = "turn.started" /\ e.turn = lastTurn /\ asked = lastTurn
  BY <1>1, <1>2 DEF Event, OneRound
<1>4. /\ Events(reactorInbox') = {e} /\ IsQueue(reactorInbox')
      /\ Events(ingestInbox') = {e} /\ IsQueue(ingestInbox')
  <2>1. reactorInbox' = Append(<<>>, e) /\ ingestInbox' = Append(<<>>, e)
    BY <1>2 DEF Settled
  <2> QED BY <2>1, FirstInQueue
<1>5. ingesting' = Idle /\ reactor' = Idle /\ reactor'.step = "idle"
  BY <1>2 DEF Settled, Idle
<1>6. \A f \in Events(reactorInbox') : \A t, next : AboutTurn(f, t, next) /\ ~IsRevert(f)
  BY <1>3, <1>4 DEF AboutTurn, IsRevert
<1>7. RevertAlone'
  BY <1>5, <1>6 DEF RevertAlone, Reverting
<1>8. /\ CountedInTurn(thread'.checkpoints, lastTurn)
      /\ OthersOf(thread'.checkpoints, lastTurn) = OthersOf(thread.checkpoints, lastTurn)
  BY <1>2 DEF OneRound
<1> QED BY <1>2, <1>3, <1>4, <1>5, <1>6, <1>7, <1>8, SameTurn

LEMMA EndTurnCounts ==
  ASSUME OneRound, ~hurried, EndTurn PROVE OneRound'
<1>1. PICK outcome : reactorInbox' = Append(reactorInbox, Completed(running, outcome))
                     /\ ingestInbox' =
                          ingestInbox
                            \o (IF Notices = "atEnd"
                                THEN <<Event("turn.diff.updated", running)>> ELSE <<>>)
                            \o <<Completed(running, outcome)>>
  BY DEF EndTurn
<1>2. PICK e, n : e = Completed(running, outcome) /\ n = Event("turn.diff.updated", running)
  OBVIOUS
<1>3. /\ Settled /\ running # None /\ running' = None
      /\ UNCHANGED <<thread, asked, lastTurn, ingesting, reactor>>
  BY DEF EndTurn, MayAct
<1>4. e.type = "turn.completed" /\ e.turn = lastTurn /\ n.turn = lastTurn
  BY <1>2, <1>3 DEF Event, Completed, OneRound
<1>5. Events(reactorInbox') = {e} /\ IsQueue(reactorInbox')
  <2>1. reactorInbox' = Append(<<>>, e)
    BY <1>1, <1>2, <1>3 DEF Settled
  <2> QED BY <2>1, FirstInQueue
<1>6. IsQueue(ingestInbox') /\ \A f \in Events(ingestInbox') : f.turn = lastTurn
  <2>1. ingestInbox' = <<>> \o (IF Notices = "atEnd" THEN <<n>> ELSE <<>>) \o <<e>>
    BY <1>1, <1>2, <1>3 DEF Settled
  <2>2. <<>> \o <<n>> = <<n>> /\ <<>> \o <<>> = <<>>
    OBVIOUS
  <2>3. ingestInbox' = <<n>> \o <<e>> \/ ingestInbox' = <<>> \o <<e>>
    BY Zenon, <2>1, <2>2
  <2>4. PICK new : new = ingestInbox'
    OBVIOUS
  <2>5. IsQueue(new) /\ Events(new) \subseteq {n, e}
    <3>1. CASE new = <<n>> \o <<e>>
      BY Zenon, <3>1, JoinedQueue
    <3>2. CASE new = <<>> \o <<e>>
      BY Zenon, <3>2, JoinedQueue
    <3> QED BY Zenon, <2>3, <2>4, <3>1, <3>2
  <2> QED BY <1>4, <2>4, <2>5
<1>7. ingesting' = Idle /\ reactor' = Idle /\ reactor'.step = "idle"
  BY <1>3 DEF Settled, Idle
<1>8. \A f \in Events(reactorInbox') : \A next : AboutTurn(f, lastTurn, next) /\ ~IsRevert(f)
  BY <1>4, <1>5 DEF AboutTurn, IsRevert
<1>9. RevertAlone'
  BY <1>7, <1>8 DEF RevertAlone, Reverting
<1>10. /\ CountedInTurn(thread'.checkpoints, lastTurn)
       /\ OthersOf(thread'.checkpoints, lastTurn) = OthersOf(thread.checkpoints, lastTurn)
       /\ asked' \in {None, lastTurn}
  BY <1>3 DEF OneRound
<1> QED BY <1>3, <1>5, <1>6, <1>7, <1>8, <1>9, <1>10, SameTurn

LEMMA EditCounts ==
  ASSUME OneRound, ~hurried, Edit PROVE OneRound'
<1>1. PICK e : e = Event("turn.diff.updated", running)
  OBVIOUS
<1>2. /\ Settled /\ running # None
      /\ UNCHANGED <<thread, running, asked, lastTurn, ingesting, reactorInbox, reactor>>
      /\ ingestInbox' = Append(ingestInbox, e) \/ ingestInbox' = ingestInbox
  BY <1>1 DEF Edit, MayAct, provider
<1>3. e.turn = lastTurn
  BY <1>1, <1>2 DEF Event, OneRound
<1>4. IsQueue(ingestInbox') /\ \A f \in Events(ingestInbox') : f.turn = lastTurn
  <2>1. ingestInbox' = Append(<<>>, e) \/ ingestInbox' = <<>>
    BY <1>2 DEF Settled
  <2> QED BY <1>3, <2>1, FirstInQueue, EmptyQueue
<1>5. /\ ingesting' = Idle /\ reactor' = Idle /\ reactor'.step = "idle"
      /\ reactorInbox' = <<>> /\ Events(reactorInbox') = {} /\ IsQueue(reactorInbox')
  BY <1>2, EmptyQueue DEF Settled, Idle
<1>6. RevertAlone'
  BY <1>5 DEF RevertAlone, Reverting
<1>7. /\ CountedInTurn(thread'.checkpoints, lastTurn)
      /\ OthersOf(thread'.checkpoints, lastTurn) = OthersOf(thread.checkpoints, lastTurn)
      /\ asked' \in {None, lastTurn} /\ running' \in {None, lastTurn}
  BY <1>2 DEF OneRound
<1> QED BY <1>2, <1>4, <1>5, <1>6, <1>7, SameTurn

LEMMA AskRevertCounts ==
  ASSUME OneRound, AskRevert PROVE OneRound'
<1>1. PICK n \in Counts : reactorInbox' = Append(reactorInbox,
                            [type |-> "thread.checkpoint-revert-requested", count |-> n])
  BY DEF AskRevert
<1>2. PICK e : e = [type |-> "thread.checkpoint-revert-requested", count |-> n]
  OBVIOUS
<1>3. /\ Settled
      /\ UNCHANGED <<thread, running, asked, lastTurn, ingestInbox, ingesting, reactor>>
  BY DEF AskRevert, provider, ingestion
<1>4. e.type = "thread.checkpoint-revert-requested" /\ e.count \in Nat
  BY <1>2 DEF Counts
<1>5. Events(reactorInbox') = {e} /\ IsQueue(reactorInbox') /\ Len(reactorInbox') = 1
  <2>1. reactorInbox' = Append(<<>>, e)
    BY <1>1, <1>2, <1>3 DEF Settled
  <2> QED BY <2>1, FirstInQueue
<1>6. /\ ingesting' = Idle /\ reactor' = Idle /\ reactor'.step = "idle"
      /\ ingestInbox' = <<>> /\ Events(ingestInbox') = {} /\ IsQueue(ingestInbox')
  BY <1>3, EmptyQueue DEF Settled, Idle
<1>7. \A f \in Events(reactorInbox') : \A t, next : AboutTurn(f, t, next)
  BY <1>4, <1>5 DEF AboutTurn, IsRevert
<1>8. RevertAlone'
  BY <1>5, <1>6 DEF RevertAlone, Reverting
<1>9. /\ CountedInTurn(thread'.checkpoints, lastTurn)
      /\ OthersOf(thread'.checkpoints, lastTurn) = OthersOf(thread.checkpoints, lastTurn)
      /\ asked' \in {None, lastTurn} /\ running' \in {None, lastTurn}
  BY <1>3 DEF OneRound
<1> QED BY <1>3, <1>5, <1>6, <1>7, <1>8, <1>9, SameTurn

-----------------------------------------------------------------------------
(* The ingestion works only while no revert is asked for or in hand.       *)
LEMMA IngestTakeCounts ==
  ASSUME OneRound, IngestTake PROVE OneRound'
<1>1. /\ ingestInbox # <<>> /\ ingestInbox' = Tail(ingestInbox)
      /\ UNCHANGED <<thread, running, asked, lastTurn, reactorInbox, reactor>>
  BY DEF IngestTake, provider
<1>2. PICK h : h = [step |-> "dispatch", event |-> Head(ingestInbox), seen |-> thread]
  OBVIOUS
<1>3. ingesting' = h /\ h.event = Head(ingestInbox) /\ h.seen = thread
  BY <1>2 DEF IngestTake
<1>4. /\ IsQueue(ingestInbox') /\ Events(ingestInbox') \subseteq Events(ingestInbox)
      /\ Head(ingestInbox) \in Events(ingestInbox)
  BY <1>1, TakenQueue DEF OneRound
<1>5. ingesting'.event.turn = lastTurn /\ ingesting'.seen = thread
  BY <1>3, <1>4 DEF OneRound
<1>6. RevertAlone'
  BY <1>1 DEF OneRound, RevertAlone
<1>7. /\ CountedInTurn(thread'.checkpoints, lastTurn)
      /\ OthersOf(thread'.checkpoints, lastTurn) = OthersOf(thread.checkpoints, lastTurn)
      /\ asked' \in {None, lastTurn} /\ running' \in {None, lastTurn} /\ IsQueue(reactorInbox')
      /\ reactor'.step \in {"capture", "report"} =>
           /\ reactor'.turn = lastTurn
           /\ reactor'.count = NextCount(thread.checkpoints, lastTurn)
  BY <1>1 DEF OneRound
<1> QED BY <1>1, <1>4, <1>5, <1>6, <1>7, SameTurn

(* A step that leaves thread and queues alone, in which a worker may go    *)
(* back to rest, and the reactor may take its next step.                   *)
LEMMA QuietStepCounts ==
  ASSUME OneRound, UNCHANGED <<thread, running, asked, lastTurn, ingestInbox, reactorInbox>>,
         ingesting' \in {ingesting, Idle},
         \/ reactor' \in {reactor, Idle}
         \/ reactor.step = "capture" /\ reactor'.step = "report" /\ reactor'.turn = reactor.turn
              /\ reactor'.count = reactor.count
         \/ /\ reactor.step \in Reverting /\ reactor'.step \in Reverting
            /\ reactor'.count = reactor.count
  PROVE  OneRound'
<1>1. Idle.step = "idle"
  BY DEF Idle
<1>2. /\ CountedInTurn(thread'.checkpoints, lastTurn)
      /\ OthersOf(thread'.checkpoints, lastTurn) = OthersOf(thread.checkpoints, lastTurn)
      /\ asked' \in {None, lastTurn} /\ running' \in {None, lastTurn}
      /\ IsQueue(reactorInbox') /\ IsQueue(ingestInbox')
  BY DEF OneRound
<1>3. reactor'.step \in {"capture", "report"} =>
        /\ reactor'.turn = lastTurn
        /\ reactor'.count = NextCount(thread.checkpoints, lastTurn)
  BY <1>1 DEF OneRound, Reverting
<1>4. RevertAlone'
  BY <1>1 DEF OneRound, RevertAlone, Reverting
<1> QED BY <1>2, <1>3, <1>4, SameTurn

LEMMA QuietStepsCount ==
  ASSUME IInv, OneRound,
         \/ IngestIgnore \/ CaptureBaseline \/ CaptureTurn
         \/ RestoreFiles \/ RollBackConversation \/ DeleteRef \/ FailReactor \/ FailIngestion
         \/ UNCHANGED vars
  PROVE  OneRound'
<1>1. /\ UNCHANGED <<thread, running, asked, lastTurn, ingestInbox, reactorInbox>>
      /\ ingesting' \in {ingesting, Idle}
  BY DEF IngestIgnore, CaptureBaseline, CaptureTurn, RestoreFiles, RollBackConversation,
         DeleteRef, FailReactor, FailIngestion, vars, provider, ingestion
<1>2. CASE IngestIgnore \/ CaptureBaseline \/ FailReactor \/ FailIngestion \/ UNCHANGED vars
  <2>1. reactor' \in {reactor, Idle}
    BY <1>2 DEF IngestIgnore, CaptureBaseline, FailReactor, FailIngestion, vars
  <2> QED BY <1>1, <2>1, QuietStepCounts
<1>3. CASE CaptureTurn
  <2>1. reactor.step = "capture" /\ reactor' = [reactor EXCEPT !.step = "report"]
    BY <1>3 DEF CaptureTurn
  <2>2. \/ reactor = Capture(reactor.turn, reactor.count, reactor.status)
        \/ reactor = Report(reactor.turn, reactor.count, reactor.status)
    BY <2>1 DEF IInv, ReactorShape
  <2>3. reactor' = Report(reactor.turn, reactor.count, reactor.status)
    BY <2>1, <2>2 DEF Capture, Report
  <2>4. /\ reactor'.step = "report" /\ reactor'.turn = reactor.turn
        /\ reactor'.count = reactor.count
    BY <2>3 DEF Capture, Report
  <2> QED BY <1>1, <2>1, <2>4, QuietStepCounts
<1>4. CASE RestoreFiles \/ RollBackConversation \/ DeleteRef
  <2>1. reactor.step \in Reverting
    BY <1>4 DEF RestoreFiles, RollBackConversation, DeleteRef, Reverting
  <2>2. PICK step, count, current, stale :
          reactor = [step |-> step, count |-> count, current |-> current, stale |-> stale]
    BY <2>1 DEF IInv, ReactorShape, Reverting
  <2>3. \/ reactor' = Idle
        \/ \E s \in {"rollback", "delete"} : reactor' = [reactor EXCEPT !.step = s]
        \/ \E n : reactor' = [reactor EXCEPT !.stale = @ \ {n}, !.step = "deleting"]
    BY <1>4 DEF RestoreFiles, RollBackConversation, DeleteRef
  <2>4. \/ reactor' = Idle
        \/ reactor'.step \in Reverting /\ reactor'.count = reactor.count
    BY <2>2, <2>3 DEF Reverting
  <2> QED BY <1>1, <2>1, <2>4, QuietStepCounts
<1> QED BY <1>2, <1>3, <1>4

(* The step changes no checkpoint of another turn, counts right, and       *)
(* publishes events about the last turn.                                   *)
CountsOnlyLastTurn ==
  /\ CountedInTurn(thread'.checkpoints, lastTurn)
  /\ OthersOf(thread'.checkpoints, lastTurn) = OthersOf(thread.checkpoints, lastTurn)
  /\ IsQueue(reactorInbox')
  /\ \A e \in Events(reactorInbox') :
       \/ e \in Events(reactorInbox)
       \/ ~IsRevert(e) /\ AboutTurn(e, lastTurn, NextCount(thread.checkpoints, lastTurn))

LEMMA DiffReplaces ==
  ASSUME IInv, NEW c, CompleteDiff(c)
  PROVE  \/ thread'.checkpoints = thread.checkpoints
         \/ thread'.checkpoints = Replaced(thread.checkpoints, c)
<1>1. thread' = ThreadAfter(thread, [type |-> "thread.turn-diff-completed", arg |-> c])
  BY DEF CompleteDiff
<1>2. thread.exists = TRUE /\ {"exists", "checkpoints"} \subseteq DOMAIN thread
  BY DEF IInv, ThreadShape
<1> QED BY <1>1, <1>2, DiffCompletes

(* A checkpoint of the last turn under the next count is projected.        *)
LEMMA CompleteDiffCounts ==
  ASSUME IInv, OneRound, NEW c, CompleteDiff(c), c.turn = lastTurn,
         c.count = NextCount(thread.checkpoints, lastTurn)
  PROVE  CountsOnlyLastTurn
<1>1. reactorInbox' = Append(reactorInbox,
        [type |-> "thread.turn-diff-completed", turn |-> c.turn, count |-> c.count,
         status |-> c.status])
  BY DEF CompleteDiff
<1>2. \/ thread'.checkpoints = thread.checkpoints
      \/ thread'.checkpoints = Replaced(thread.checkpoints, c)
  BY DiffReplaces
<1>3. PICK old, new, t : old = thread.checkpoints /\ new = thread'.checkpoints /\ t = lastTurn
  OBVIOUS
<1>4. CountedInTurn(new, t) /\ OthersOf(new, t) = OthersOf(old, t)
  <2>1. t \in Nat /\ CountedInTurn(old, t) /\ c.turn = t /\ c.count = NextCount(old, t)
    BY <1>3 DEF OneRound
  <2>2. new = old \/ new = Replaced(old, c)
    BY <1>2, <1>3
  <2> QED BY <2>1, <2>2, ReplacedIsCounted
<1>5. PICK e : e = [type |-> "thread.turn-diff-completed", turn |-> c.turn, count |-> c.count,
                    status |-> c.status]
  OBVIOUS
<1>6. ~IsRevert(e) /\ AboutTurn(e, t, NextCount(old, t))
  BY <1>3, <1>5 DEF IsRevert, AboutTurn
<1>7. IsQueue(reactorInbox') /\ Events(reactorInbox') = Events(reactorInbox) \cup {e}
  BY <1>1, <1>5, AppendedQueue DEF OneRound
<1> QED BY <1>3, <1>4, <1>6, <1>7 DEF CountsOnlyLastTurn

(* The thread that the ingestion has read has no checkpoint of the turn.   *)
LEMMA PlaceholderIsNext ==
  ASSUME OneRound, ingesting.step = "dispatch", ~Tracked
  PROVE  /\ ingesting.event.turn = lastTurn
         /\ PlaceholderCount = NextCount(thread.checkpoints, lastTurn)
<1>1. PICK seen, t : seen = ingesting.seen.checkpoints /\ t = lastTurn
  OBVIOUS
<1>2. /\ ingesting.event.turn = t /\ \A k \in seen : k.turn # t
      /\ OthersOf(seen, t) = OthersOf(thread.checkpoints, t)
  BY <1>1 DEF OneRound, Tracked
<1>3. OthersOf(seen, t) = seen /\ NextCount(seen, t) = Highest(seen) + 1
  BY <1>2, NextOfNewTurn
<1> QED BY <1>1, <1>2, <1>3 DEF PlaceholderCount, NextCount

LEMMA IngestDispatchCounts ==
  ASSUME IInv, OneRound, IngestDispatch PROVE OneRound'
<1>1. /\ ingesting.step = "dispatch" /\ ingesting' = Idle
      /\ UNCHANGED <<running, asked, lastTurn, ingestInbox, reactor>>
  BY DEF IngestDispatch, provider
<1>2. CountsOnlyLastTurn
  <2>1. CASE \E s, turn : SetSessionTo(s, turn)
    <3>1. PICK s : thread' = ThreadAfter(thread, [type |-> "thread.session-set", arg |-> s])
      BY <2>1 DEF SetSessionTo
    <3>2. thread.exists = TRUE /\ {"exists", "checkpoints"} \subseteq DOMAIN thread
      BY DEF IInv, ThreadShape
    <3>3. thread'.checkpoints = thread.checkpoints
      BY <3>1, <3>2, SessionSetKeeps
    <3>4. UNCHANGED reactorInbox
      BY <2>1 DEF SetSessionTo
    <3> QED BY <3>3, <3>4 DEF OneRound, CountsOnlyLastTurn
  <2>2. ASSUME ~Tracked,
               CompleteDiff(Checkpoint(ingesting.event.turn, PlaceholderCount, "missing", None))
        PROVE  CountsOnlyLastTurn
    <3>1. /\ ingesting.event.turn = lastTurn
          /\ PlaceholderCount = NextCount(thread.checkpoints, lastTurn)
      BY <1>1, <2>2, PlaceholderIsNext
    <3>2. PICK c : c = Checkpoint(ingesting.event.turn, PlaceholderCount, "missing", None)
      OBVIOUS
    <3>3. /\ CompleteDiff(c) /\ c.turn = lastTurn
          /\ c.count = NextCount(thread.checkpoints, lastTurn)
      BY <2>2, <3>1, <3>2 DEF Checkpoint
    <3> QED BY <3>3, CompleteDiffCounts
  <2> QED BY <2>1, <2>2 DEF IngestDispatch
<1>3. asked' \in {None, lastTurn} /\ running' \in {None, lastTurn} /\ IsQueue(ingestInbox')
  BY <1>1 DEF OneRound
<1>4. reactor'.step \in {"capture", "report"} =>
        /\ reactor'.turn = lastTurn
        /\ reactor'.count = NextCount(thread.checkpoints, lastTurn)
  BY <1>1 DEF OneRound
<1>5. RevertAlone'
  <2>1. ingesting # Idle
    BY <1>1 DEF Idle
  <2> QED BY <1>1, <1>2, <2>1 DEF OneRound, RevertAlone, CountsOnlyLastTurn
<1> QED BY <1>1, <1>2, <1>3, <1>4, <1>5, SameTurn DEF CountsOnlyLastTurn

LEMMA ReportCaptureCounts ==
  ASSUME IInv, OneRound, ReportCapture PROVE OneRound'
<1>1. PICK c : c = Checkpoint(reactor.turn, reactor.count, reactor.status, reactor.count)
  OBVIOUS
<1>2. /\ reactor.step = "report" /\ reactor' = Idle /\ CompleteDiff(c)
      /\ UNCHANGED <<running, asked, lastTurn, ingestInbox, ingesting>>
  BY <1>1 DEF ReportCapture, provider, ingestion
<1>3. c.turn = lastTurn /\ c.count = NextCount(thread.checkpoints, lastTurn)
  BY <1>1, <1>2 DEF Checkpoint, OneRound
<1>4. CountsOnlyLastTurn
  BY <1>2, <1>3, CompleteDiffCounts
<1>5. reactor # Idle /\ Idle.step = "idle"
  BY <1>2 DEF Idle
<1>6. RevertAlone'
  BY <1>2, <1>4, <1>5 DEF OneRound, RevertAlone, CountsOnlyLastTurn, Reverting
<1>7. asked' \in {None, lastTurn} /\ running' \in {None, lastTurn} /\ IsQueue(ingestInbox')
  BY <1>2 DEF OneRound
<1> QED BY <1>2, <1>4, <1>5, <1>6, <1>7, SameTurn DEF CountsOnlyLastTurn

(* The reactor counts as the ingestion does: under the placeholder of the  *)
(* turn, or past all other turns.                                          *)
LEMMA CompletionIsNext ==
  ASSUME OneRound, CapturesCompletion(lastTurn)
  PROVE  CompletionCount(lastTurn) = NextCount(thread.checkpoints, lastTurn)
<1>1. PICK old, t : old = thread.checkpoints /\ t = lastTurn
  OBVIOUS
<1> DEFINE placeholders ==
             {k \in thread.checkpoints : k.turn = lastTurn /\ k.status = "missing"}
<1>2. placeholders = {k \in old : k.turn = t /\ k.status = "missing"}
  BY <1>1
<1>3. CompletionCount(lastTurn) =
        IF placeholders = {} THEN Highest(thread.checkpoints) + 1
        ELSE (CHOOSE k \in placeholders : TRUE).count
  BY Zenon DEF CompletionCount
<1> HIDE DEF placeholders
<1>4. CASE placeholders = {}
  <2>1. ~IsCaptured(old, t)
    BY <1>1 DEF CapturesCompletion
  <2>2. \A k \in old : k.turn # t
    BY <1>1, <1>2, <1>4, <2>1 DEF IsCaptured
  <2>3. NextCount(old, t) = Highest(old) + 1
    BY <2>2, NextOfNewTurn
  <2> QED BY <1>1, <1>3, <1>4, <2>3
<1>5. CASE placeholders # {}
  <2>1. PICK k : k = (CHOOSE j \in placeholders : TRUE)
    OBVIOUS
  <2>2. k \in placeholders
    BY <1>5, <2>1
  <2>3. k.count = NextCount(old, t)
    BY <1>1, <1>2, <2>2 DEF OneRound, CountedInTurn
  <2> QED BY <1>1, <1>3, <1>5, <2>1, <2>3
<1> QED BY <1>4, <1>5

LEMMA TakesCount ==
  ASSUME OneRound, TakeTurnStart \/ TakeCompletion \/ TakePlaceholder \/ TakeRevert
  PROVE  OneRound'
<1>1. PICK e : e = Head(reactorInbox)
  OBVIOUS
<1>2. /\ reactorInbox # <<>> /\ reactorInbox' = Tail(reactorInbox) /\ reactor = Idle
      /\ UNCHANGED <<thread, running, asked, lastTurn, ingestInbox, ingesting>>
  BY DEF TakeTurnStart, TakeCompletion, TakePlaceholder, TakeRevert, Take, provider, ingestion
<1>3. /\ IsQueue(reactorInbox') /\ Events(reactorInbox') \subseteq Events(reactorInbox)
      /\ e \in Events(reactorInbox) /\ (Len(reactorInbox) = 1 => reactorInbox' = <<>>)
  BY <1>1, <1>2, TakenQueue DEF OneRound
<1>4. AboutTurn(e, lastTurn, NextCount(thread.checkpoints, lastTurn))
  BY <1>3 DEF OneRound
<1>5. \/ reactor'.step \in {"idle", "baseline"}
      \/ /\ reactor'.step = "capture" /\ reactor'.turn = lastTurn
         /\ reactor'.count = NextCount(thread.checkpoints, lastTurn)
      \/ IsRevert(e) /\ reactor'.step = "restore" /\ reactor'.count \in Nat
  <2>1. CASE TakeTurnStart
    <3>1. \E n : reactor' = [step |-> "baseline", count |-> n]
      BY <2>1 DEF TakeTurnStart, Take
    <3> QED BY <3>1
  <2>2. CASE TakeCompletion
    <3>1. /\ e.turn = lastTurn
          /\ \/ reactor' = Idle
             \/ /\ CapturesCompletion(e.turn)
                /\ \E status : reactor' = Capture(e.turn, CompletionCount(e.turn), status)
      BY <1>1, <1>4, <2>2 DEF TakeCompletion, Take, AboutTurn
    <3>2. CASE reactor' = Idle
      BY <3>2 DEF Idle
    <3>3. CASE /\ CapturesCompletion(lastTurn)
               /\ \E status : reactor' = Capture(lastTurn, CompletionCount(lastTurn), status)
      BY <3>3, CompletionIsNext DEF Capture
    <3> QED BY <3>1, <3>2, <3>3
  <2>3. CASE TakePlaceholder
    <3>1. /\ e.turn = lastTurn /\ e.count = NextCount(thread.checkpoints, lastTurn)
          /\ reactor' = Idle \/ reactor' = Capture(e.turn, e.count, "ready")
      BY <1>1, <1>4, <2>3 DEF TakePlaceholder, Take, AboutTurn
    <3> QED BY <3>1 DEF Idle, Capture
  <2>4. CASE TakeRevert
    <3>1. IsRevert(e) /\ e.count \in Nat
      BY <1>1, <1>4, <2>4 DEF TakeRevert, IsRevert, AboutTurn
    <3>2. \/ reactor' = Idle
          \/ \E current, stale : reactor' = [step |-> "restore", count |-> e.count,
                                             current |-> current, stale |-> stale]
      BY <1>1, <2>4 DEF TakeRevert, Take
    <3> QED BY <3>1, <3>2 DEF Idle
  <2> QED BY <2>1, <2>2, <2>3, <2>4
<1>6. RevertAlone'
  <2>1. CASE \E f \in Events(reactorInbox) : IsRevert(f)
    <3>1. reactorInbox' = <<>> /\ ingestInbox' = <<>> /\ ingesting' = Idle
      BY <1>2, <1>3, <2>1 DEF OneRound, RevertAlone
    <3>2. Events(reactorInbox') = {}
      BY <3>1, EmptyQueue
    <3> QED BY <1>5, <3>1, <3>2 DEF RevertAlone, Reverting
  <2>2. CASE ~\E f \in Events(reactorInbox) : IsRevert(f)
    <3>1. reactor'.step \notin Reverting /\ ~\E f \in Events(reactorInbox') : IsRevert(f)
      BY <1>3, <1>5, <2>2 DEF Reverting
    <3> QED BY <3>1 DEF RevertAlone
  <2> QED BY <2>1, <2>2
<1>7. reactor'.step \in {"capture", "report"} =>
        /\ reactor'.turn = lastTurn
        /\ reactor'.count = NextCount(thread.checkpoints, lastTurn)
  BY <1>5
<1>8. /\ CountedInTurn(thread'.checkpoints, lastTurn)
      /\ OthersOf(thread'.checkpoints, lastTurn) = OthersOf(thread.checkpoints, lastTurn)
      /\ asked' \in {None, lastTurn} /\ running' \in {None, lastTurn} /\ IsQueue(ingestInbox')
      /\ \A f \in Events(ingestInbox') : f \in Events(ingestInbox)
  BY <1>2 DEF OneRound
<1> QED BY <1>2, <1>3, <1>6, <1>7, <1>8, SameTurn

LEMMA RevertCuts ==
  ASSUME NEW th, th.exists = TRUE, {"exists", "checkpoints"} \subseteq DOMAIN th, NEW n,
         NEW new, new = ThreadAfter(th, [type |-> "thread.reverted", arg |-> [turnCount |-> n]])
  PROVE  new.checkpoints = {k \in th.checkpoints : k.count <= n}
<1>1. new = Revert(th, n)
  BY DEF ThreadAfter
<1> QED BY <1>1 DEF Revert

LEMMA RevertedIsCut ==
  ASSUME IInv, CompleteRevert
  PROVE  thread'.checkpoints = {k \in thread.checkpoints : k.count <= reactor.count}
<1>1. thread' = ThreadAfter(thread, [type |-> "thread.reverted",
                                     arg |-> [turnCount |-> reactor.count]])
  BY DEF CompleteRevert
<1>2. PICK th, new, n : th = thread /\ new = thread' /\ n = reactor.count
  OBVIOUS
<1>3. new = ThreadAfter(th, [type |-> "thread.reverted", arg |-> [turnCount |-> n]])
  BY Zenon, <1>1, <1>2
<1>4. th.exists = TRUE /\ {"exists", "checkpoints"} \subseteq DOMAIN th
  BY <1>2 DEF IInv, ThreadShape
<1>5. new.checkpoints = {k \in th.checkpoints : k.count <= n}
  BY Zenon, <1>3, <1>4, RevertCuts
<1> QED BY Zenon, <1>2, <1>5

(* Nothing else is going on when a revert is reported.                     *)
LEMMA CompleteRevertCounts ==
  ASSUME IInv, OneRound, CompleteRevert PROVE OneRound'
<1>1. /\ reactor.step \in Reverting /\ reactor' = Idle
      /\ thread' = ThreadAfter(thread, [type |-> "thread.reverted",
                                        arg |-> [turnCount |-> reactor.count]])
      /\ UNCHANGED <<running, asked, lastTurn, ingestInbox, ingesting, reactorInbox>>
  BY DEF CompleteRevert, Reverting, provider, ingestion
<1>2. /\ reactorInbox' = <<>> /\ ingestInbox' = <<>> /\ ingesting' = Idle
      /\ reactor.count \in Nat /\ Idle.step = "idle"
  BY <1>1 DEF OneRound, RevertAlone, Idle
<1>3. CountedInTurn(thread'.checkpoints, lastTurn')
  <2>1. PICK t, n, old : t = lastTurn /\ n = reactor.count /\ old = thread.checkpoints
    OBVIOUS
  <2>2. thread'.checkpoints = {k \in old : k.count <= n}
    BY <2>1, RevertedIsCut
  <2>3. t \in Nat /\ n \in Nat /\ CountedInTurn(old, t)
    BY <1>2, <2>1 DEF OneRound
  <2>4. CountedInTurn({k \in old : k.count <= n}, t)
    BY <2>3, CutIsCounted
  <2> QED BY Zenon, <1>1, <2>1, <2>2, <2>4
<1>4. /\ Events(reactorInbox') = {} /\ Events(ingestInbox') = {}
      /\ IsQueue(reactorInbox') /\ IsQueue(ingestInbox')
  BY <1>2, EmptyQueue
<1>5. reactor'.step = "idle" /\ ingesting'.step = "idle"
  BY <1>1, <1>2
<1>6. lastTurn' \in Nat /\ asked' \in {None, lastTurn'} /\ running' \in {None, lastTurn'}
  BY <1>1 DEF OneRound
<1>7. RevertAlone'
  BY <1>4, <1>5 DEF RevertAlone, Reverting
<1> QED BY <1>3, <1>4, <1>5, <1>6, <1>7 DEF OneRound

(* Who waits keeps waiting, and what is torn stays torn.                   *)
LEMMA StaysAsItIs ==
  ASSUME [Next]_vars PROVE hurried' = hurried /\ (torn => torn')
<1>1. CASE FailReactor
  <2>1. hurried' = hurried
    BY <1>1 DEF FailReactor
  <2>2. torn' = (torn \/ reactor.step = "deleting")
    BY <1>1 DEF FailReactor
  <2> QED BY Zenon, <2>1, <2>2
<1>2. CASE ~FailReactor
  <2>1. hurried' = hurried /\ torn' = torn
    BY <1>2 DEF Next, Outside, Workers, AskTurn, StartTurn, Edit, EndTurn, AskRevert,
       IngestTake, IngestDispatch, IngestIgnore, TakeTurnStart, TakeCompletion,
       TakePlaceholder, TakeRevert, Take, CaptureBaseline, CaptureTurn, ReportCapture,
       RestoreFiles, RollBackConversation, DeleteRef, CompleteRevert, FailIngestion, vars,
       counters
  <2> QED BY Zenon, <2>1
<1> QED BY <1>1, <1>2

LEMMA StepCounts ==
  ASSUME IInv, RInv, [Next]_vars PROVE RInv'
<1>1. hurried' = hurried
  BY StaysAsItIs
<1>2. ASSUME ~hurried, OneRound PROVE OneRound'
  <2>1. CASE AskTurn \/ StartTurn \/ Edit \/ EndTurn \/ AskRevert
    BY <1>2, <2>1, AskTurnCounts, StartTurnCounts, EditCounts, EndTurnCounts, AskRevertCounts
  <2>2. CASE IngestTake \/ IngestDispatch
    BY <1>2, <2>2, IngestTakeCounts, IngestDispatchCounts
  <2>3. CASE TakeTurnStart \/ TakeCompletion \/ TakePlaceholder \/ TakeRevert
    BY <1>2, <2>3, TakesCount
  <2>4. CASE ReportCapture \/ CompleteRevert
    BY <1>2, <2>4, ReportCaptureCounts, CompleteRevertCounts
  <2>5. CASE \/ IngestIgnore \/ CaptureBaseline \/ CaptureTurn
             \/ RestoreFiles \/ RollBackConversation \/ DeleteRef \/ FailReactor
             \/ FailIngestion \/ UNCHANGED vars
    BY <1>2, <2>5, QuietStepsCount
  <2> QED BY <2>1, <2>2, <2>3, <2>4, <2>5 DEF Next, Outside, Workers
<1> QED BY <1>1, <1>2 DEF RInv

LEMMA InitCounts == Init => RInv
<1> SUFFICES ASSUME Init PROVE OneRound
  BY DEF RInv
<1>1. /\ lastTurn = 0 /\ asked = None /\ running = None /\ ingesting.step = "idle"
      /\ reactor.step = "idle" /\ reactorInbox = <<>> /\ ingestInbox = <<>>
  BY DEF Init, Idle
<1>2. thread.checkpoints = {}
  BY DEF Init, NewThread
<1>3. CountedInTurn(thread.checkpoints, lastTurn)
  BY <1>1, <1>2 DEF CountedInTurn, Counted
<1>4. /\ Events(reactorInbox) = {} /\ Events(ingestInbox) = {}
      /\ IsQueue(reactorInbox) /\ IsQueue(ingestInbox)
  BY <1>1, EmptyQueue
<1>5. RevertAlone
  BY <1>1, <1>4 DEF RevertAlone, Reverting
<1> QED BY <1>1, <1>3, <1>4, <1>5 DEF OneRound

(* When the user waits, no two turns share a turn count: the placeholder   *)
(* of the ingestion and the capture of the reactor, each counted from the  *)
(* thread as its worker read it, agree, for any number of turns, reverts   *)
(* and failures.                                                           *)
THEOREM CountsAreDistinct == Spec => []DistinctCounts
<1>1. ASSUME IInv, RInv, [Next]_vars PROVE IInv' /\ RInv'
  BY <1>1, StepKeeps, StepCounts
<1>2. ASSUME RInv PROVE DistinctCounts
  BY <1>2 DEF RInv, OneRound, CountedInTurn, DistinctCounts
<1> QED BY <1>1, <1>2, InitHolds, InitCounts, PTL DEF Spec

-----------------------------------------------------------------------------
(* The workspace and its refs.                                             *)
LEMMA QuietFiles ==
  ASSUME FilesInv, InFlight' => InFlight, thread'.checkpoints = thread.checkpoints,
         UNCHANGED <<files, refs, filesAfter, lastTurn, running, asked>>,
         \/ reactor' = reactor
         \/ reactor.step # "deleting" /\ reactor'.step \in {"idle", "baseline", "capture"}
         \/ /\ reactor.step = "rollback" /\ reactor'.step = "delete"
            /\ reactor'.count = reactor.count /\ reactor'.stale = reactor.stale
  PROVE  FilesInv'
<1>1. FilesTyped' /\ (InFlight' => TurnIsOver') /\ RefsAreCounts' /\ RunningIsNew'
  BY DEF FilesInv, FilesTyped, TurnIsOver, RefsAreCounts, RunningIsNew
<1>2. RefsAreTurnEnds'
  BY DEF FilesInv, RefsAreTurnEnds
<1>3. ReportedRef'
  BY DEF FilesInv, ReportedRef
<1>4. RevertGoesBack'
  BY DEF FilesInv, RevertGoesBack, Reverting
<1> QED BY <1>1, <1>2, <1>3, <1>4 DEF FilesInv

(* Nothing is under way when a user who waits acts.                        *)
LEMMA SettledIsQuiet == Settled => ~InFlight
<1> SUFFICES ASSUME Settled PROVE ~InFlight
  OBVIOUS
<1>1. /\ Events(reactorInbox) = {} /\ Events(ingestInbox) = {}
      /\ reactor.step = "idle" /\ ingesting.step = "idle"
  BY EmptyQueue DEF Settled, Idle
<1> QED BY <1>1 DEF InFlight

LEMMA AskTurnFiles ==
  ASSUME OneRound, FilesInv, ~hurried, AskTurn PROVE FilesInv'
<1>1. /\ Settled /\ running = None /\ lastTurn' = lastTurn + 1 /\ asked' = lastTurn'
      /\ lastTurn < MaxTurns
      /\ reactorInbox' = Append(reactorInbox, Event("thread.turn-start-requested", lastTurn'))
      /\ UNCHANGED <<thread, files, refs, filesAfter, running, ingestInbox, ingesting, reactor>>
  BY DEF AskTurn, MayAct, MayAsk, ingestion, workspace
<1>2. PICK e : e = Event("thread.turn-start-requested", lastTurn')
  OBVIOUS
<1>3. reactorInbox' = Append(<<>>, e) /\ e.type = "thread.turn-start-requested"
  BY <1>1, <1>2 DEF Settled, Event
<1>4. Events(reactorInbox') = {e} /\ Events(ingestInbox') = {}
  BY <1>1, <1>3, FirstInQueue, EmptyQueue DEF Settled
<1>5. ~InFlight'
  BY <1>1, <1>3, <1>4 DEF InFlight, Settled, Idle
<1>6. FilesTyped' /\ RefsAreCounts'
  BY <1>1, CheckpointsAssumption DEF FilesInv, FilesTyped, RefsAreCounts
<1>7. RunningIsNew'
  <2>1. \A k \in thread.checkpoints : k.turn \in Nat /\ k.turn <= lastTurn
    BY DEF OneRound, CountedInTurn, Counted
  <2>2. lastTurn \in Nat
    BY DEF OneRound
  <2>3. lastTurn' \in Turns
    BY <1>1, <2>2, CheckpointsAssumption DEF Turns
  <2> QED BY <1>1, <2>1, <2>2, <2>3 DEF RunningIsNew
<1>8. RefsAreTurnEnds' /\ ReportedRef' /\ RevertGoesBack'
  BY <1>1 DEF FilesInv, RefsAreTurnEnds, ReportedRef, RevertGoesBack
<1> QED BY <1>5, <1>6, <1>7, <1>8 DEF FilesInv

LEMMA StartTurnFiles ==
  ASSUME OneRound, FilesInv, ~hurried, StartTurn PROVE FilesInv'
<1>1. PICK e : e = Event("turn.started", asked)
  OBVIOUS
<1>2. /\ Settled /\ asked # None /\ running' = asked /\ asked' = None
      /\ ingestInbox' = Append(<<>>, e) /\ reactorInbox' = Append(<<>>, e)
      /\ e.type = "turn.started"
      /\ UNCHANGED <<thread, files, refs, filesAfter, lastTurn, ingesting, reactor>>
  BY <1>1 DEF StartTurn, MayAct, Settled, Event, workspace
<1>3. Events(reactorInbox') = {e} /\ Events(ingestInbox') = {e}
  BY <1>2, FirstInQueue
<1>4. ~InFlight'
  BY <1>2, <1>3 DEF InFlight, Settled, Idle
<1>5. FilesTyped' /\ RefsAreCounts' /\ RunningIsNew'
  BY <1>2 DEF FilesInv, FilesTyped, RefsAreCounts, RunningIsNew
<1>6. RefsAreTurnEnds' /\ ReportedRef' /\ RevertGoesBack'
  BY <1>2 DEF FilesInv, RefsAreTurnEnds, ReportedRef, RevertGoesBack
<1> QED BY <1>4, <1>5, <1>6 DEF FilesInv

LEMMA EditFiles ==
  ASSUME OneRound, FilesInv, ~hurried, Notices = "atEnd", Edit PROVE FilesInv'
<1>1. /\ Settled /\ running # None
      /\ \E n \in 1..MaxEdits : files' = files \cup {<<running, n>>}
      /\ UNCHANGED <<thread, refs, filesAfter, lastTurn, running, asked, ingestInbox, ingesting,
                     reactorInbox, reactor>>
  BY DEF Edit, MayAct, provider
<1>2. ~InFlight'
  BY <1>1, SettledIsQuiet DEF InFlight
<1>3. running \in Turns
  BY <1>1 DEF OneRound, FilesInv, RunningIsNew
<1>4. files' \in Workspaces
  BY <1>1, <1>3 DEF FilesInv, FilesTyped, Edits, Workspaces
<1>5. FilesTyped' /\ RefsAreCounts' /\ RunningIsNew'
  BY <1>1, <1>4 DEF FilesInv, FilesTyped, RefsAreCounts, RunningIsNew
<1>6. reactor.step = "idle"
  BY <1>1 DEF Settled, Idle
<1>7. RefsAreTurnEnds' /\ ReportedRef' /\ RevertGoesBack'
  BY <1>1, <1>6 DEF FilesInv, RefsAreTurnEnds, ReportedRef, RevertGoesBack, Reverting
<1> QED BY <1>2, <1>5, <1>7 DEF FilesInv

LEMMA EndTurnFiles ==
  ASSUME OneRound, FilesInv, ~hurried, EndTurn PROVE FilesInv'
<1>1. /\ Settled /\ running # None /\ running' = None
      /\ filesAfter' = [filesAfter EXCEPT ![running] = files]
      /\ UNCHANGED <<thread, files, refs, asked, lastTurn, ingesting, reactor>>
  BY DEF EndTurn, MayAct, workspace
<1>2. running = lastTurn /\ lastTurn \in Turns /\ asked = None
  BY <1>1 DEF OneRound, FilesInv, RunningIsNew
<1>3. TurnIsOver' /\ FilesTyped' /\ RefsAreCounts' /\ RunningIsNew'
  BY <1>1, <1>2 DEF FilesInv, FilesTyped, RefsAreCounts, RunningIsNew, TurnIsOver
<1>4. \A k \in thread.checkpoints : filesAfter'[k.turn] = filesAfter[k.turn]
  BY <1>1, <1>2 DEF FilesInv, FilesTyped, RunningIsNew
<1>5. reactor.step = "idle"
  BY <1>1 DEF Settled, Idle
<1>6. RefsAreTurnEnds' /\ ReportedRef' /\ RevertGoesBack'
  BY <1>1, <1>4, <1>5 DEF FilesInv, RefsAreTurnEnds, ReportedRef, RevertGoesBack, Reverting
<1> QED BY <1>3, <1>6 DEF FilesInv

LEMMA AskRevertFiles ==
  ASSUME OneRound, FilesInv, AskRevert PROVE FilesInv'
<1>1. PICK n : reactorInbox' = Append(reactorInbox,
                 [type |-> "thread.checkpoint-revert-requested", count |-> n])
  BY DEF AskRevert
<1>2. PICK e : e = [type |-> "thread.checkpoint-revert-requested", count |-> n]
  OBVIOUS
<1>3. /\ Settled
      /\ UNCHANGED <<thread, files, refs, filesAfter, lastTurn, running, asked, ingestInbox,
                     ingesting, reactor>>
  BY DEF AskRevert, provider, ingestion, workspace
<1>4. reactorInbox' = Append(<<>>, e) /\ e.type = "thread.checkpoint-revert-requested"
  BY <1>1, <1>2, <1>3 DEF Settled
<1>5. Events(reactorInbox') = {e} /\ Events(ingestInbox') = {}
  BY <1>3, <1>4, FirstInQueue, EmptyQueue DEF Settled
<1>6. ~InFlight'
  BY <1>3, <1>4, <1>5 DEF InFlight, Settled, Idle
<1> QED BY <1>3, <1>6, QuietFiles

LEMMA IngestTakeFiles ==
  ASSUME OneRound, FilesInv, IngestTake PROVE FilesInv'
<1>1. /\ ingestInbox # <<>> /\ ingestInbox' = Tail(ingestInbox)
      /\ UNCHANGED <<thread, files, refs, filesAfter, lastTurn, running, asked, reactorInbox,
                     reactor>>
  BY DEF IngestTake, provider, workspace
<1>2. PICK h : h = [step |-> "dispatch", event |-> Head(ingestInbox), seen |-> thread]
  OBVIOUS
<1>3. ingesting' = h /\ h.event = Head(ingestInbox)
  BY <1>2 DEF IngestTake
<1>4. /\ Events(ingestInbox') \subseteq Events(ingestInbox)
      /\ Head(ingestInbox) \in Events(ingestInbox)
  BY <1>1, TakenQueue DEF OneRound
<1>5. InFlight' => InFlight
  BY <1>1, <1>3, <1>4 DEF InFlight
<1> QED BY <1>1, <1>5, QuietFiles

LEMMA QuietStepsFiles ==
  ASSUME IInv, FilesInv, ~torn',
         \/ IngestIgnore \/ RollBackConversation \/ FailReactor \/ FailIngestion
         \/ UNCHANGED vars
  PROVE  FilesInv'
<1>1. UNCHANGED <<thread, files, refs, filesAfter, lastTurn, running, asked, reactorInbox,
                  ingestInbox>>
  BY DEF IngestIgnore, RollBackConversation, FailReactor, FailIngestion, vars, provider,
         ingestion, workspace
<1>2. ingesting' \in {ingesting, Idle} /\ Idle.step = "idle"
  BY DEF IngestIgnore, RollBackConversation, FailReactor, FailIngestion, vars, ingestion, Idle
<1>3. CASE RollBackConversation
  <2>1. reactor.step = "rollback" /\ reactor' = [reactor EXCEPT !.step = "delete"]
    BY <1>3 DEF RollBackConversation
  <2>2. PICK step, count, current, stale :
          reactor = [step |-> step, count |-> count, current |-> current, stale |-> stale]
    BY <2>1 DEF IInv, ReactorShape
  <2>3. /\ reactor'.step = "delete" /\ reactor'.count = reactor.count
        /\ reactor'.stale = reactor.stale
    BY <2>1, <2>2
  <2>4. InFlight' => InFlight
    BY <1>1, <1>2, <2>3 DEF InFlight
  <2> QED BY <1>1, <2>1, <2>3, <2>4, QuietFiles
<1>4. CASE FailReactor
  <2>1. reactor.step # "deleting" /\ reactor'.step = "idle"
    BY <1>4 DEF FailReactor, Idle
  <2>2. InFlight' => InFlight
    BY <1>1, <1>2, <2>1 DEF InFlight
  <2> QED BY <1>1, <2>1, <2>2, QuietFiles
<1>5. CASE IngestIgnore \/ FailIngestion \/ UNCHANGED vars
  <2>1. reactor' = reactor
    BY <1>5 DEF IngestIgnore, FailIngestion, vars
  <2>2. InFlight' => InFlight
    BY <1>1, <1>2, <2>1 DEF InFlight
  <2> QED BY <1>1, <2>1, <2>2, QuietFiles
<1> QED BY <1>3, <1>4, <1>5

(* The reactor takes an event.                                             *)
LEMMA TakesFiles ==
  ASSUME OneRound, FilesInv, TakeTurnStart \/ TakeCompletion \/ TakePlaceholder
  PROVE  FilesInv'
<1>1. PICK e : e = Head(reactorInbox)
  OBVIOUS
<1>2. /\ reactorInbox # <<>> /\ reactorInbox' = Tail(reactorInbox) /\ reactor = Idle
      /\ reactor.step = "idle"
      /\ UNCHANGED <<thread, files, refs, filesAfter, lastTurn, running, asked, ingestInbox,
                     ingesting>>
  BY DEF TakeTurnStart, TakeCompletion, TakePlaceholder, Take, provider, ingestion, workspace,
         Idle
<1>3. Events(reactorInbox') \subseteq Events(reactorInbox) /\ e \in Events(reactorInbox)
  BY <1>1, <1>2, TakenQueue DEF OneRound
<1>4. \/ reactor'.step \in {"idle", "baseline"}
      \/ /\ reactor'.step = "capture"
         /\ e.type \in {"turn.completed", "thread.turn-diff-completed"}
  <2>1. \A turn, count, status : Capture(turn, count, status).step = "capture"
    BY DEF Capture
  <2>2. CASE TakeTurnStart
    <3>1. \E n : reactor' = [step |-> "baseline", count |-> n]
      BY <2>2 DEF TakeTurnStart, Take
    <3> QED BY <3>1
  <2>3. CASE TakeCompletion
    BY <1>1, <2>1, <2>3 DEF TakeCompletion, Take, Idle
  <2>4. CASE TakePlaceholder
    BY <1>1, <2>1, <2>4 DEF TakePlaceholder, Take, Idle
  <2> QED BY <2>2, <2>3, <2>4
<1>5. InFlight' => InFlight
  BY <1>2, <1>3, <1>4 DEF InFlight
<1> QED BY <1>2, <1>4, <1>5, QuietFiles

LEMMA TakeRevertFiles ==
  ASSUME OneRound, FilesInv, TakeRevert PROVE FilesInv'
<1>1. PICK e : e = Head(reactorInbox)
  OBVIOUS
<1>2. /\ reactorInbox # <<>> /\ reactorInbox' = Tail(reactorInbox) /\ reactor = Idle
      /\ reactor.step = "idle"
      /\ UNCHANGED <<thread, files, refs, filesAfter, lastTurn, running, asked, ingestInbox,
                     ingesting>>
  BY DEF TakeRevert, Take, provider, ingestion, workspace, Idle
<1>3. Events(reactorInbox') \subseteq Events(reactorInbox)
  BY <1>1, <1>2, TakenQueue DEF OneRound
<1>4. PICK n, stale, old : /\ n = e.count /\ old = thread.checkpoints
                           /\ stale = StaleRefs(thread.checkpoints, e.count)
  OBVIOUS
<1>5. \/ reactor' = Idle
      \/ /\ n = 0 \/ \E k \in old : k.count = n /\ k.ref # None
         /\ \E current : reactor' = [step |-> "restore", count |-> n, current |-> current,
                                     stale |-> stale]
  BY <1>1, <1>4 DEF TakeRevert, Take
<1>6. CASE reactor' = Idle
  <2>1. reactor'.step = "idle"
    BY <1>6 DEF Idle
  <2>2. InFlight' => InFlight
    BY <1>2, <1>3, <2>1 DEF InFlight
  <2> QED BY <1>2, <2>1, <2>2, QuietFiles
<1>7. ASSUME n = 0 \/ \E k \in old : k.count = n /\ k.ref # None,
             reactor'.step = "restore", reactor'.count = n, reactor'.stale = stale
      PROVE  FilesInv'
  <2>1. InFlight' => InFlight
    BY <1>2, <1>3, <1>7 DEF InFlight
  <2>2. FilesTyped' /\ (InFlight' => TurnIsOver') /\ RefsAreCounts' /\ RunningIsNew'
    BY <1>2, <2>1 DEF FilesInv, FilesTyped, TurnIsOver, RefsAreCounts, RunningIsNew
  <2>3. RefsAreTurnEnds' /\ ReportedRef'
    BY <1>2, <1>7 DEF FilesInv, RefsAreTurnEnds, ReportedRef
  <2>4. \A k \in old : k.ref # None => k.ref = k.count
    BY <1>4 DEF FilesInv, RefsAreCounts
  <2>5. \A m : m \in stale <=> \E k \in old : k.count > n /\ m = k.ref /\ m # None
    BY <1>4 DEF StaleRefs
  <2>6. /\ \A m \in stale : m > n
        /\ \A k \in old : k.count > n /\ k.ref # None => k.count \in stale
    BY <2>4, <2>5
  <2>7. RevertGoesBack'
    BY <1>2, <1>4, <1>7, <2>6 DEF RevertGoesBack, Reverting
  <2> QED BY <2>2, <2>3, <2>7 DEF FilesInv
<1> QED BY <1>5, <1>6, <1>7

-----------------------------------------------------------------------------
(* A turn is counted no higher than the turns that were asked for.         *)
LEMMA NextIsCount ==
  ASSUME OneRound, FilesInv, lastTurn \in Turns
  PROVE  NextCount(thread.checkpoints, lastTurn) \in Counts \ {0}
           /\ NextCount(thread.checkpoints, lastTurn) <= lastTurn
<1>1. PICK old, t : old = thread.checkpoints /\ t = lastTurn
  OBVIOUS
<1>2. t \in Nat /\ t >= 1 /\ t <= MaxTurns /\ MaxTurns \in Nat
  BY <1>1, CheckpointsAssumption DEF Turns
<1>3. CountedInTurn(old, t) /\ Counted(OthersOf(old, t))
  <2>1. CountedInTurn(old, t)
    BY <1>1 DEF OneRound
  <2>2. Counted(old) /\ OthersOf(old, t) \subseteq old
    BY <2>1 DEF CountedInTurn, OthersOf
  <2> QED BY <2>1, <2>2, CountedSubset
<1>4. ASSUME NEW k \in OthersOf(old, t) PROVE k.count \in Nat /\ k.count <= t - 1
  <2>1. k \in old /\ k.turn # t
    BY DEF OthersOf
  <2>2. k.turn \in Nat /\ k.count \in Nat /\ k.turn <= t /\ k.count <= k.turn
    BY <1>1, <1>3, <2>1 DEF CountedInTurn, Counted, FilesInv, RefsAreCounts
  <2> QED BY <1>2, <2>1, <2>2
<1>5. PICK high : high = Highest(OthersOf(old, t))
  OBVIOUS
<1>6. high \in Nat /\ (high = 0 \/ \E k \in OthersOf(old, t) : k.count = high)
  BY <1>3, <1>5, HighestCount
<1>7. high <= t - 1
  BY <1>2, <1>4, <1>6
<1> QED BY <1>1, <1>2, <1>5, <1>6, <1>7 DEF NextCount, Counts

LEMMA CompleteDiffFiles ==
  ASSUME IInv, OneRound, FilesInv, InFlight, reactor.step \notin Reverting,
         UNCHANGED <<files, refs, filesAfter, lastTurn, running, asked>>,
         reactor' \in {reactor, Idle},
         NEW c, CompleteDiff(c), c.turn = lastTurn,
         c.count = NextCount(thread.checkpoints, lastTurn), c.ref \in {None, c.count},
         c.status # "missing" => c.ref # None, c.ref # None => refs[c.count] = files
  PROVE  FilesInv'
<1>1. TurnIsOver /\ FilesTyped
  BY DEF FilesInv
<1>2. c.count \in Counts \ {0} /\ c.count <= c.turn
  BY <1>1, NextIsCount DEF TurnIsOver
<1>3. /\ reactor'.step = reactor.step \/ reactor'.step = "idle"
      /\ reactor'.step \notin Reverting
  BY DEF Idle, Reverting
<1>4. \A k \in thread'.checkpoints : k \in thread.checkpoints \/ k = c
  BY DiffReplaces DEF Replaced
<1>5. FilesTyped' /\ TurnIsOver'
  BY <1>1 DEF FilesTyped, TurnIsOver
<1>6. RefsAreCounts'
  BY <1>2, <1>4 DEF FilesInv, RefsAreCounts
<1>7. RunningIsNew'
  BY <1>1 DEF RunningIsNew, TurnIsOver
<1>8. RefsAreTurnEnds'
  <2>1. files # None
    BY <1>1, CheckpointsAssumption DEF FilesTyped, Workspaces
  <2>2. c.ref # None => refs[c.count] = filesAfter[c.turn] /\ refs[c.count] # None
    BY <1>1, <2>1 DEF TurnIsOver
  <2>3. \A k \in thread.checkpoints :
          k.ref # None => refs[k.count] = filesAfter[k.turn] /\ refs[k.count] # None
    BY DEF FilesInv, RefsAreTurnEnds, Reverting
  <2> QED BY <1>4, <2>2, <2>3 DEF RefsAreTurnEnds
<1>9. ReportedRef'
  <2>1. CASE reactor' = reactor
    BY <2>1 DEF FilesInv, ReportedRef
  <2>2. CASE reactor' = Idle
    BY <2>2 DEF Idle, ReportedRef
  <2> QED BY <2>1, <2>2
<1>10. RevertGoesBack'
  BY <1>3 DEF RevertGoesBack, Reverting
<1> QED BY <1>5, <1>6, <1>7, <1>8, <1>9, <1>10 DEF FilesInv

LEMMA IngestDispatchFiles ==
  ASSUME IInv, OneRound, FilesInv, IngestDispatch PROVE FilesInv'
<1>1. /\ ingesting.step = "dispatch" /\ ingesting' = Idle
      /\ UNCHANGED <<files, refs, filesAfter, running, asked, lastTurn, ingestInbox, reactor>>
  BY DEF IngestDispatch, provider, workspace
<1>2. CASE \E s, turn : SetSessionTo(s, turn)
  <2>1. PICK s : thread' = ThreadAfter(thread, [type |-> "thread.session-set", arg |-> s])
    BY <1>2 DEF SetSessionTo
  <2>2. thread.exists = TRUE /\ {"exists", "checkpoints"} \subseteq DOMAIN thread
    BY DEF IInv, ThreadShape
  <2>3. thread'.checkpoints = thread.checkpoints
    BY <2>1, <2>2, SessionSetKeeps
  <2>4. UNCHANGED reactorInbox /\ ingesting'.step = "idle"
    BY <1>1, <1>2 DEF SetSessionTo, Idle
  <2>5. InFlight' => InFlight
    BY <1>1, <2>4 DEF InFlight
  <2> QED BY <1>1, <2>3, <2>5, QuietFiles
<1>3. ASSUME ~Tracked, ingesting.event.type = "turn.diff.updated",
             CompleteDiff(Checkpoint(ingesting.event.turn, PlaceholderCount, "missing", None))
      PROVE  FilesInv'
  <2>1. /\ ingesting.event.turn = lastTurn
        /\ PlaceholderCount = NextCount(thread.checkpoints, lastTurn)
    BY <1>1, <1>3, PlaceholderIsNext
  <2>2. PICK c : c = Checkpoint(ingesting.event.turn, PlaceholderCount, "missing", None)
    OBVIOUS
  <2>3. /\ CompleteDiff(c) /\ c.turn = lastTurn /\ c.status = "missing" /\ c.ref = None
        /\ c.count = NextCount(thread.checkpoints, lastTurn)
    BY <1>3, <2>1, <2>2 DEF Checkpoint
  <2>4. InFlight
    BY <1>1, <1>3 DEF InFlight
  <2>5. reactor.step \notin Reverting
    BY <1>1 DEF OneRound, RevertAlone, Idle
  <2> QED BY <1>1, <2>3, <2>4, <2>5, CompleteDiffFiles
<1> QED BY <1>2, <1>3 DEF IngestDispatch

LEMMA ReportCaptureFiles ==
  ASSUME IInv, OneRound, FilesInv, ReportCapture PROVE FilesInv'
<1>1. PICK c : c = Checkpoint(reactor.turn, reactor.count, reactor.status, reactor.count)
  OBVIOUS
<1>2. /\ reactor.step = "report" /\ reactor' = Idle /\ CompleteDiff(c)
      /\ UNCHANGED <<files, refs, filesAfter, running, asked, lastTurn>>
  BY <1>1 DEF ReportCapture, provider, workspace
<1>3. /\ c.turn = lastTurn /\ c.count = NextCount(thread.checkpoints, lastTurn)
      /\ c.ref = c.count /\ c.count = reactor.count
  BY <1>1, <1>2 DEF Checkpoint, OneRound
<1>4. InFlight /\ TurnIsOver
  BY <1>2 DEF InFlight, FilesInv
<1>5. c.count \in Counts
  BY <1>3, <1>4, NextIsCount DEF TurnIsOver
<1>6. c.ref # None /\ refs[c.count] = files /\ reactor.step \notin Reverting
  BY <1>2, <1>3, <1>5, CheckpointsAssumption DEF FilesInv, ReportedRef, Reverting
<1> QED BY <1>2, <1>3, <1>4, <1>6, CompleteDiffFiles

-----------------------------------------------------------------------------
(* Git: a ref is written while the end of a turn is under way, or where    *)
(* there was none, and deleted for turns that are discarded.               *)
LEMMA CaptureBaselineFiles ==
  ASSUME OneRound, FilesInv, CaptureBaseline PROVE FilesInv'
<1>1. /\ reactor.step = "baseline" /\ reactor' = Idle /\ reactor'.step = "idle"
      /\ refs' = IF refs[reactor.count] = None
                 THEN [refs EXCEPT ![reactor.count] = files] ELSE refs
      /\ UNCHANGED <<thread, files, filesAfter, lastTurn, running, asked, ingestInbox,
                     ingesting, reactorInbox>>
  BY DEF CaptureBaseline, workspace, provider, ingestion, Idle
<1>2. InFlight' => InFlight
  BY <1>1 DEF InFlight
<1>3. FilesTyped' /\ (InFlight' => TurnIsOver') /\ RefsAreCounts' /\ RunningIsNew'
  BY <1>1, <1>2 DEF FilesInv, FilesTyped, TurnIsOver, RefsAreCounts, RunningIsNew
<1>4. RefsAreTurnEnds'
  <2>1. \A k \in thread.checkpoints : k.ref # None =>
          refs[k.count] = filesAfter[k.turn] /\ refs[k.count] # None
    BY <1>1 DEF FilesInv, RefsAreTurnEnds
  <2>2. \A n \in Counts : refs[n] # None => refs'[n] = refs[n]
    BY <1>1 DEF FilesInv, FilesTyped
  <2>3. \A k \in thread.checkpoints : k.count \in Counts
    BY DEF FilesInv, RefsAreCounts
  <2> QED BY <1>1, <2>1, <2>2, <2>3 DEF RefsAreTurnEnds
<1>5. ReportedRef' /\ RevertGoesBack'
  BY <1>1 DEF ReportedRef, RevertGoesBack, Reverting
<1> QED BY <1>3, <1>4, <1>5 DEF FilesInv

LEMMA CaptureTurnFiles ==
  ASSUME IInv, OneRound, FilesInv, CaptureTurn PROVE FilesInv'
<1>1. /\ reactor.step = "capture" /\ reactor' = [reactor EXCEPT !.step = "report"]
      /\ refs' = [refs EXCEPT ![reactor.count] = files]
      /\ UNCHANGED <<thread, files, filesAfter, lastTurn, running, asked, ingestInbox,
                     ingesting, reactorInbox>>
  BY DEF CaptureTurn, workspace, provider, ingestion
<1>2. reactor'.step = "report" /\ reactor'.count = reactor.count
  <2>1. \/ reactor = Capture(reactor.turn, reactor.count, reactor.status)
        \/ reactor = Report(reactor.turn, reactor.count, reactor.status)
    BY <1>1 DEF IInv, ReactorShape
  <2>2. reactor' = Report(reactor.turn, reactor.count, reactor.status)
    BY <1>1, <2>1 DEF Capture, Report
  <2> QED BY <2>2 DEF Capture, Report
<1>3. TurnIsOver
  BY <1>1 DEF FilesInv, InFlight
<1>4. PICK next : next = NextCount(thread.checkpoints, lastTurn)
  OBVIOUS
<1>5. reactor.count = next /\ next \in Counts
  <2>1. reactor.count = next
    BY <1>1, <1>4 DEF OneRound
  <2> QED BY <1>3, <1>4, <2>1, NextIsCount DEF TurnIsOver
<1>6. FilesTyped' /\ TurnIsOver' /\ RefsAreCounts' /\ RunningIsNew'
  BY <1>1, <1>3, <1>5 DEF FilesInv, FilesTyped, TurnIsOver, RefsAreCounts, RunningIsNew
<1>7. files # None
  BY CheckpointsAssumption DEF FilesInv, FilesTyped, Workspaces
<1>8. RefsAreTurnEnds'
  <2>1. \A k \in thread.checkpoints : k.count = next => k.turn = lastTurn
    <3>1. PICK old, t : old = thread.checkpoints /\ t = lastTurn
      OBVIOUS
    <3>2. t \in Nat /\ CountedInTurn(old, t) /\ next = NextCount(old, t)
      BY <1>4, <3>1 DEF OneRound
    <3>3. \A k \in old : k.count \in Nat
      BY <3>2 DEF CountedInTurn, Counted
    <3>4. \A k \in old : k.turn # t => k.count < next
      BY <3>2, NextIsNew DEF CountedInTurn
    <3> QED BY <3>1, <3>3, <3>4
  <2>2. \A k \in thread.checkpoints : k.ref # None =>
          refs[k.count] = filesAfter[k.turn] /\ refs[k.count] # None
    BY <1>1 DEF FilesInv, RefsAreTurnEnds
  <2>3. \A k \in thread.checkpoints : k.count \in Counts
    BY DEF FilesInv, RefsAreCounts
  <2>4. refs'[next] = files /\ \A n \in Counts : n # next => refs'[n] = refs[n]
    BY <1>1, <1>5 DEF FilesInv, FilesTyped
  <2> QED BY <1>1, <1>3, <1>7, <2>1, <2>2, <2>3, <2>4 DEF RefsAreTurnEnds, TurnIsOver
<1>9. ReportedRef'
  BY <1>1, <1>2, <1>5 DEF ReportedRef, FilesInv, FilesTyped
<1>10. RevertGoesBack'
  BY <1>2 DEF RevertGoesBack, Reverting
<1> QED BY <1>6, <1>8, <1>9, <1>10 DEF FilesInv

(* Nothing of a turn is under way beside a revert.                         *)
LEMMA RevertIsQuiet ==
  ASSUME OneRound, reactor.step \in Reverting PROVE ~InFlight
<1>1. Events(reactorInbox) = {} /\ Events(ingestInbox) = {} /\ ingesting.step = "idle"
  BY EmptyQueue DEF OneRound, RevertAlone, Idle
<1> QED BY <1>1 DEF InFlight, Reverting

LEMMA RestoreFilesFiles ==
  ASSUME IInv, OneRound, FilesInv, RestoreFiles PROVE FilesInv'
<1>1. /\ reactor.step = "restore"
      /\ UNCHANGED <<refs, filesAfter, thread, lastTurn, running, asked, ingestInbox, ingesting,
                     reactorInbox>>
  BY DEF RestoreFiles, provider, ingestion
<1>2. PICK n, stale : n = reactor.count /\ stale = reactor.stale
  OBVIOUS
<1>3. /\ \/ /\ refs[n] # None \/ n = 0
            /\ files' = IF refs[n] = None THEN {} ELSE refs[n]
            /\ reactor' = [reactor EXCEPT !.step = "rollback"]
         \/ files' = files /\ reactor' = Idle
  BY <1>2 DEF RestoreFiles
<1>4. ~InFlight /\ reactor.step \in Reverting
  BY <1>1, RevertIsQuiet DEF Reverting
<1>5. CASE files' = files /\ reactor' = Idle
  <2>1. reactor'.step = "idle"
    BY <1>5 DEF Idle
  <2>2. InFlight' => InFlight
    BY <1>1, <2>1 DEF InFlight
  <2> QED BY <1>1, <1>5, <2>1, <2>2, QuietFiles
<1>6. ASSUME refs[n] # None \/ n = 0, files' = IF refs[n] = None THEN {} ELSE refs[n],
             reactor' = [reactor EXCEPT !.step = "rollback"]
      PROVE  FilesInv'
  <2>1. /\ reactor'.step = "rollback" /\ reactor'.count = n /\ reactor'.stale = stale
    <3>1. PICK step, count, current, old :
            reactor = [step |-> step, count |-> count, current |-> current, stale |-> old]
      BY <1>1 DEF IInv, ReactorShape
    <3> QED BY <1>2, <1>6, <3>1
  <2>2. ~InFlight'
    BY <1>1, <1>4, <2>1 DEF InFlight
  <2>3. n = 0 \/ \E k \in thread.checkpoints : k.count = n /\ k.ref # None
    BY <1>1, <1>2 DEF FilesInv, RevertGoesBack
  <2>4. n \in Counts
    BY <2>3, CheckpointsAssumption DEF FilesInv, RefsAreCounts, Counts
  <2>5. files' \in Workspaces
    <3>1. refs[n] \in Workspaces \cup {None}
      BY <2>4 DEF FilesInv, FilesTyped
    <3>2. {} \in Workspaces
      BY DEF Workspaces
    <3> QED BY <1>6, <3>1, <3>2
  <2>6. FilesTyped' /\ RefsAreCounts' /\ RunningIsNew'
    BY <1>1, <2>5 DEF FilesInv, FilesTyped, RefsAreCounts, RunningIsNew
  <2>7. RefsAreTurnEnds' /\ ReportedRef'
    BY <1>1, <2>1 DEF FilesInv, RefsAreTurnEnds, ReportedRef
  <2>8. ASSUME NEW k \in thread.checkpoints, k.count = n PROVE files' = filesAfter[k.turn]
    <3>1. n # 0
      BY <2>8 DEF FilesInv, RefsAreCounts
    <3>2. PICK j \in thread.checkpoints : j.count = n /\ j.ref # None
      BY <2>3, <3>1
    <3>3. j.turn = k.turn
      BY <2>8, <3>2 DEF OneRound, CountedInTurn
    <3>4. refs[n] = filesAfter[j.turn] /\ refs[n] # None
      BY <1>1, <3>2 DEF FilesInv, RefsAreTurnEnds
    <3> QED BY <1>6, <3>3, <3>4
  <2>9. RevertGoesBack'
    <3>1. /\ \A m \in stale : m > n
          /\ \A k \in thread.checkpoints : k.count > n /\ k.ref # None =>
               k.count \in stale \/ refs[k.count] = None
      BY <1>2, <1>4 DEF FilesInv, RevertGoesBack
    <3> QED BY <1>1, <2>1, <2>8, <3>1 DEF RevertGoesBack
  <2> QED BY <2>2, <2>6, <2>7, <2>9 DEF FilesInv
<1> QED BY <1>3, <1>5, <1>6

LEMMA DeleteRefFiles ==
  ASSUME IInv, OneRound, FilesInv, DeleteRef PROVE FilesInv'
<1>1. PICK count, stale : count = reactor.count /\ stale = reactor.stale
  OBVIOUS
<1>2. PICK n \in stale : /\ refs' = [refs EXCEPT ![n] = None]
                         /\ reactor' = [reactor EXCEPT !.stale = @ \ {n}, !.step = "deleting"]
  BY <1>1 DEF DeleteRef
<1>3. /\ reactor.step \in {"delete", "deleting"} /\ reactor.step \in Reverting
      /\ UNCHANGED <<files, filesAfter, thread, lastTurn, running, asked, ingestInbox,
                     ingesting, reactorInbox>>
  BY DEF DeleteRef, workspace, provider, ingestion, Reverting
<1>4. reactor'.step = "deleting" /\ reactor'.count = count /\ reactor'.stale = stale \ {n}
  <2>1. PICK step, c, current, s :
          reactor = [step |-> step, count |-> c, current |-> current, stale |-> s]
    BY <1>3 DEF IInv, ReactorShape
  <2> QED BY <1>1, <1>2, <2>1
<1>5. ~InFlight'
  BY <1>3, <1>4, RevertIsQuiet DEF InFlight
<1>6. /\ n > count /\ \A m \in stale : m > count
      /\ \A k \in thread.checkpoints : k.count > count /\ k.ref # None =>
           k.count \in stale \/ refs[k.count] = None
      /\ \A k \in thread.checkpoints : k.count = count => files = filesAfter[k.turn]
  BY <1>1, <1>3 DEF FilesInv, RevertGoesBack
<1>7. /\ refs' \in [Counts -> Workspaces \cup {None}]
      /\ \A m \in Counts : refs'[m] = IF m = n THEN None ELSE refs[m]
  <2>1. PICK T, old : T = Workspaces \cup {None} /\ old = refs
    OBVIOUS
  <2>2. old \in [Counts -> T] /\ None \in T /\ refs' = [old EXCEPT ![n] = None]
    BY <1>2, <2>1 DEF FilesInv, FilesTyped
  <2>3. /\ [old EXCEPT ![n] = None] \in [Counts -> T]
        /\ \A m \in Counts : [old EXCEPT ![n] = None][m] = IF m = n THEN None ELSE old[m]
    BY <2>2
  <2> QED BY Zenon, <2>1, <2>2, <2>3
<1>8. FilesTyped' /\ RefsAreCounts' /\ RunningIsNew'
  BY <1>3, <1>7 DEF FilesInv, FilesTyped, RefsAreCounts, RunningIsNew
<1>9. \A k \in thread.checkpoints : k.count \in Counts
  BY DEF FilesInv, RefsAreCounts
<1>10. RefsAreTurnEnds'
  <2>1. \A k \in thread.checkpoints : k.ref # None =>
          \/ k.count > count
          \/ refs[k.count] = filesAfter[k.turn] /\ refs[k.count] # None
    BY <1>1 DEF FilesInv, RefsAreTurnEnds
  <2>2. count \in Nat /\ \A k \in thread.checkpoints : k.count = n => k.count > count
    BY <1>1, <1>3, <1>6 DEF OneRound, RevertAlone
  <2> QED BY <1>3, <1>4, <1>7, <1>9, <2>1, <2>2 DEF RefsAreTurnEnds
<1>11. ReportedRef' /\ RevertGoesBack'
  BY <1>3, <1>4, <1>6, <1>7, <1>9 DEF ReportedRef, RevertGoesBack, Reverting
<1> QED BY <1>5, <1>8, <1>10, <1>11 DEF FilesInv

LEMMA CompleteRevertFiles ==
  ASSUME IInv, OneRound, FilesInv, CompleteRevert PROVE FilesInv'
<1>1. /\ reactor.step \in Reverting /\ reactor' = Idle /\ reactor'.step = "idle"
      /\ thread' = ThreadAfter(thread, [type |-> "thread.reverted",
                                        arg |-> [turnCount |-> reactor.count]])
      /\ UNCHANGED <<files, refs, filesAfter, lastTurn, running, asked, ingestInbox, ingesting,
                     reactorInbox>>
  BY DEF CompleteRevert, Reverting, provider, ingestion, workspace, Idle
<1>2. ~InFlight'
  BY <1>1, RevertIsQuiet DEF InFlight
<1>3. thread'.checkpoints = {k \in thread.checkpoints : k.count <= reactor.count}
  BY RevertedIsCut
<1>4. FilesTyped' /\ RefsAreCounts' /\ RunningIsNew'
  BY <1>1, <1>3 DEF FilesInv, FilesTyped, RefsAreCounts, RunningIsNew
<1>5. RefsAreTurnEnds'
  <2>1. \A k \in thread'.checkpoints : ~(k.count > reactor.count)
    BY <1>1, <1>3 DEF OneRound, RevertAlone, FilesInv, RefsAreCounts, Counts
  <2> QED BY <1>1, <1>3, <2>1 DEF FilesInv, RefsAreTurnEnds
<1>6. ReportedRef' /\ RevertGoesBack'
  BY <1>1 DEF ReportedRef, RevertGoesBack, Reverting
<1> QED BY <1>2, <1>4, <1>5, <1>6 DEF FilesInv

LEMMA StepFiles ==
  ASSUME Notices = "atEnd", IInv, RInv, FInv, [Next]_vars PROVE FInv'
<1>1. SUFFICES ASSUME ~hurried, ~torn', OneRound, FilesInv PROVE FilesInv'
  BY StaysAsItIs DEF FInv, RInv
<1>2. CASE AskTurn \/ StartTurn \/ Edit \/ EndTurn \/ AskRevert
  BY <1>1, <1>2, AskTurnFiles, StartTurnFiles, EditFiles, EndTurnFiles, AskRevertFiles
<1>3. CASE IngestTake \/ IngestDispatch
  BY <1>1, <1>3, IngestTakeFiles, IngestDispatchFiles
<1>4. CASE TakeTurnStart \/ TakeCompletion \/ TakePlaceholder \/ TakeRevert
  BY <1>1, <1>4, TakesFiles, TakeRevertFiles
<1>5. CASE CaptureBaseline \/ CaptureTurn \/ ReportCapture
  BY <1>1, <1>5, CaptureBaselineFiles, CaptureTurnFiles, ReportCaptureFiles
<1>6. CASE RestoreFiles \/ DeleteRef \/ CompleteRevert
  BY <1>1, <1>6, RestoreFilesFiles, DeleteRefFiles, CompleteRevertFiles
<1>7. CASE \/ IngestIgnore \/ RollBackConversation \/ FailReactor \/ FailIngestion
           \/ UNCHANGED vars
  BY <1>1, <1>7, QuietStepsFiles
<1> QED BY <1>2, <1>3, <1>4, <1>5, <1>6, <1>7 DEF Next, Outside, Workers

LEMMA InitFiles == Init => FInv
<1> SUFFICES ASSUME Init PROVE FilesInv
  BY DEF FInv
<1>1. /\ Settled /\ reactor.step = "idle" /\ running = None /\ asked = None /\ lastTurn = 0
      /\ files = {} /\ refs = [n \in Counts |-> None]
      /\ filesAfter = [t \in Turns |-> None]
  BY DEF Init, Settled, Idle
<1>2. thread.checkpoints = {}
  BY DEF Init, NewThread
<1>3. ~InFlight
  BY <1>1, SettledIsQuiet
<1>4. FilesTyped
  BY <1>1, CheckpointsAssumption DEF FilesTyped, Workspaces
<1>5. RefsAreCounts /\ RunningIsNew /\ RefsAreTurnEnds /\ ReportedRef /\ RevertGoesBack
  BY <1>1, <1>2 DEF RefsAreCounts, RunningIsNew, RefsAreTurnEnds, ReportedRef, RevertGoesBack,
                    Reverting
<1> QED BY <1>3, <1>4, <1>5 DEF FilesInv

LEMMA RevertsOnly ==
  ASSUME IInv, OneRound, [Next]_vars, reactor.step \in {"delete", "deleting"}, thread' # thread
  PROVE  CompleteRevert
<1>1. ingesting = Idle
  BY DEF OneRound, RevertAlone, Reverting
<1>2. ~IngestDispatch /\ ~ReportCapture
  BY <1>1 DEF IngestDispatch, ReportCapture, Idle
<1>3. ASSUME \/ TakeTurnStart \/ TakeCompletion \/ TakePlaceholder \/ TakeRevert
             \/ CaptureTurn \/ RestoreFiles \/ RollBackConversation \/ DeleteRef
      PROVE  FALSE
  BY <1>3, TakeKeeps, CaptureTurnKeeps, RevertKeeps
<1>4. ASSUME \/ AskTurn \/ StartTurn \/ Edit \/ EndTurn \/ AskRevert
             \/ IngestTake \/ IngestIgnore \/ CaptureBaseline \/ FailReactor \/ FailIngestion
             \/ UNCHANGED vars
      PROVE  FALSE
  BY <1>4, OthersBeside
<1> QED BY <1>2, <1>3, <1>4 DEF Next, Outside, Workers

LEMMA RevertGoesBackTo ==
  ASSUME IInv, RInv, FInv, [Next]_vars, reactor.step \in {"delete", "deleting"},
         thread' # thread, ~torn, ~hurried
  PROVE  /\ \A k \in thread'.checkpoints :
              k.count = reactor.count => files = filesAfter[k.turn]
         /\ \A k \in thread.checkpoints \ thread'.checkpoints :
              k.ref # None => refs[k.count] = None
<1>1. OneRound /\ FilesInv
  BY DEF RInv, FInv
<1>2. CompleteRevert
  BY <1>1, RevertsOnly
<1>3. reactor.stale = {} /\ reactor.count \in Nat
  BY <1>1, <1>2 DEF CompleteRevert, OneRound, RevertAlone, Reverting
<1>4. thread'.checkpoints = {k \in thread.checkpoints : k.count <= reactor.count}
  BY <1>2, RevertedIsCut
<1>5. ASSUME NEW k \in thread.checkpoints \ thread'.checkpoints PROVE k.count > reactor.count
  <2>1. k.count \in Nat
    BY <1>1 DEF OneRound, CountedInTurn, Counted
  <2> QED BY <1>3, <1>4, <2>1
<1> QED BY <1>1, <1>3, <1>4, <1>5 DEF FilesInv, RevertGoesBack, Reverting

(* When the user waits and the provider reports diffs at the end of a      *)
(* turn, the ref of a captured turn is the workspace as it was when that   *)
(* turn ended, for any number of turns, reverts and failures, unless one   *)
(* of them came between the first ref that a revert deleted and its        *)
(* report.                                                                 *)
THEOREM CapturesAreTurnEnds == ASSUME Notices = "atEnd" PROVE Spec => []CaptureIsTurnEnd
<1>1. ASSUME IInv, RInv, FInv, [Next]_vars PROVE IInv' /\ RInv' /\ FInv'
  BY <1>1, StepKeeps, StepCounts, StepFiles
<1>2. ASSUME FInv PROVE CaptureIsTurnEnd
  <2>1. SUFFICES ASSUME ~hurried, reactor = Idle, ~torn, NEW k \in Captured
                 PROVE  refs[k.count] = filesAfter[k.turn]
    BY DEF CaptureIsTurnEnd
  <2>2. FilesInv /\ reactor.step # "deleting"
    BY <1>2, <2>1 DEF FInv, Idle
  <2>3. k \in thread.checkpoints /\ k.ref # None
    BY <2>1, <2>2 DEF Captured, FilesInv, RefsAreCounts
  <2> QED BY <2>2, <2>3 DEF FilesInv, RefsAreTurnEnds
<1> QED BY <1>1, <1>2, InitHolds, InitCounts, InitFiles, PTL DEF Spec

(* Under the same conditions a revert that is reported has left the        *)
(* workspace as it was at the end of the turn it goes back to, and no ref  *)
(* of a captured turn that it discards.                                    *)
THEOREM RevertsRestore == ASSUME Notices = "atEnd" PROVE Spec => RevertRestores
<1>1. ASSUME IInv, RInv, FInv, [Next]_vars
      PROVE  /\ IInv' /\ RInv' /\ FInv'
             /\ [(reactor.step \in {"delete", "deleting"} /\ thread' # thread
                    /\ ~torn /\ ~hurried) =>
                   /\ \A k \in thread'.checkpoints :
                        k.count = reactor.count => files = filesAfter[k.turn]
                   /\ \A k \in thread.checkpoints \ thread'.checkpoints :
                        k.ref # None => refs[k.count] = None]_vars
  BY <1>1, StepKeeps, StepCounts, StepFiles, RevertGoesBackTo
<1> QED BY <1>1, InitHolds, InitCounts, InitFiles, PTL DEF Spec, RevertRestores

-----------------------------------------------------------------------------
(* What the ingestion still has to hear, or to conclude.                   *)
Awaited(type) ==
  \/ \E e \in Events(ingestInbox) : e.type = type
  \/ ingesting.step = "dispatch" /\ ingesting.event.type = type

(* The session shows the running turn as soon as the ingestion has heard   *)
(* of it, and shows none once it has heard of its end.                     *)
SessionInv ==
  /\ "session" \in DOMAIN thread /\ thread.session.turn \in {None, lastTurn}
  /\ ingesting.step = "dispatch" => ingesting.seen.session.turn \in {None, lastTurn}
  /\ asked # None =>
       /\ running = None /\ thread.session.turn = None
       /\ ingestInbox = <<>> /\ ingesting = Idle
  /\ running # None =>
       /\ ~Awaited("turn.completed")
       /\ Awaited("turn.started") \/ thread.session.status = "running"
  /\ running = None =>
       /\ ~Awaited("turn.started")
       /\ thread.session.turn = None \/ Awaited("turn.completed")

(* The last turn is on its way to be captured.                             *)
ToCapture ==
  \/ running # None
  \/ reactor.step \in {"capture", "report"}
  \/ \E e \in Events(reactorInbox) :
       \/ e.type = "turn.completed"
       \/ e.type = "thread.turn-diff-completed" /\ e.status = "missing"

Open == {t \in {lastTurn} : ToCapture}

EndsWith(turns, t) == Len(turns) > 0 /\ turns[Len(turns)] = t

(* A checkpoint has the count of its turn's place in the conversation, one *)
(* a turn, and all turns are captured except those left open.              *)
Fits(turns, checkpoints, open) ==
  /\ \A k \in checkpoints : k.count \in DOMAIN turns /\ turns[k.count] = k.turn
  /\ \A j, k \in checkpoints : j.turn = k.turn => j = k
  /\ \A i \in DOMAIN turns :
       \/ \E k \in checkpoints : k.status # "missing" /\ k.turn = turns[i] /\ k.count = i
       \/ turns[i] \in open

(* The checkpoints, less those whose turns a revert has rolled back.       *)
UpTo(checkpoints, n) == {k \in checkpoints : k.count <= n}
Remaining ==
  IF reactor.step \in {"delete", "deleting"}
  THEN UpTo(thread.checkpoints, reactor.count) ELSE thread.checkpoints

Remembered ==
  /\ asked # None => lastTurn # 0
  /\ conversation \in Seq(1..lastTurn)
  /\ \A i \in DOMAIN conversation :
       conversation[i] = lastTurn => i = Len(conversation) /\ asked = None

WorkedOn == running # None \/ InFlight => EndsWith(conversation, lastTurn)

RevertWaits ==
  reactor.step \in Reverting \/ (\E e \in Events(reactorInbox) : IsRevert(e)) =>
    running = None /\ asked = None

RevertCounts ==
  reactor.step \in {"restore", "rollback"} =>
    reactor.current = Len(conversation) /\ reactor.count <= reactor.current

Matched ==
  /\ Remembered /\ WorkedOn /\ RevertWaits /\ RevertCounts
  /\ Fits(conversation, Remaining, Open)

MInv == failures \in Nat /\ (~hurried /\ failures = 0 => SessionInv /\ Matched)
-----------------------------------------------------------------------------
LEMMA NothingInEmpty == Events(<<>>) = {}
BY EmptyQueue

LEMMA RestOfQueue ==
  ASSUME NEW inbox, IsQueue(inbox), inbox # <<>>
  PROVE  Events(inbox) = Events(Tail(inbox)) \cup {Head(inbox)}
<1>1. PICK S : inbox \in Seq(S)
  BY DEF IsQueue
<1>2. PICK rest : rest = Tail(inbox)
  OBVIOUS
<1>3. /\ rest \in Seq(S) /\ Len(rest) = Len(inbox) - 1 /\ Len(inbox) \in Nat /\ Len(inbox) > 0
      /\ \A i \in 1..Len(rest) : rest[i] = inbox[i + 1]
  BY <1>1, <1>2
<1>4. DOMAIN rest = 1..Len(rest) /\ DOMAIN inbox = 1..Len(inbox) /\ Head(inbox) = inbox[1]
  BY <1>1, <1>3
<1>5. ASSUME NEW j \in DOMAIN inbox, j # 1 PROVE \E i \in DOMAIN rest : inbox[j] = rest[i]
  <2>1. j - 1 \in 1..Len(rest) /\ rest[j - 1] = inbox[j]
    BY <1>3, <1>4, <1>5
  <2> QED BY <1>4, <2>1
<1>6. Events(inbox) \subseteq Events(rest) \cup {Head(inbox)}
  BY <1>4, <1>5 DEF Events
<1>7. Events(rest) \subseteq Events(inbox) /\ Head(inbox) \in Events(inbox)
  BY <1>2, TakenQueue
<1> QED BY <1>2, <1>6, <1>7

(* The session in the projector.                                           *)
LEMMA SessionIsSet ==
  ASSUME NEW th, th.exists = TRUE, {"exists", "session"} \subseteq DOMAIN th, NEW s,
         NEW new, new = ThreadAfter(th, [type |-> "thread.session-set", arg |-> s])
  PROVE  "session" \in DOMAIN new /\ new.session = s
<1>1. new = SetSession(th, s)
  BY DEF ThreadAfter
<1> QED BY <1>1 DEF SetSession

LEMMA DiffKeepsSession ==
  ASSUME NEW th, th.exists = TRUE, {"exists", "session"} \subseteq DOMAIN th, NEW c,
         NEW new, new = ThreadAfter(th, [type |-> "thread.turn-diff-completed", arg |-> c])
  PROVE  "session" \in DOMAIN new /\ new.session = th.session
<1>1. new = CompleteTurnDiff(th, c)
  BY DEF ThreadAfter
<1> QED BY <1>1 DEF CompleteTurnDiff

LEMMA RevertKeepsSession ==
  ASSUME NEW th, th.exists = TRUE, {"exists", "session"} \subseteq DOMAIN th, NEW n,
         NEW new, new = ThreadAfter(th, [type |-> "thread.reverted", arg |-> [turnCount |-> n]])
  PROVE  "session" \in DOMAIN new /\ new.session = th.session
<1>1. new = Revert(th, n)
  BY DEF ThreadAfter
<1> QED BY <1>1 DEF Revert

-----------------------------------------------------------------------------
LEMMA SettledAwaits == Settled => \A type : ~Awaited(type)
<1> SUFFICES ASSUME Settled PROVE \A type : ~Awaited(type)
  OBVIOUS
<1>1. Events(ingestInbox) = {} /\ ingesting.step = "idle"
  BY NothingInEmpty DEF Settled, Idle
<1> QED BY <1>1 DEF Awaited

LEMMA AskTurnSession ==
  ASSUME OneRound, ~hurried, SessionInv, AskTurn PROVE SessionInv'
<1>1. /\ Settled /\ running = None /\ lastTurn' = lastTurn + 1
      /\ UNCHANGED <<thread, running, ingestInbox, ingesting>>
  BY DEF AskTurn, MayAct, ingestion
<1>2. \A type : ~Awaited(type) /\ ~Awaited(type)'
  BY <1>1, SettledAwaits DEF Awaited
<1>3. thread.session.turn = None
  BY <1>1, <1>2 DEF SessionInv
<1>4. ingestInbox = <<>> /\ ingesting = Idle /\ ingesting.step = "idle"
  BY <1>1 DEF Settled, Idle
<1> QED BY <1>1, <1>2, <1>3, <1>4 DEF SessionInv

LEMMA StartTurnSession ==
  ASSUME OneRound, ~hurried, SessionInv, StartTurn PROVE SessionInv'
<1>1. PICK e : e = Event("turn.started", asked)
  OBVIOUS
<1>2. /\ Settled /\ asked # None /\ running' = asked /\ asked' = None
      /\ ingestInbox' = Append(ingestInbox, e)
      /\ UNCHANGED <<thread, lastTurn, ingesting>>
  BY <1>1 DEF StartTurn, MayAct
<1>3. e.type = "turn.started"
  BY <1>1 DEF Event
<1>4. Events(ingestInbox') = {e}
  <2>1. ingestInbox' = Append(<<>>, e)
    BY <1>2 DEF Settled
  <2> QED BY <2>1, FirstInQueue
<1>5. ingesting'.step = "idle"
  BY <1>2 DEF Settled, Idle
<1>6. Awaited("turn.started")' /\ ~Awaited("turn.completed")'
  BY <1>3, <1>4, <1>5 DEF Awaited
<1> QED BY <1>2, <1>5, <1>6 DEF SessionInv

LEMMA EditSession ==
  ASSUME OneRound, ~hurried, SessionInv, Edit PROVE SessionInv'
<1>1. PICK e : e = Event("turn.diff.updated", running)
  OBVIOUS
<1>2. /\ Settled /\ running # None
      /\ UNCHANGED <<thread, running, asked, lastTurn, ingesting>>
      /\ ingestInbox' = Append(ingestInbox, e) \/ ingestInbox' = ingestInbox
  BY <1>1 DEF Edit, MayAct, provider
<1>3. e.type = "turn.diff.updated"
  BY <1>1 DEF Event
<1>4. Events(ingestInbox') \subseteq {e}
  <2>1. ingestInbox' = Append(<<>>, e) \/ ingestInbox' = <<>>
    BY <1>2 DEF Settled
  <2> QED BY <2>1, FirstInQueue, NothingInEmpty
<1>5. ingesting.step = "idle"
  BY <1>2 DEF Settled, Idle
<1>6. ~Awaited("turn.started")' /\ ~Awaited("turn.completed")'
  BY <1>2, <1>3, <1>4, <1>5 DEF Awaited
<1>7. thread.session.status = "running"
  BY <1>2, SettledAwaits DEF SessionInv
<1> QED BY <1>2, <1>5, <1>6, <1>7 DEF SessionInv

LEMMA EndTurnSession ==
  ASSUME OneRound, ~hurried, SessionInv, EndTurn PROVE SessionInv'
<1>1. PICK outcome : ingestInbox' =
                       ingestInbox
                         \o (IF Notices = "atEnd"
                             THEN <<Event("turn.diff.updated", running)>> ELSE <<>>)
                         \o <<Completed(running, outcome)>>
  BY DEF EndTurn
<1>2. PICK e, n : e = Completed(running, outcome) /\ n = Event("turn.diff.updated", running)
  OBVIOUS
<1>3. /\ Settled /\ running # None /\ running' = None
      /\ UNCHANGED <<thread, asked, lastTurn, ingesting>>
  BY DEF EndTurn, MayAct
<1>4. e.type = "turn.completed" /\ n.type = "turn.diff.updated"
  BY <1>2 DEF Event, Completed
<1>5. Events(ingestInbox') \subseteq {n, e} /\ e \in Events(ingestInbox')
  <2>1. PICK head : head = (IF Notices = "atEnd" THEN <<n>> ELSE <<>>)
    OBVIOUS
  <2>2. head \in Seq({n, e}) /\ ingestInbox' = <<>> \o head \o <<e>>
    <3>1. <<n>> \in Seq({n, e}) /\ <<>> \in Seq({n, e})
      OBVIOUS
    <3>2. head \in Seq({n, e})
      BY <2>1, <3>1
    <3>3. ingestInbox = <<>>
      BY <1>3 DEF Settled
    <3> QED BY Zenon, <1>1, <1>2, <2>1, <3>2, <3>3
  <2>3. PICK all : all = <<>> \o head \o <<e>>
    OBVIOUS
  <2>4. all \in Seq({n, e}) /\ all[Len(all)] = e /\ Len(all) > 0
    BY <2>2, <2>3
  <2>5. DOMAIN all = 1..Len(all) /\ (\A i \in 1..Len(all) : all[i] \in {n, e})
        /\ Len(all) \in 1..Len(all)
    BY <2>4
  <2>6. Events(all) \subseteq {n, e} /\ e \in Events(all)
    BY <2>4, <2>5 DEF Events
  <2> QED BY <2>2, <2>3, <2>6
<1>6. ingesting.step = "idle"
  BY <1>3 DEF Settled, Idle
<1>7. ~Awaited("turn.started")' /\ Awaited("turn.completed")'
  BY <1>3, <1>4, <1>5, <1>6 DEF Awaited
<1>8. asked = None
  BY <1>3 DEF SessionInv
<1> QED BY <1>3, <1>6, <1>7, <1>8 DEF SessionInv

(* Neither the session nor what the ingestion has to hear changes.         *)
LEMMA QuietSession ==
  ASSUME SessionInv, UNCHANGED <<running, asked, lastTurn, ingestInbox, ingesting>>,
         "session" \in DOMAIN thread', thread'.session = thread.session
  PROVE  SessionInv'
<1>1. \A type : Awaited(type)' <=> Awaited(type)
  BY DEF Awaited
<1> QED BY <1>1 DEF SessionInv

LEMMA IngestTakeSession ==
  ASSUME OneRound, SessionInv, IngestTake PROVE SessionInv'
<1>1. /\ ingesting = Idle /\ ingestInbox # <<>> /\ ingestInbox' = Tail(ingestInbox)
      /\ UNCHANGED <<thread, running, asked, lastTurn>>
  BY DEF IngestTake, provider
<1>2. PICK h : h = [step |-> "dispatch", event |-> Head(ingestInbox), seen |-> thread]
  OBVIOUS
<1>3. /\ ingesting' = h /\ h.step = "dispatch" /\ h.event = Head(ingestInbox)
      /\ h.seen = thread /\ ingesting.step = "idle"
  BY <1>1, <1>2 DEF IngestTake, Idle
<1>4. Events(ingestInbox) = Events(ingestInbox') \cup {h.event}
  BY <1>1, <1>3, RestOfQueue DEF OneRound
<1>5. \A type : Awaited(type)' <=> Awaited(type)
  BY <1>3, <1>4 DEF Awaited
<1> QED BY <1>1, <1>3, <1>5 DEF SessionInv

(* No event of another turn conflicts.                                     *)
LEMMA NeverConflicts ==
  ASSUME OneRound, SessionInv, ingesting.step = "dispatch" PROVE ~Conflicts
BY DEF OneRound, SessionInv, Conflicts

LEMMA IngestDispatchSession ==
  ASSUME IInv, OneRound, SessionInv, IngestDispatch PROVE SessionInv'
<1>1. /\ ingesting.step = "dispatch" /\ ingesting' = Idle /\ ingesting'.step = "idle"
      /\ UNCHANGED <<running, asked, lastTurn, ingestInbox>>
  BY DEF IngestDispatch, provider, Idle
<1>2. PICK e : e = ingesting.event
  OBVIOUS
<1>3. /\ e.turn = lastTurn /\ asked = None
      /\ thread.exists = TRUE /\ {"exists", "session"} \subseteq DOMAIN thread
  BY <1>1, <1>2 DEF OneRound, SessionInv, IInv, ThreadShape, Idle
<1>4. /\ \A type : Awaited(type)' => Awaited(type)
      /\ \A type : Awaited(type) => Awaited(type)' \/ e.type = type
  BY <1>1, <1>2 DEF Awaited
<1>5. ASSUME NEW s, NEW status, NEW turn, s = [status |-> status, turn |-> turn],
             thread' = ThreadAfter(thread, [type |-> "thread.session-set", arg |-> s])
      PROVE  /\ "session" \in DOMAIN thread'
             /\ thread'.session.status = status /\ thread'.session.turn = turn
  <2>1. PICK th, new : th = thread /\ new = thread'
    OBVIOUS
  <2>2. /\ th.exists = TRUE /\ {"exists", "session"} \subseteq DOMAIN th
        /\ new = ThreadAfter(th, [type |-> "thread.session-set", arg |-> s])
    BY Zenon, <1>3, <1>5, <2>1
  <2>3. "session" \in DOMAIN new /\ new.session = s
    BY Zenon, <2>2, SessionIsSet
  <2> QED BY <1>5, <2>1, <2>3
<1>6. CASE e.type = "turn.started"
  <2>1. SetSessionTo("running", e.turn)
    BY <1>2, <1>6 DEF IngestDispatch
  <2>2. /\ "session" \in DOMAIN thread'
        /\ thread'.session.status = "running" /\ thread'.session.turn = lastTurn
    BY <1>3, <1>5, <2>1 DEF SetSessionTo
  <2>3. Awaited("turn.started")
    BY <1>1, <1>2, <1>6 DEF Awaited
  <2>4. running # None
    BY <2>3 DEF SessionInv
  <2> QED BY <1>1, <1>3, <1>4, <2>2, <2>4 DEF SessionInv
<1>7. CASE e.type = "turn.completed"
  <2>1. SetSessionTo(IF e.outcome = "failed" THEN "error" ELSE "ready", None)
    BY <1>2, <1>7 DEF IngestDispatch
  <2>2. PICK status : SetSessionTo(status, None)
    BY <2>1
  <2>3. "session" \in DOMAIN thread' /\ thread'.session.turn = None
    BY <1>5, <2>2 DEF SetSessionTo
  <2>4. Awaited("turn.completed")
    BY <1>1, <1>2, <1>7 DEF Awaited
  <2>5. running = None
    BY <2>4 DEF SessionInv
  <2> QED BY <1>1, <1>3, <1>4, <2>3, <2>5 DEF SessionInv
<1>8. CASE e.type = "turn.diff.updated"
  <2>1. PICK c : CompleteDiff(c)
    BY <1>2, <1>8 DEF IngestDispatch
  <2>2. thread' = ThreadAfter(thread, [type |-> "thread.turn-diff-completed", arg |-> c])
    BY <2>1 DEF CompleteDiff
  <2>3. "session" \in DOMAIN thread' /\ thread'.session = thread.session
    BY <1>3, <2>2, DiffKeepsSession
  <2>4. /\ Awaited("turn.started")' <=> Awaited("turn.started")
        /\ Awaited("turn.completed")' <=> Awaited("turn.completed")
    BY <1>4, <1>8
  <2> QED BY <1>1, <1>3, <2>3, <2>4 DEF SessionInv
<1> QED BY <1>2, <1>6, <1>7, <1>8 DEF IngestDispatch

LEMMA IngestIgnoreSession ==
  ASSUME OneRound, SessionInv, IngestIgnore PROVE SessionInv'
<1>1. /\ ingesting.step = "dispatch" /\ ingesting' = Idle /\ ingesting'.step = "idle"
      /\ UNCHANGED <<thread, running, asked, lastTurn, ingestInbox>>
  BY DEF IngestIgnore, provider, Idle
<1>2. ingesting.event.type = "turn.diff.updated"
  BY <1>1, NeverConflicts DEF IngestIgnore
<1>3. /\ Awaited("turn.started")' <=> Awaited("turn.started")
      /\ Awaited("turn.completed")' <=> Awaited("turn.completed")
  BY <1>1, <1>2 DEF Awaited
<1> QED BY <1>1, <1>3 DEF SessionInv

LEMMA ReactorSession ==
  ASSUME IInv, SessionInv,
         \/ AskRevert \/ TakeTurnStart \/ TakeCompletion \/ TakePlaceholder \/ TakeRevert
         \/ CaptureBaseline \/ CaptureTurn \/ ReportCapture \/ RestoreFiles
         \/ RollBackConversation \/ DeleteRef \/ CompleteRevert \/ UNCHANGED vars
  PROVE  SessionInv'
<1>1. UNCHANGED <<running, asked, lastTurn, ingestInbox, ingesting>>
  BY DEF AskRevert, TakeTurnStart, TakeCompletion, TakePlaceholder, TakeRevert, Take,
         CaptureBaseline, CaptureTurn, ReportCapture, RestoreFiles, RollBackConversation,
         DeleteRef, CompleteRevert, vars, provider, ingestion
<1>2. thread.exists = TRUE /\ {"exists", "session"} \subseteq DOMAIN thread
  BY DEF IInv, ThreadShape, SessionInv
<1>3. CASE UNCHANGED thread
  BY <1>1, <1>3, QuietSession DEF SessionInv
<1>4. CASE ReportCapture
  <2>1. PICK c : CompleteDiff(c)
    BY <1>4 DEF ReportCapture
  <2>2. thread' = ThreadAfter(thread, [type |-> "thread.turn-diff-completed", arg |-> c])
    BY <2>1 DEF CompleteDiff
  <2>3. "session" \in DOMAIN thread' /\ thread'.session = thread.session
    BY <1>2, <2>2, DiffKeepsSession
  <2> QED BY <1>1, <2>3, QuietSession
<1>5. CASE CompleteRevert
  <2>1. PICK n : thread' = ThreadAfter(thread, [type |-> "thread.reverted",
                                                arg |-> [turnCount |-> n]])
    BY <1>5 DEF CompleteRevert
  <2>2. "session" \in DOMAIN thread' /\ thread'.session = thread.session
    BY <1>2, <2>1, RevertKeepsSession
  <2> QED BY <1>1, <2>2, QuietSession
<1>6. CASE \/ AskRevert \/ TakeTurnStart \/ TakeCompletion \/ TakePlaceholder \/ TakeRevert
           \/ CaptureBaseline \/ CaptureTurn \/ RestoreFiles
           \/ RollBackConversation \/ DeleteRef \/ UNCHANGED vars
  BY <1>3, <1>6, TakeKeeps, CaptureTurnKeeps, RevertKeeps, OthersBeside
<1> QED BY SMTT(30), <1>4, <1>5, <1>6

-----------------------------------------------------------------------------
(* A conversation and the checkpoints of its turns.                        *)

(* The next turn is the one after all that are captured.                   *)
LEMMA NextIsLast ==
  ASSUME NEW S, NEW turns \in Seq(S), NEW checkpoints, NEW t \in Nat,
         CountedInTurn(checkpoints, t), Fits(turns, checkpoints, {t}), EndsWith(turns, t),
         \A i \in DOMAIN turns : turns[i] = t => i = Len(turns)
  PROVE  NextCount(checkpoints, t) = Len(turns)
<1>1. PICK n \in Nat : n = Len(turns) /\ n > 0 /\ turns[n] = t /\ DOMAIN turns = 1..n
  BY DEF EndsWith
<1>2. PICK others : others = OthersOf(checkpoints, t)
  OBVIOUS
<1>3. Counted(others) /\ \A k \in others : k \in checkpoints /\ k.turn # t
  BY <1>2, CountedSubset DEF OthersOf, CountedInTurn
<1>4. \A k \in others : k.count \in 1..n - 1
  BY <1>1, <1>3 DEF Fits
<1>5. PICK highest \in Nat : /\ highest = Highest(others)
                             /\ \A k \in others : k.count <= highest
                             /\ highest = 0 \/ \E k \in others : k.count = highest
  BY <1>3, HighestCount
<1>6. highest <= n - 1
  BY <1>1, <1>4, <1>5
<1>7. n - 1 <= highest
  <2>1. CASE n = 1
    BY <1>5, <2>1
  <2>2. CASE n # 1
    <3>1. n - 1 \in 1..n /\ n - 1 # n
      BY <1>1, <2>2
    <3>2. turns[n - 1] # t
      BY <1>1, <3>1
    <3>3. PICK k \in checkpoints : k.turn = turns[n - 1] /\ k.count = n - 1
      BY <1>1, <3>1, <3>2 DEF Fits
    <3>4. k \in others
      BY <1>2, <3>2, <3>3 DEF OthersOf
    <3> QED BY <1>5, <3>3, <3>4
  <2> QED BY <2>1, <2>2
<1> QED BY <1>1, <1>2, <1>5, <1>6, <1>7 DEF NextCount

(* A new turn is open.                                                     *)
LEMMA NewTurnFits ==
  ASSUME NEW S, NEW turns \in Seq(S), NEW checkpoints, NEW t, t \in S, Fits(turns, checkpoints, {}),
         NEW longer, longer = Append(turns, t)
  PROVE  Fits(longer, checkpoints, {t}) /\ EndsWith(longer, t)
<1>1. PICK n \in Nat : n = Len(turns) /\ DOMAIN turns = 1..n
  OBVIOUS
<1>2. /\ longer \in Seq(S) /\ Len(longer) = n + 1 /\ longer[n + 1] = t
      /\ DOMAIN longer = 1..n + 1 /\ \A i \in 1..n : longer[i] = turns[i]
  BY <1>1
<1>3. \A k \in checkpoints : k.count \in DOMAIN longer /\ longer[k.count] = k.turn
  BY <1>1, <1>2 DEF Fits
<1>4. \A i \in DOMAIN longer :
        \/ \E k \in checkpoints : k.status # "missing" /\ k.turn = longer[i] /\ k.count = i
        \/ longer[i] \in {t}
  BY <1>1, <1>2 DEF Fits
<1>5. \A j, k \in checkpoints : j.turn = k.turn => j = k
  BY DEF Fits
<1> QED BY <1>1, <1>2, <1>3, <1>4, <1>5 DEF Fits, EndsWith

(* The checkpoint of the last turn, under the count of its place; when it  *)
(* is not missing the turn need not stay open.                             *)
LEMMA ReplacedFits ==
  ASSUME NEW S, NEW turns \in Seq(S), NEW checkpoints, NEW t, NEW open, NEW rest, NEW c,
         Fits(turns, checkpoints, open), EndsWith(turns, t), open \subseteq {t},
         c.turn = t, c.count = Len(turns), rest = {t} \/ c.status # "missing",
         \A i \in DOMAIN turns : turns[i] = t => i = Len(turns)
  PROVE  Fits(turns, Replaced(checkpoints, c), rest)
<1>1. PICK n \in Nat : n = Len(turns) /\ n > 0 /\ turns[n] = t /\ DOMAIN turns = 1..n
  BY DEF EndsWith
<1>2. /\ c \in Replaced(checkpoints, c)
      /\ \A k \in Replaced(checkpoints, c) : k = c \/ (k \in checkpoints /\ k.turn # t)
      /\ \A k \in checkpoints : k.turn # t => k \in Replaced(checkpoints, c)
  BY DEF Replaced
<1>3. \A k \in Replaced(checkpoints, c) : k.count \in DOMAIN turns /\ turns[k.count] = k.turn
  BY <1>1, <1>2 DEF Fits
<1>4. \A j, k \in Replaced(checkpoints, c) : j.turn = k.turn => j = k
  BY <1>2 DEF Fits
<1>5. ASSUME NEW i \in DOMAIN turns
      PROVE  \/ \E k \in Replaced(checkpoints, c) :
                  k.status # "missing" /\ k.turn = turns[i] /\ k.count = i
             \/ turns[i] \in rest
  <2>1. CASE turns[i] = t
    BY <1>1, <1>2, <1>5, <2>1
  <2>2. CASE turns[i] # t
    BY <1>2, <1>5, <2>2 DEF Fits
  <2> QED BY <2>1, <2>2
<1> QED BY <1>3, <1>4, <1>5 DEF Fits

(* A turn that is captured need not be open.                               *)
LEMMA CapturedFits ==
  ASSUME NEW turns, NEW checkpoints, NEW t, NEW open, Fits(turns, checkpoints, open),
         open \subseteq {t}, IsCaptured(checkpoints, t),
         \A i \in DOMAIN turns : turns[i] = t => i = Len(turns)
  PROVE  Fits(turns, checkpoints, {})
<1>1. PICK k \in checkpoints : k.turn = t /\ k.status # "missing"
  BY DEF IsCaptured
<1>2. k.count \in DOMAIN turns /\ turns[k.count] = t
  BY <1>1 DEF Fits
<1>3. \A i \in DOMAIN turns : turns[i] = t => i = k.count
  BY <1>2
<1> QED BY <1>1, <1>3 DEF Fits

LEMMA MoreOpen ==
  ASSUME NEW turns, NEW checkpoints, NEW open, NEW more, open \subseteq more,
         Fits(turns, checkpoints, open)
  PROVE  Fits(turns, checkpoints, more)
BY DEF Fits

(* A revert rolls back as many turns as it discards checkpoints.           *)
LEMMA CutFits ==
  ASSUME NEW S, NEW turns \in Seq(S), NEW checkpoints, NEW n \in Nat, n <= Len(turns),
         Fits(turns, checkpoints, {}), NEW shorter, shorter = SubSeq(turns, 1, n),
         NEW cut, cut = UpTo(checkpoints, n)
  PROVE  Fits(shorter, cut, {})
<1>1. PICK len \in Nat : len = Len(turns) /\ DOMAIN turns = 1..len /\ n <= len
  OBVIOUS
<1>2. /\ shorter \in Seq(S) /\ Len(shorter) = n /\ DOMAIN shorter = 1..n
      /\ \A i \in 1..n : shorter[i] = turns[i] /\ i \in 1..len
  BY <1>1
<1>3. \A k \in cut : k.count \in DOMAIN shorter /\ shorter[k.count] = k.turn
  BY <1>1, <1>2 DEF Fits, UpTo
<1>4. \A j, k \in cut : j.turn = k.turn => j = k
  BY DEF Fits, UpTo
<1>5. \A i \in DOMAIN shorter :
        \E k \in cut : k.status # "missing" /\ k.turn = shorter[i] /\ k.count = i
  BY <1>1, <1>2 DEF Fits, UpTo
<1> QED BY <1>1, <1>2, <1>3, <1>4, <1>5 DEF Fits, UpTo

(* When all turns are captured, there are as many checkpoints as turns.    *)
LEMMA HighestIsLength ==
  ASSUME NEW S, NEW turns \in Seq(S), NEW checkpoints, Counted(checkpoints),
         Fits(turns, checkpoints, {})
  PROVE  Highest(checkpoints) = Len(turns)
<1>1. PICK n \in Nat : n = Len(turns) /\ DOMAIN turns = 1..n
  OBVIOUS
<1>2. PICK highest \in Nat : /\ highest = Highest(checkpoints)
                             /\ \A k \in checkpoints : k.count <= highest
                             /\ highest = 0 \/ \E k \in checkpoints : k.count = highest
  BY HighestCount
<1>3. highest <= n
  BY <1>1, <1>2 DEF Fits
<1>4. n <= highest
  <2>1. CASE n # 0
    <3>1. n \in DOMAIN turns
      BY <1>1, <2>1
    <3> QED BY <1>2, <3>1 DEF Fits
  <2> QED BY <1>2, <2>1
<1> QED BY <1>1, <1>2, <1>3, <1>4

LEMMA OneCheckpointEach ==
  ASSUME NEW S, NEW turns \in Seq(S), NEW checkpoints, Fits(turns, checkpoints, {})
  PROVE  Len(turns) = Cardinality(checkpoints)
<1>1. PICK n \in Nat : n = Len(turns) /\ DOMAIN turns = 1..n
  OBVIOUS
<1> DEFINE at(i) == CHOOSE k \in checkpoints : k.count = i
           f == [i \in 1..n |-> at(i)]
<1>2. \A i \in 1..n : at(i) \in checkpoints /\ at(i).count = i
  BY <1>1 DEF Fits
<1>3. \A k \in checkpoints : k.count \in 1..n /\ at(k.count) = k
  <2>1. SUFFICES ASSUME NEW k \in checkpoints PROVE k.count \in 1..n /\ at(k.count) = k
    OBVIOUS
  <2>2. k.count \in 1..n /\ turns[k.count] = k.turn
    BY <1>1 DEF Fits
  <2>3. PICK j : j = at(k.count)
    OBVIOUS
  <2>4. j \in checkpoints /\ j.count = k.count
    BY <1>2, <2>2, <2>3
  <2>5. j.turn = k.turn
    BY <2>2, <2>4 DEF Fits
  <2>6. j = k
    BY <2>4, <2>5 DEF Fits
  <2> QED BY <2>2, <2>3, <2>6
<1> HIDE DEF at
<1>4. f \in Bijection(1..n, checkpoints)
  <2>1. f \in [1..n -> checkpoints] /\ \A i \in 1..n : f[i] = at(i)
    BY <1>2
  <2>2. \A i, j \in 1..n : f[i] = f[j] => i = j
    BY <1>2, <2>1
  <2>3. \A k \in checkpoints : \E i \in 1..n : f[i] = k
    BY <1>3, <2>1
  <2> HIDE DEF f
  <2> QED BY <2>1, <2>2, <2>3 DEF Bijection, Injection, Surjection, IsInjective
<1>5. ExistsBijection(1..n, checkpoints)
  BY <1>4 DEF ExistsBijection
<1> QED BY <1>1, <1>5, FS_CountingElements

-----------------------------------------------------------------------------
LEMMA QuietIsClosed ==
  ASSUME Settled, running = None
  PROVE  ~InFlight /\ Open = {} /\ reactor.step = "idle" /\ Remaining = thread.checkpoints
<1>1. Events(reactorInbox) = {} /\ reactor.step = "idle"
  BY NothingInEmpty DEF Settled, Idle
<1>2. ~InFlight
  BY SettledIsQuiet
<1> QED BY <1>1, <1>2 DEF Open, ToCapture, Remaining

LEMMA AskTurnMatches ==
  ASSUME OneRound, ~hurried, Matched, AskTurn PROVE Matched'
<1>1. PICK e : e = Event("thread.turn-start-requested", lastTurn')
  OBVIOUS
<1>2. /\ Settled /\ running = None /\ running' = None /\ lastTurn' = lastTurn + 1
      /\ asked' = lastTurn' /\ reactorInbox' = Append(reactorInbox, e)
      /\ UNCHANGED <<thread, conversation, ingestInbox, ingesting, reactor>>
  BY <1>1 DEF AskTurn, MayAct, ingestion
<1>3. Events(reactorInbox') = {e} /\ e.type = "thread.turn-start-requested"
  <2>1. reactorInbox' = Append(<<>>, e)
    BY <1>2 DEF Settled
  <2> QED BY <1>1, <2>1, FirstInQueue DEF Event
<1>4. /\ Open = {} /\ Remaining = thread.checkpoints /\ ~InFlight
      /\ reactor.step = "idle" /\ reactor'.step = "idle"
  BY <1>2, QuietIsClosed
<1>5. ~InFlight' /\ Open' = {} /\ Remaining' = thread.checkpoints
  BY <1>2, <1>3, <1>4 DEF InFlight, Open, ToCapture, Remaining
<1>6. Remembered'
  <2>1. PICK t \in Nat : t = lastTurn
    BY DEF OneRound
  <2>2. PICK turns : turns = conversation
    OBVIOUS
  <2>3. turns \in Seq(1..t)
    BY <2>1, <2>2 DEF Matched, Remembered
  <2>4. turns \in Seq(1..t + 1) /\ \A i \in DOMAIN turns : turns[i] # t + 1
    BY <2>3
  <2>5. lastTurn' # 0
    BY <1>2, <2>1
  <2> QED BY <1>2, <2>1, <2>2, <2>4, <2>5 DEF Remembered
<1>7. Fits(conversation, thread.checkpoints, {})
  BY <1>4 DEF Matched
<1>8. WorkedOn' /\ RevertWaits' /\ RevertCounts'
  BY <1>2, <1>3, <1>4, <1>5 DEF WorkedOn, RevertWaits, RevertCounts, Reverting, IsRevert
<1> QED BY <1>2, <1>5, <1>6, <1>7, <1>8 DEF Matched

LEMMA StartTurnMatches ==
  ASSUME OneRound, ~hurried, SessionInv, Matched, StartTurn PROVE Matched'
<1>1. PICK e : e = Event("turn.started", asked)
  OBVIOUS
<1>2. /\ Settled /\ asked # None /\ running' = asked /\ asked' = None
      /\ conversation' = Append(conversation, asked)
      /\ reactorInbox' = Append(reactorInbox, e)
      /\ UNCHANGED <<thread, lastTurn, reactor>>
  BY <1>1 DEF StartTurn, MayAct
<1>3. Events(reactorInbox') = {e} /\ e.type = "turn.started"
  <2>1. reactorInbox' = Append(<<>>, e)
    BY <1>2 DEF Settled
  <2> QED BY <1>1, <2>1, FirstInQueue DEF Event
<1>4. running = None /\ asked = lastTurn /\ lastTurn \in Nat
  BY <1>2 DEF SessionInv, OneRound
<1>5. Open = {} /\ Remaining = thread.checkpoints /\ reactor.step = "idle"
  BY <1>2, <1>4, QuietIsClosed
<1>6. Open' = {lastTurn} /\ Remaining' = thread.checkpoints /\ reactor'.step = "idle"
  BY <1>2, <1>5 DEF Open, ToCapture, Remaining
<1>7. PICK turns, longer, t : turns = conversation /\ longer = conversation' /\ t = lastTurn
  OBVIOUS
<1>8. /\ turns \in Seq(1..t) /\ \A i \in DOMAIN turns : turns[i] # t
      /\ longer = Append(turns, t) /\ Fits(turns, thread.checkpoints, {})
  BY <1>2, <1>4, <1>5, <1>7 DEF Matched, Remembered
<1>9. t \in 1..t
  <2>1. lastTurn # 0
    BY <1>2 DEF Matched, Remembered
  <2> QED BY <1>4, <1>7, <2>1
<1>10. Fits(longer, thread.checkpoints, {t}) /\ EndsWith(longer, t)
  BY <1>8, <1>9, NewTurnFits
<1>11. longer \in Seq(1..t) /\ \A i \in DOMAIN longer : longer[i] = t => i = Len(longer)
  BY <1>8, <1>9
<1>12. Remembered'
  BY <1>2, <1>7, <1>11 DEF Remembered
<1>13. WorkedOn' /\ RevertWaits' /\ RevertCounts'
  BY <1>2, <1>3, <1>6, <1>7, <1>10 DEF WorkedOn, RevertWaits, RevertCounts, Reverting, IsRevert
<1> QED BY <1>6, <1>7, <1>10, <1>12, <1>13 DEF Matched

(* A step that changes neither the conversation nor a checkpoint, and      *)
(* gives up on no turn.                                                    *)
LEMMA SameConversation ==
  ASSUME Matched, UNCHANGED <<conversation, lastTurn, asked>>,
         thread'.checkpoints = thread.checkpoints,
         reactor.step \notin {"delete", "deleting"}, reactor'.step \notin {"delete", "deleting"},
         running' # None \/ InFlight' => running # None \/ InFlight,
         ToCapture => ToCapture' \/ IsCaptured(thread.checkpoints, lastTurn),
         RevertWaits', RevertCounts'
  PROVE  Matched'
<1>1. Remaining = thread.checkpoints /\ Remaining' = thread.checkpoints
  BY DEF Remaining
<1>2. PICK turns, checkpoints, t, open, rest :
        /\ turns = conversation /\ checkpoints = thread.checkpoints /\ t = lastTurn
        /\ open = Open /\ rest = Open'
  OBVIOUS
<1>3. /\ Fits(turns, checkpoints, open) /\ open \subseteq {t}
      /\ \A i \in DOMAIN turns : turns[i] = t => i = Len(turns)
  BY <1>1, <1>2 DEF Matched, Remembered, Open
<1>4. open \subseteq rest \/ IsCaptured(checkpoints, t)
  BY <1>2 DEF Open
<1>5. Fits(turns, checkpoints, rest)
  <2>1. CASE open \subseteq rest
    BY <1>3, <2>1, MoreOpen
  <2>2. CASE IsCaptured(checkpoints, t)
    <3>1. Fits(turns, checkpoints, {}) /\ {} \subseteq rest
      BY <1>3, <2>2, CapturedFits
    <3> QED BY <3>1, MoreOpen
  <2> QED BY <1>4, <2>1, <2>2
<1>6. Remembered' /\ WorkedOn'
  BY DEF Matched, Remembered, WorkedOn
<1> QED BY <1>1, <1>2, <1>5, <1>6 DEF Matched

LEMMA EditMatches ==
  ASSUME ~hurried, Matched, Edit PROVE Matched'
<1>1. /\ Settled /\ running # None
      /\ UNCHANGED <<thread, running, conversation, asked, lastTurn, reactorInbox, reactor>>
  BY DEF Edit, MayAct, provider
<1>2. reactor.step = "idle"
  BY <1>1 DEF Settled, Idle
<1>3. ToCapture' /\ RevertWaits' /\ RevertCounts'
  BY <1>1, <1>2 DEF ToCapture, Matched, RevertWaits, RevertCounts
<1> QED BY <1>1, <1>2, <1>3, SameConversation

LEMMA EndTurnMatches ==
  ASSUME ~hurried, SessionInv, Matched, EndTurn PROVE Matched'
<1>1. PICK outcome : reactorInbox' = Append(reactorInbox, Completed(running, outcome))
  BY DEF EndTurn
<1>2. PICK e : e = Completed(running, outcome)
  OBVIOUS
<1>3. /\ Settled /\ running # None /\ running' = None /\ asked = None
      /\ UNCHANGED <<thread, conversation, asked, lastTurn, reactor>>
  BY DEF EndTurn, MayAct, SessionInv
<1>4. reactor.step = "idle"
  BY <1>3 DEF Settled, Idle
<1>5. Events(reactorInbox') = {e} /\ e.type = "turn.completed"
  <2>1. reactorInbox' = Append(<<>>, e)
    BY <1>1, <1>2, <1>3 DEF Settled
  <2> QED BY <1>2, <2>1, FirstInQueue DEF Completed
<1>6. ToCapture' /\ RevertWaits' /\ RevertCounts'
  BY <1>3, <1>4, <1>5 DEF ToCapture, RevertWaits, RevertCounts
<1> QED BY <1>3, <1>4, <1>6, SameConversation

(* A revert can be asked for only when all turns are captured.             *)
LEMMA AskRevertMatches ==
  ASSUME SessionInv, Matched, AskRevert PROVE Matched'
<1>1. /\ Settled /\ thread.session.status # "running" /\ asked = None
      /\ UNCHANGED <<thread, running, conversation, asked, lastTurn, ingestInbox, ingesting,
                     reactor>>
      /\ \E n : reactorInbox' = Append(reactorInbox,
                                  [type |-> "thread.checkpoint-revert-requested", count |-> n])
  BY DEF AskRevert, provider, ingestion
<1>2. PICK e : /\ reactorInbox' = Append(reactorInbox, e)
               /\ e.type = "thread.checkpoint-revert-requested"
  BY <1>1
<1>3. running = None
  BY <1>1, SettledAwaits DEF SessionInv
<1>4. reactor.step = "idle" /\ ~InFlight /\ Open = {}
  BY <1>1, <1>3, QuietIsClosed
<1>5. Events(reactorInbox') = {e}
  <2>1. reactorInbox' = Append(<<>>, e)
    BY <1>1, <1>2 DEF Settled
  <2> QED BY <2>1, FirstInQueue
<1>6. ~InFlight' /\ ~ToCapture
  BY <1>1, <1>2, <1>4, <1>5 DEF InFlight, Open
<1>7. RevertWaits' /\ RevertCounts'
  BY <1>1, <1>3, <1>4 DEF RevertWaits, RevertCounts
<1> QED BY <1>1, <1>3, <1>4, <1>6, <1>7, SameConversation

(* The ingestion changes nothing that the reactor goes by.                 *)
LEMMA IngestsMatch ==
  ASSUME OneRound, Matched, IngestTake \/ IngestIgnore PROVE Matched'
<1>1. /\ UNCHANGED <<thread, running, conversation, asked, lastTurn, reactorInbox, reactor>>
      /\ reactor.step \notin Reverting
  <2>1. ingestInbox # <<>> \/ ingesting # Idle
    BY DEF IngestTake, IngestIgnore, Idle
  <2> QED BY <2>1 DEF IngestTake, IngestIgnore, provider, OneRound, RevertAlone
<1>2. InFlight' => InFlight
  <2>1. CASE IngestTake
    <3>1. PICK h : h = [step |-> "dispatch", event |-> Head(ingestInbox), seen |-> thread]
      OBVIOUS
    <3>2. /\ ingestInbox # <<>> /\ ingestInbox' = Tail(ingestInbox)
          /\ ingesting' = h /\ h.event = Head(ingestInbox)
      BY <2>1, <3>1 DEF IngestTake
    <3>3. Events(ingestInbox) = Events(ingestInbox') \cup {h.event}
      BY <3>2, RestOfQueue DEF OneRound
    <3> QED BY <1>1, <3>2, <3>3 DEF InFlight
  <2>2. CASE IngestIgnore
    <3>1. ingesting' = Idle /\ ingesting'.step = "idle" /\ UNCHANGED ingestInbox
      BY <2>2 DEF IngestIgnore, Idle
    <3> QED BY <1>1, <3>1 DEF InFlight
  <2> QED BY <2>1, <2>2
<1>3. ToCapture' <=> ToCapture
  BY <1>1 DEF ToCapture
<1>4. RevertWaits' /\ RevertCounts'
  BY <1>1 DEF Matched, RevertWaits, RevertCounts
<1> QED BY <1>1, <1>2, <1>3, <1>4, SameConversation DEF Reverting

(* A checkpoint of the last turn is projected while the turn is worked on. *)
LEMMA CompleteDiffMatches ==
  ASSUME IInv, OneRound, Matched, NEW c, CompleteDiff(c), InFlight, reactor.step \notin Reverting,
         c.turn = lastTurn, c.count = NextCount(thread.checkpoints, lastTurn),
         UNCHANGED <<running, conversation, asked, lastTurn>>, reactor' \in {reactor, Idle}
  PROVE  Matched'
<1>1. PICK e : e = [type |-> "thread.turn-diff-completed", turn |-> c.turn, count |-> c.count,
                    status |-> c.status]
  OBVIOUS
<1>2. /\ e.type = "thread.turn-diff-completed" /\ e.status = c.status
      /\ Events(reactorInbox') = Events(reactorInbox) \cup {e}
  <2>1. reactorInbox' = Append(reactorInbox, e)
    BY <1>1 DEF CompleteDiff
  <2> QED BY <1>1, <2>1, AppendedQueue DEF OneRound
<1>3. reactor'.step \notin Reverting
  BY DEF Idle, Reverting
<1>4. Remaining = thread.checkpoints /\ Remaining' = thread'.checkpoints
  BY <1>3 DEF Remaining, Reverting
<1>5. PICK turns, old, new, t, open, rest :
        /\ turns = conversation /\ old = thread.checkpoints /\ new = thread'.checkpoints
        /\ t = lastTurn /\ open = Open /\ rest = Open'
  OBVIOUS
<1>6. /\ turns \in Seq(1..t) /\ t \in Nat /\ CountedInTurn(old, t)
      /\ Fits(turns, old, open) /\ open \subseteq {t} /\ EndsWith(turns, t)
      /\ \A i \in DOMAIN turns : turns[i] = t => i = Len(turns)
  BY <1>4, <1>5 DEF Matched, Remembered, WorkedOn, Open, OneRound
<1>7. c.turn = t /\ c.count = Len(turns)
  <2>1. Fits(turns, old, {t})
    BY <1>6, MoreOpen
  <2>2. NextCount(old, t) = Len(turns)
    BY <1>6, <2>1, NextIsLast
  <2> QED BY <1>5, <2>2
<1>8. c.status = "missing" => rest = {t}
  BY <1>2, <1>5 DEF Open, ToCapture
<1>9. \/ new = old /\ IsCaptured(old, t)
      \/ new = Replaced(old, c)
  <2>1. thread' = ThreadAfter(thread, [type |-> "thread.turn-diff-completed", arg |-> c])
    BY DEF CompleteDiff
  <2>2. thread.exists = TRUE /\ {"exists", "checkpoints"} \subseteq DOMAIN thread
    BY DEF IInv, ThreadShape
  <2>3. \/ /\ thread'.checkpoints = thread.checkpoints
           /\ IsCaptured(thread.checkpoints, c.turn)
        \/ thread'.checkpoints = Replaced(thread.checkpoints, c)
    BY <2>1, <2>2, DiffCompletes
  <2> QED BY <1>5, <1>7, <2>3
<1>10. Fits(turns, new, rest)
  <2>1. CASE new = old /\ IsCaptured(old, t)
    <3>1. Fits(turns, old, {}) /\ {} \subseteq rest
      BY <1>6, <2>1, CapturedFits
    <3> QED BY <2>1, <3>1, MoreOpen
  <2>2. CASE new = Replaced(old, c) /\ c.status = "missing"
    BY <1>6, <1>7, <1>8, <2>2, ReplacedFits
  <2>3. CASE new = Replaced(old, c) /\ c.status # "missing"
    <3>1. Fits(turns, new, {}) /\ {} \subseteq rest
      BY <1>6, <1>7, <2>3, ReplacedFits
    <3> QED BY <3>1, MoreOpen
  <2> QED BY <1>9, <2>1, <2>2, <2>3
<1>11. Remembered' /\ WorkedOn'
  BY <1>5, <1>6 DEF Matched, Remembered, WorkedOn
<1>12. RevertWaits' /\ RevertCounts'
  BY <1>2, <1>3 DEF Matched, RevertWaits, RevertCounts, IsRevert, Reverting
<1> QED BY <1>4, <1>5, <1>10, <1>11, <1>12 DEF Matched

LEMMA IngestDispatchMatches ==
  ASSUME IInv, OneRound, Matched, IngestDispatch PROVE Matched'
<1>1. /\ ingesting.step = "dispatch" /\ ingesting' = Idle /\ ingesting'.step = "idle"
      /\ UNCHANGED <<running, conversation, asked, lastTurn, ingestInbox, reactor>>
  BY DEF IngestDispatch, provider, Idle
<1>2. reactor.step \notin Reverting
  BY <1>1 DEF OneRound, RevertAlone, Idle
<1>3. CASE \E s, turn : SetSessionTo(s, turn)
  <2>1. PICK s : thread' = ThreadAfter(thread, [type |-> "thread.session-set", arg |-> s])
    BY <1>3 DEF SetSessionTo
  <2>2. thread.exists = TRUE /\ {"exists", "checkpoints"} \subseteq DOMAIN thread
    BY DEF IInv, ThreadShape
  <2>3. thread'.checkpoints = thread.checkpoints
    BY <2>1, <2>2, SessionSetKeeps
  <2>4. UNCHANGED reactorInbox
    BY <1>3 DEF SetSessionTo
  <2>5. (InFlight' => InFlight) /\ (ToCapture' <=> ToCapture)
    BY <1>1, <2>4 DEF InFlight, ToCapture
  <2>6. RevertWaits' /\ RevertCounts'
    BY <1>1, <2>4 DEF Matched, RevertWaits, RevertCounts
  <2> QED BY <1>1, <1>2, <2>3, <2>5, <2>6, SameConversation DEF Reverting
<1>4. ASSUME ingesting.event.type = "turn.diff.updated", ~Tracked,
             CompleteDiff(Checkpoint(ingesting.event.turn, PlaceholderCount, "missing", None))
      PROVE  Matched'
  <2>1. /\ ingesting.event.turn = lastTurn
        /\ PlaceholderCount = NextCount(thread.checkpoints, lastTurn)
    BY <1>1, <1>4, PlaceholderIsNext
  <2>2. PICK c : c = Checkpoint(ingesting.event.turn, PlaceholderCount, "missing", None)
    OBVIOUS
  <2>3. /\ CompleteDiff(c) /\ c.turn = lastTurn
        /\ c.count = NextCount(thread.checkpoints, lastTurn)
    BY <1>4, <2>1, <2>2 DEF Checkpoint
  <2>4. InFlight
    BY <1>1, <1>4 DEF InFlight
  <2> QED BY <1>1, <1>2, <2>3, <2>4, CompleteDiffMatches
<1> QED BY <1>3, <1>4 DEF IngestDispatch

LEMMA ReportCaptureMatches ==
  ASSUME IInv, OneRound, Matched, ReportCapture PROVE Matched'
<1>1. PICK c : c = Checkpoint(reactor.turn, reactor.count, reactor.status, reactor.count)
  OBVIOUS
<1>2. /\ reactor.step = "report" /\ reactor' = Idle /\ CompleteDiff(c)
      /\ UNCHANGED <<running, conversation, asked, lastTurn>>
  BY <1>1 DEF ReportCapture, provider
<1>3. c.turn = lastTurn /\ c.count = NextCount(thread.checkpoints, lastTurn)
  BY <1>1, <1>2 DEF Checkpoint, OneRound
<1>4. InFlight /\ reactor.step \notin Reverting
  BY <1>2 DEF InFlight, Reverting
<1> QED BY <1>2, <1>3, <1>4, CompleteDiffMatches

(* The reactor takes an event; if that was to capture the last turn, it    *)
(* does, or somebody has.                                                  *)
LEMMA TakesMatch ==
  ASSUME IInv, OneRound, SessionInv, Matched, TakeTurnStart \/ TakeCompletion \/ TakePlaceholder
  PROVE  Matched'
<1>1. PICK e : e = Head(reactorInbox)
  OBVIOUS
<1>2. /\ reactorInbox # <<>> /\ reactorInbox' = Tail(reactorInbox) /\ reactor = Idle
      /\ reactor.step = "idle"
      /\ UNCHANGED <<thread, running, conversation, asked, lastTurn, ingestInbox, ingesting>>
  BY DEF TakeTurnStart, TakeCompletion, TakePlaceholder, Take, provider, ingestion, Idle
<1>3. Events(reactorInbox) = Events(reactorInbox') \cup {e}
  BY <1>1, <1>2, RestOfQueue DEF OneRound
<1>4. AboutTurn(e, lastTurn, NextCount(thread.checkpoints, lastTurn))
  BY <1>3 DEF OneRound
<1>5. \/ /\ e.type \in {"thread.turn-start-requested", "turn.started"}
         /\ reactor'.step = "baseline"
      \/ /\ e.type \in {"turn.completed", "thread.turn-diff-completed"}
         /\ reactor'.step = "capture"
      \/ /\ reactor'.step = "idle"
         /\ \/ e.type = "turn.completed" /\ IsCaptured(thread.checkpoints, lastTurn)
            \/ /\ e.type = "thread.turn-diff-completed"
               /\ e.status # "missing" \/ IsCaptured(thread.checkpoints, lastTurn)
  <2>1. CASE TakeTurnStart
    <3>1. \E n : reactor' = [step |-> "baseline", count |-> n]
      BY <2>1 DEF TakeTurnStart, Take
    <3> QED BY <1>1, <2>1, <3>1 DEF TakeTurnStart
  <2>2. CASE TakeCompletion
    <3>1. /\ e.type = "turn.completed" /\ e.turn = lastTurn
          /\ \/ CapturesCompletion(e.turn) /\ \E n, s : reactor' = Capture(e.turn, n, s)
             \/ ~CapturesCompletion(e.turn) /\ reactor' = Idle
      BY <1>1, <1>4, <2>2 DEF TakeCompletion, Take, AboutTurn
    <3>2. CapturesCompletion(lastTurn) \/ IsCaptured(thread.checkpoints, lastTurn)
      BY DEF CapturesCompletion, SessionInv
    <3> QED BY <3>1, <3>2 DEF Capture, Idle
  <2>3. CASE TakePlaceholder
    <3>1. /\ e.type = "thread.turn-diff-completed" /\ e.turn = lastTurn
          /\ \/ \E n, s : reactor' = Capture(e.turn, n, s)
             \/ /\ e.status # "missing" \/ IsCaptured(thread.checkpoints, e.turn)
                /\ reactor' = Idle
      BY <1>1, <1>4, <2>3 DEF TakePlaceholder, Take, AboutTurn
    <3> QED BY <3>1 DEF Capture, Idle
  <2> QED BY <2>1, <2>2, <2>3
<1>6. InFlight' => InFlight
  BY <1>2, <1>3, <1>5 DEF InFlight
<1>7. ToCapture => ToCapture' \/ IsCaptured(thread.checkpoints, lastTurn)
  BY <1>2, <1>3, <1>5 DEF ToCapture
<1>8. RevertWaits' /\ RevertCounts'
  BY <1>2, <1>3, <1>5 DEF Matched, RevertWaits, RevertCounts, Reverting
<1> QED BY <1>2, <1>5, <1>6, <1>7, <1>8, SameConversation

(* Counted in checkpoints, a revert goes back from the last turn.          *)
LEMMA TakeRevertMatches ==
  ASSUME OneRound, Matched, TakeRevert PROVE Matched'
<1>1. PICK e, n, current : /\ e = Head(reactorInbox) /\ n = e.count
                           /\ current = Highest(thread.checkpoints)
  OBVIOUS
<1>2. /\ reactorInbox # <<>> /\ reactorInbox' = Tail(reactorInbox) /\ reactor = Idle
      /\ reactor.step = "idle" /\ e.type = "thread.checkpoint-revert-requested"
      /\ UNCHANGED <<thread, running, conversation, asked, lastTurn, ingestInbox, ingesting>>
  BY <1>1 DEF TakeRevert, Take, provider, ingestion, Idle
<1>3. e \in Events(reactorInbox) /\ IsRevert(e)
  BY <1>1, <1>2, TakenQueue DEF OneRound, IsRevert
<1>4. /\ running = None /\ asked = None /\ reactorInbox' = <<>> /\ ingestInbox = <<>>
      /\ ingesting = Idle /\ ingesting.step = "idle" /\ Events(reactorInbox) = {e}
  <2>1. Len(reactorInbox) = 1 /\ ingestInbox = <<>> /\ ingesting = Idle
    BY <1>3 DEF OneRound, RevertAlone
  <2>2. Tail(reactorInbox) = <<>>
    BY <1>2, <2>1, TakenQueue DEF OneRound
  <2>3. Events(reactorInbox) = {e}
    <3>1. Events(reactorInbox) = Events(reactorInbox') \cup {e}
      BY <1>1, <1>2, RestOfQueue DEF OneRound
    <3> QED BY <1>2, <2>2, <3>1, NothingInEmpty
  <2> QED BY <1>2, <1>3, <2>1, <2>2, <2>3 DEF Matched, RevertWaits, Idle
<1>5. Open = {} /\ ~InFlight /\ ~ToCapture
  <2>1. Events(ingestInbox) = {}
    BY <1>4, NothingInEmpty
  <2> QED BY <1>2, <1>4, <2>1 DEF Open, ToCapture, InFlight
<1>6. current = Len(conversation)
  <2>1. PICK turns, old, t : turns = conversation /\ old = thread.checkpoints /\ t = lastTurn
    OBVIOUS
  <2>2. turns \in Seq(1..t) /\ Counted(old) /\ Fits(turns, old, {})
    BY <1>2, <1>5, <2>1 DEF Matched, Remembered, Remaining, OneRound, CountedInTurn
  <2> QED BY <1>1, <2>1, <2>2, HighestIsLength
<1>7. \/ reactor'.step = "idle"
      \/ /\ reactor'.step = "restore" /\ reactor'.count <= reactor'.current
         /\ reactor'.current = current
  <2>1. \/ reactor' = Idle
        \/ n <= current /\ \E stale : reactor' = [step |-> "restore", count |-> n,
                                                  current |-> current, stale |-> stale]
    BY <1>1 DEF TakeRevert, Take
  <2> QED BY <2>1 DEF Idle
<1>8. ~InFlight'
  <2>1. Events(reactorInbox') = {} /\ Events(ingestInbox) = {}
    BY <1>4, NothingInEmpty
  <2> QED BY <1>2, <1>4, <1>7, <2>1 DEF InFlight
<1>9. RevertWaits' /\ RevertCounts'
  BY <1>2, <1>4, <1>6, <1>7 DEF RevertWaits, RevertCounts
<1> QED BY <1>2, <1>4, <1>5, <1>7, <1>8, <1>9, SameConversation

LEMMA CapturesMatch ==
  ASSUME IInv, Matched, CaptureBaseline \/ CaptureTurn PROVE Matched'
<1>1. /\ reactor.step \in {"baseline", "capture"}
      /\ UNCHANGED <<thread, running, conversation, asked, lastTurn, reactorInbox, ingestInbox,
                     ingesting>>
  BY DEF CaptureBaseline, CaptureTurn, provider, ingestion
<1>2. \/ reactor.step = "baseline" /\ reactor'.step = "idle"
      \/ reactor.step = "capture" /\ reactor'.step = "report"
  <2>1. CASE CaptureBaseline
    BY <2>1 DEF CaptureBaseline, Idle
  <2>2. CASE CaptureTurn
    <3>1. reactor.step = "capture" /\ reactor' = [reactor EXCEPT !.step = "report"]
      BY <2>2 DEF CaptureTurn
    <3>2. \/ reactor = Capture(reactor.turn, reactor.count, reactor.status)
          \/ reactor = Report(reactor.turn, reactor.count, reactor.status)
      BY <3>1 DEF IInv, ReactorShape
    <3>3. reactor' = Report(reactor.turn, reactor.count, reactor.status)
      BY <3>1, <3>2 DEF Capture, Report
    <3> QED BY <3>1, <3>3 DEF Capture, Report
  <2> QED BY <2>1, <2>2
<1>3. (InFlight' => InFlight) /\ (ToCapture => ToCapture')
  BY <1>1, <1>2 DEF InFlight, ToCapture
<1>4. RevertWaits' /\ RevertCounts'
  BY <1>1, <1>2 DEF Matched, RevertWaits, RevertCounts, Reverting
<1> QED BY <1>1, <1>2, <1>3, <1>4, SameConversation

-----------------------------------------------------------------------------
(* A revert, with nothing open.                                            *)
LEMMA RevertIsClosed ==
  ASSUME OneRound, Matched, reactor.step \in Reverting
  PROVE  /\ ~InFlight /\ Open = {} /\ ~ToCapture /\ running = None /\ asked = None
         /\ reactorInbox = <<>> /\ ingestInbox = <<>> /\ ingesting.step = "idle"
         /\ reactor.count \in Nat
<1>1. ~InFlight
  BY RevertIsQuiet
<1>2. running = None /\ asked = None /\ reactorInbox = <<>> /\ ingestInbox = <<>>
        /\ ingesting = Idle
  BY DEF OneRound, RevertAlone, Matched, RevertWaits
<1>3. ~ToCapture
  <2>1. Events(reactorInbox) = {}
    BY <1>2, NothingInEmpty
  <2> QED BY <1>2, <2>1 DEF ToCapture, Reverting
<1> QED BY <1>1, <1>2, <1>3 DEF Open, OneRound, RevertAlone, Idle

(* What a step of a revert leaves quiet.                                   *)
LEMMA RevertStaysClosed ==
  ASSUME OneRound, Matched, reactor.step \in Reverting,
         UNCHANGED <<running, asked, ingestInbox, ingesting, reactorInbox>>,
         reactor'.step \in Reverting \cup {"idle"}
  PROVE  ~InFlight' /\ Open' = {} /\ ~ToCapture' /\ running' = None /\ RevertWaits'
<1>1. /\ running = None /\ asked = None /\ reactorInbox = <<>> /\ ingestInbox = <<>>
      /\ ingesting.step = "idle"
  BY RevertIsClosed
<1>2. Events(reactorInbox') = {} /\ Events(ingestInbox') = {}
  BY <1>1, NothingInEmpty
<1>3. ~InFlight' /\ ~ToCapture'
  BY <1>1, <1>2 DEF InFlight, ToCapture, Reverting
<1> QED BY <1>1, <1>3 DEF Open, RevertWaits

LEMMA RestoreFilesMatches ==
  ASSUME IInv, OneRound, Matched, RestoreFiles PROVE Matched'
<1>1. /\ reactor.step = "restore"
      /\ UNCHANGED <<thread, running, conversation, asked, lastTurn, ingestInbox, ingesting,
                     reactorInbox>>
      /\ reactor' = [reactor EXCEPT !.step = "rollback"] \/ reactor' = Idle
  BY DEF RestoreFiles, provider, ingestion
<1>2. \/ reactor'.step = "idle"
      \/ /\ reactor'.step = "rollback" /\ reactor'.count = reactor.count
         /\ reactor'.current = reactor.current
  <2>1. PICK step, count, current, stale :
          reactor = [step |-> step, count |-> count, current |-> current, stale |-> stale]
    BY <1>1 DEF IInv, ReactorShape
  <2> QED BY <1>1, <2>1 DEF Idle
<1>3. ~InFlight' /\ ~ToCapture /\ running' = None /\ RevertWaits'
  BY <1>1, <1>2, RevertIsClosed, RevertStaysClosed DEF Reverting
<1>4. RevertCounts'
  BY <1>1, <1>2 DEF Matched, RevertCounts
<1> QED BY <1>1, <1>2, <1>3, <1>4, SameConversation

LEMMA RollBackMatches ==
  ASSUME IInv, OneRound, Matched, RollBackConversation PROVE Matched'
<1>1. /\ reactor.step = "rollback" /\ reactor' = [reactor EXCEPT !.step = "delete"]
      /\ conversation' = SubSeq(conversation, 1, Len(conversation) - RolledBack)
      /\ UNCHANGED <<thread, running, asked, lastTurn, ingestInbox, ingesting, reactorInbox>>
  BY DEF RollBackConversation, ingestion
<1>2. PICK turns, shorter, old, t, n, len, cut :
        /\ turns = conversation /\ shorter = conversation' /\ old = thread.checkpoints
        /\ t = lastTurn /\ n = reactor.count /\ len = Len(conversation)
        /\ cut = UpTo(old, n)
  OBVIOUS
<1>3. reactor'.step = "delete" /\ reactor'.count = n
  <2>1. PICK step, count, current, stale :
          reactor = [step |-> step, count |-> count, current |-> current, stale |-> stale]
    BY <1>1 DEF IInv, ReactorShape
  <2> QED BY <1>1, <1>2, <2>1
<1>4. Open = {} /\ asked = None /\ n \in Nat
  BY <1>1, <1>2, RevertIsClosed DEF Reverting
<1>5. ~InFlight' /\ Open' = {} /\ running' = None /\ RevertWaits'
  BY <1>1, <1>3, RevertStaysClosed DEF Reverting
<1>6. /\ turns \in Seq(1..t) /\ Fits(turns, old, {}) /\ n <= len /\ len = Len(turns)
      /\ len \in Nat
      /\ \A i \in DOMAIN turns : turns[i] = t => i = len
      /\ len - RolledBack = n
  <2>1. reactor.current = len /\ n <= len
    BY <1>1, <1>2 DEF Matched, RevertCounts
  <2>2. turns \in Seq(1..t) /\ \A i \in DOMAIN turns : turns[i] = t => i = len
    BY <1>2 DEF Matched, Remembered
  <2>3. Fits(turns, old, {})
    BY <1>1, <1>2, <1>4 DEF Matched, Remaining
  <2>4. len \in Nat /\ len = Len(turns)
    BY <1>2, <2>2
  <2> QED BY <1>2, <1>4, <2>1, <2>2, <2>3, <2>4 DEF RolledBack
<1>7. shorter = SubSeq(turns, 1, n)
  BY Zenon, <1>1, <1>2, <1>6
<1>8. /\ shorter \in Seq(1..t) /\ Len(shorter) = n
      /\ \A i \in DOMAIN shorter : i \in DOMAIN turns /\ shorter[i] = turns[i]
      /\ Fits(shorter, cut, {})
  <2>1. PICK S : S = 1..t
    OBVIOUS
  <2>2. /\ turns \in Seq(S) /\ n \in Nat /\ n <= Len(turns) /\ Fits(turns, old, {})
        /\ shorter = SubSeq(turns, 1, n) /\ cut = UpTo(old, n)
    BY <1>2, <1>4, <1>6, <1>7, <2>1
  <2>3. Fits(shorter, cut, {})
    BY <2>2, CutFits
  <2>4. shorter \in Seq(S) /\ Len(shorter) = n
    BY <1>6, <2>2
  <2>5. \A i \in DOMAIN shorter : i \in DOMAIN turns /\ shorter[i] = turns[i]
    BY <1>6, <2>2
  <2> QED BY <2>1, <2>3, <2>4, <2>5
<1>9. \A i \in DOMAIN shorter : shorter[i] = t => i = Len(shorter)
  <2>1. DOMAIN shorter = 1..n
    BY <1>4, <1>8
  <2> QED BY <1>4, <1>6, <1>8, <2>1
<1>10. Remembered'
  BY <1>1, <1>2, <1>4, <1>8, <1>9 DEF Remembered
<1>11. Remaining' = cut
  BY <1>1, <1>2, <1>3 DEF Remaining
<1>12. WorkedOn' /\ RevertCounts'
  BY <1>3, <1>5 DEF WorkedOn, RevertCounts
<1> QED BY <1>2, <1>5, <1>8, <1>10, <1>11, <1>12 DEF Matched

LEMMA DeleteRefMatches ==
  ASSUME IInv, OneRound, Matched, DeleteRef PROVE Matched'
<1>1. /\ reactor.step \in {"delete", "deleting"}
      /\ \E n : reactor' = [reactor EXCEPT !.stale = @ \ {n}, !.step = "deleting"]
      /\ UNCHANGED <<thread, running, conversation, asked, lastTurn, ingestInbox, ingesting,
                     reactorInbox>>
  BY DEF DeleteRef, provider, ingestion
<1>2. reactor'.step = "deleting" /\ reactor'.count = reactor.count
  <2>1. PICK step, count, current, stale :
          reactor = [step |-> step, count |-> count, current |-> current, stale |-> stale]
    BY <1>1 DEF IInv, ReactorShape
  <2> QED BY <1>1, <2>1
<1>3. Open = {} /\ ~InFlight' /\ Open' = {} /\ running' = None /\ RevertWaits'
  BY <1>1, <1>2, RevertIsClosed, RevertStaysClosed DEF Reverting
<1>4. Remaining' = Remaining
  BY <1>1, <1>2 DEF Remaining
<1>5. WorkedOn' /\ RevertCounts' /\ Remembered'
  BY <1>1, <1>2, <1>3 DEF WorkedOn, RevertCounts, Matched, Remembered
<1> QED BY <1>1, <1>3, <1>4, <1>5 DEF Matched

LEMMA CompleteRevertMatches ==
  ASSUME IInv, OneRound, Matched, CompleteRevert PROVE Matched'
<1>1. /\ reactor.step \in {"delete", "deleting"} /\ reactor' = Idle /\ reactor'.step = "idle"
      /\ UNCHANGED <<running, conversation, asked, lastTurn, ingestInbox, ingesting, reactorInbox>>
  BY DEF CompleteRevert, provider, ingestion, Idle
<1>2. Open = {} /\ ~InFlight' /\ Open' = {} /\ running' = None /\ RevertWaits'
  BY <1>1, RevertIsClosed, RevertStaysClosed DEF Reverting
<1>3. Remaining' = Remaining
  BY <1>1, RevertedIsCut DEF Remaining, UpTo
<1>4. WorkedOn' /\ RevertCounts' /\ Remembered'
  BY <1>1, <1>2 DEF WorkedOn, RevertCounts, Matched, Remembered
<1> QED BY <1>1, <1>2, <1>3, <1>4 DEF Matched

LEMMA StutterMatches ==
  ASSUME Matched, UNCHANGED vars PROVE Matched'
<1>1. UNCHANGED <<thread, running, conversation, asked, lastTurn, ingestInbox, ingesting,
                  reactorInbox, reactor>>
  BY DEF vars
<1>2. /\ Open' = Open /\ Remaining' = Remaining /\ (InFlight' => InFlight)
      /\ RevertWaits' /\ RevertCounts' /\ Remembered'
  BY <1>1 DEF Open, ToCapture, Remaining, InFlight, Matched, RevertWaits, RevertCounts, Remembered
<1> QED BY <1>1, <1>2 DEF Matched, WorkedOn

-----------------------------------------------------------------------------
(* Nothing but the two failing steps counts failures.                      *)
LEMMA FailuresAreCounted ==
  ASSUME failures \in Nat, [Next]_vars
  PROVE  failures' \in Nat /\ (failures' = 0 => failures = 0 /\ ~FailReactor /\ ~FailIngestion)
<1>1. CASE FailReactor \/ FailIngestion
  <2>1. failures' = failures + 1
    BY <1>1 DEF FailReactor, FailIngestion
  <2> QED BY <2>1
<1>2. CASE ~FailReactor /\ ~FailIngestion
  <2>1. failures' = failures
    BY <1>2 DEF Next, Outside, Workers, AskTurn, StartTurn, Edit, EndTurn, AskRevert,
       IngestTake, IngestDispatch, IngestIgnore, TakeTurnStart, TakeCompletion,
       TakePlaceholder, TakeRevert, Take, CaptureBaseline, CaptureTurn, ReportCapture,
       RestoreFiles, RollBackConversation, DeleteRef, CompleteRevert, vars, counters
  <2> QED BY SMTT(30), <1>2, <2>1
<1> QED BY <1>1, <1>2

LEMMA StepMatches ==
  ASSUME IInv, RInv, MInv, [Next]_vars PROVE MInv'
<1>1. failures' \in Nat /\ (failures' = 0 => failures = 0 /\ ~FailReactor /\ ~FailIngestion)
  BY FailuresAreCounted DEF MInv
<1>2. SUFFICES ASSUME ~hurried, failures' = 0 PROVE SessionInv' /\ Matched'
  BY <1>1, StaysAsItIs DEF MInv
<1>3. OneRound /\ SessionInv /\ Matched /\ ~FailReactor /\ ~FailIngestion
  BY <1>1, <1>2 DEF RInv, MInv
<1>4. CASE AskTurn \/ StartTurn \/ Edit \/ EndTurn \/ AskRevert
  BY <1>2, <1>3, <1>4, AskTurnSession, StartTurnSession, EditSession, EndTurnSession,
     ReactorSession, AskTurnMatches, StartTurnMatches, EditMatches, EndTurnMatches,
     AskRevertMatches
<1>5. CASE IngestTake \/ IngestDispatch \/ IngestIgnore
  BY <1>3, <1>5, IngestTakeSession, IngestDispatchSession, IngestIgnoreSession,
     IngestsMatch, IngestDispatchMatches
<1>6. CASE TakeTurnStart \/ TakeCompletion \/ TakePlaceholder \/ TakeRevert
  BY <1>3, <1>6, ReactorSession, TakesMatch, TakeRevertMatches
<1>7. CASE CaptureBaseline \/ CaptureTurn \/ ReportCapture
  BY <1>3, <1>7, ReactorSession, CapturesMatch, ReportCaptureMatches
<1>8. CASE RestoreFiles \/ RollBackConversation \/ DeleteRef \/ CompleteRevert
  BY <1>3, <1>8, ReactorSession, RestoreFilesMatches, RollBackMatches, DeleteRefMatches,
     CompleteRevertMatches
<1>9. CASE UNCHANGED vars
  BY <1>3, <1>9, ReactorSession, StutterMatches
<1> QED BY <1>3, <1>4, <1>5, <1>6, <1>7, <1>8, <1>9 DEF Next, Outside, Workers

LEMMA InitMatches == Init => MInv
<1> SUFFICES ASSUME Init PROVE MInv
  OBVIOUS
<1>1. /\ Settled /\ reactor.step = "idle" /\ ingesting.step = "idle" /\ running = None
      /\ asked = None /\ conversation = <<>> /\ reactorInbox = <<>>
  BY DEF Init, Settled, Idle
<1>2. /\ "session" \in DOMAIN thread /\ thread.session.turn = None
      /\ thread.checkpoints = {}
  BY DEF Init, NewThread
<1>3. SessionInv
  BY <1>1, <1>2, SettledAwaits DEF SessionInv
<1>4. ~InFlight /\ Remaining = {}
  BY <1>1, <1>2, QuietIsClosed
<1>5. Events(reactorInbox) = {}
  BY <1>1, NothingInEmpty
<1>6. Remembered /\ WorkedOn /\ RevertWaits /\ RevertCounts
  BY <1>1, <1>4, <1>5 DEF Remembered, WorkedOn, RevertWaits, RevertCounts, Reverting
<1>7. DOMAIN conversation = {}
  BY <1>1
<1>8. Matched
  BY <1>2, <1>4, <1>6, <1>7 DEF Matched, Fits
<1>9. failures \in Nat
  BY DEF Init
<1> QED BY <1>3, <1>8, <1>9 DEF MInv

(* When all is quiet, nothing failed and the user waited, the turns the    *)
(* provider remembers are the captured ones in the order of their counts,  *)
(* one checkpoint each, for any number of turns, edits and reverts and     *)
(* whenever the provider reports diffs: a revert, which counts in          *)
(* checkpoints, rolls back as many turns as it discards.                   *)
THEOREM CheckpointsMatchTheConversation == Spec => []CheckpointsMatchConversation
<1>1. ASSUME IInv, RInv, MInv, [Next]_vars PROVE IInv' /\ RInv' /\ MInv'
  BY <1>1, StepKeeps, StepCounts, StepMatches
<1>2. ASSUME MInv PROVE CheckpointsMatchConversation
  <2>1. SUFFICES ASSUME ~hurried, Settled, running = None, failures = 0
                 PROVE  /\ Len(conversation) = Cardinality(thread.checkpoints)
                        /\ \A i \in DOMAIN conversation :
                             \E k \in Captured : k.turn = conversation[i] /\ k.count = i
    BY DEF CheckpointsMatchConversation
  <2>2. conversation \in Seq(1..lastTurn) /\ Fits(conversation, thread.checkpoints, {})
    BY <1>2, <2>1, QuietIsClosed DEF MInv, Matched, Remembered
  <2>3. Len(conversation) = Cardinality(thread.checkpoints)
    BY <2>2, OneCheckpointEach
  <2> QED BY <2>2, <2>3 DEF Fits, Captured
<1> QED BY <1>1, <1>2, InitHolds, InitCounts, InitMatches, PTL DEF Spec

-----------------------------------------------------------------------------
(* Types, turn counts being any numbers.                                   *)
Statuses == {"ready", "missing", "error"}

IsCheckpoint(k) ==
  /\ k = Checkpoint(k.turn, k.count, k.status, k.ref)
  /\ k.turn \in Turns /\ k.count \in Nat \ {0} /\ k.status \in Statuses
  /\ k.ref \in {None, k.count}

CheckpointsTyped(checkpoints) ==
  Counted(checkpoints) /\ \A k \in checkpoints : IsCheckpoint(k)

EventTyped(e) ==
  /\ e.type = "turn.completed" => e.turn \in Turns
  /\ e.type = "thread.turn-diff-completed" =>
       e.turn \in Turns /\ e.count \in Nat \ {0} /\ e.status \in Statuses
  /\ IsRevert(e) => e.count \in Counts

ReactorTyped ==
  /\ reactor.step \in {"idle", "baseline", "capture", "report"} \cup Reverting
  /\ reactor.step \in {"capture", "report"} =>
       reactor.turn \in Turns /\ reactor.count \in Nat \ {0} /\ reactor.status \in Statuses
  /\ reactor.step \in {"restore", "rollback"} =>
       /\ reactor.count \in Counts /\ reactor.current \in Nat
       /\ reactor.count <= reactor.current

IngestingTyped ==
  /\ ingesting.step \in {"idle", "dispatch"}
  /\ ingesting.step = "dispatch" =>
       ingesting.event.turn \in Turns /\ CheckpointsTyped(ingesting.seen.checkpoints)

QueuesTyped ==
  /\ IsQueue(reactorInbox) /\ \A e \in Events(reactorInbox) : EventTyped(e)
  /\ IsQueue(ingestInbox) /\ \A e \in Events(ingestInbox) : e.turn \in Turns

WorkspaceTyped ==
  /\ files \subseteq Edits /\ made \subseteq Edits /\ torn \in BOOLEAN
  /\ refs \in [Counts -> Workspaces \cup {None}]
  /\ filesAfter \in [Turns -> Workspaces \cup {None}]

ProviderTyped ==
  /\ running \in Turns \cup {None} /\ asked \in Turns \cup {None} /\ lastTurn \in 0..MaxTurns
  /\ conversation \in Seq(Turns)

Typed ==
  /\ WorkspaceTyped /\ ProviderTyped /\ QueuesTyped /\ ReactorTyped /\ IngestingTyped
  /\ CheckpointsTyped(thread.checkpoints)

(* Who waits: a count is at most the number of its turn.                   *)
LowCounts == \A k \in thread.checkpoints : k.count <= k.turn

(* Who does not: a count is at most the number of turns with a checkpoint, *)
(* counting the turn it is for.                                            *)
TurnsOf(checkpoints) == {k.turn : k \in checkpoints}
AtMost(n, turns) == n <= Cardinality(turns)

FewCounts ==
  /\ \A k \in thread.checkpoints : AtMost(k.count, TurnsOf(thread.checkpoints))
  /\ reactor.step \in {"capture", "report"} =>
       AtMost(reactor.count, TurnsOf(thread.checkpoints) \cup {reactor.turn})
  /\ \A e \in Events(reactorInbox) :
       e.type = "thread.turn-diff-completed" =>
         AtMost(e.count, TurnsOf(thread.checkpoints) \cup {e.turn})
  /\ ingesting.step = "dispatch" =>
       /\ TurnsOf(ingesting.seen.checkpoints) \subseteq TurnsOf(thread.checkpoints)
       /\ AtMost(Highest(ingesting.seen.checkpoints), TurnsOf(ingesting.seen.checkpoints))

NoRevert == reactor.step \notin Reverting /\ \A e \in Events(reactorInbox) : ~IsRevert(e)

CountsInv == IF hurried THEN NoRevert /\ FewCounts ELSE LowCounts

-----------------------------------------------------------------------------
LEMMA HighestIsNat ==
  ASSUME NEW checkpoints, CheckpointsTyped(checkpoints) PROVE Highest(checkpoints) \in Nat
BY HighestCount DEF CheckpointsTyped

LEMMA PlaceholderIsCheckpoint ==
  ASSUME Typed, ingesting.step = "dispatch",
         NEW c, c = Checkpoint(ingesting.event.turn, PlaceholderCount, "missing", None)
  PROVE  IsCheckpoint(c)
<1>1. ingesting.event.turn \in Turns /\ CheckpointsTyped(ingesting.seen.checkpoints)
  BY DEF Typed, IngestingTyped
<1>2. Highest(ingesting.seen.checkpoints) \in Nat
  BY <1>1, HighestIsNat
<1>3. PlaceholderCount \in Nat \ {0}
  BY <1>2 DEF PlaceholderCount
<1> QED BY <1>1, <1>3 DEF IsCheckpoint, Checkpoint, Statuses

LEMMA ReportIsCheckpoint ==
  ASSUME Typed, reactor.step = "report",
         NEW c, c = Checkpoint(reactor.turn, reactor.count, reactor.status, reactor.count)
  PROVE  IsCheckpoint(c)
BY DEF Typed, ReactorTyped, IsCheckpoint, Checkpoint

LEMMA ReplacedTyped ==
  ASSUME NEW checkpoints, CheckpointsTyped(checkpoints), NEW c, IsCheckpoint(c)
  PROVE  CheckpointsTyped(Replaced(checkpoints, c))
<1>1. \A k \in Replaced(checkpoints, c) : k = c \/ k \in checkpoints
  BY DEF Replaced
<1>2. c.count \in Nat /\ c.turn \in Nat
  BY DEF IsCheckpoint, Turns
<1>3. PICK bound \in Nat : \A k \in checkpoints : k.count <= bound
  BY DEF CheckpointsTyped, Counted
<1>4. \A k \in Replaced(checkpoints, c) :
        k.count \in Nat /\ k.turn \in Nat /\ k.count <= bound + c.count
  BY <1>1, <1>2, <1>3 DEF CheckpointsTyped, Counted
<1>5. Counted(Replaced(checkpoints, c))
  BY <1>2, <1>4 DEF Counted
<1> QED BY <1>1, <1>5 DEF CheckpointsTyped

LEMMA CompletionCountTyped ==
  ASSUME CheckpointsTyped(thread.checkpoints), NEW turn PROVE CompletionCount(turn) \in Nat \ {0}
<1> DEFINE placeholders ==
             {k \in thread.checkpoints : k.turn = turn /\ k.status = "missing"}
<1>1. CompletionCount(turn) =
        IF placeholders = {} THEN Highest(thread.checkpoints) + 1
        ELSE (CHOOSE k \in placeholders : TRUE).count
  BY Zenon DEF CompletionCount
<1>2. \A k \in placeholders : k.count \in Nat \ {0}
  BY DEF CheckpointsTyped, IsCheckpoint
<1> HIDE DEF placeholders
<1>3. CASE placeholders = {}
  BY <1>1, <1>3, HighestIsNat
<1>4. CASE placeholders # {}
  <2>1. PICK k : k = (CHOOSE j \in placeholders : TRUE)
    OBVIOUS
  <2>2. k \in placeholders
    BY <1>4, <2>1
  <2> QED BY <1>1, <1>2, <1>4, <2>1, <2>2
<1> QED BY <1>3, <1>4

-----------------------------------------------------------------------------
(* What a step does to each part.                                          *)
LEMMA WorkspaceStep ==
  ASSUME Typed, [Next]_vars PROVE WorkspaceTyped'
<1>1. WorkspaceTyped /\ ProviderTyped /\ ReactorTyped
  BY DEF Typed
<1> DEFINE Stored == Workspaces \cup {None}
<1>2. files \in Stored /\ None \in Stored /\ refs \in [Counts -> Stored]
  <2>1. files \in Workspaces
    BY <1>1 DEF WorkspaceTyped, Workspaces
  <2> QED BY <1>1, <2>1 DEF WorkspaceTyped
<1>3. CASE Edit
  <2>1. PICK n \in 1..MaxEdits : /\ made' = made \cup {<<running, n>>}
                                 /\ files' = files \cup {<<running, n>>}
    BY <1>3 DEF Edit
  <2>2. <<running, n>> \in Edits
    BY <1>1, <1>3, <2>1 DEF Edit, ProviderTyped, Edits
  <2>3. UNCHANGED <<refs, filesAfter, torn>>
    BY <1>3 DEF Edit, provider, counters
  <2> QED BY <1>1, <2>1, <2>2, <2>3 DEF WorkspaceTyped
<1>4. CASE EndTurn
  <2>1. filesAfter' = [filesAfter EXCEPT ![running] = files]
        /\ UNCHANGED <<files, made, refs, torn>>
    BY <1>4 DEF EndTurn, workspace, counters
  <2>2. filesAfter' \in [Turns -> Stored]
    BY <1>1, <1>2, <2>1 DEF WorkspaceTyped
  <2> QED BY <1>1, <2>1, <2>2 DEF WorkspaceTyped
<1>5. CASE CaptureBaseline \/ CaptureTurn \/ DeleteRef
  <2>1. /\ UNCHANGED <<files, made, filesAfter, torn>>
        /\ \/ refs' = refs
           \/ \E n : refs' = [refs EXCEPT ![n] = files] \/ refs' = [refs EXCEPT ![n] = None]
    BY <1>5 DEF CaptureBaseline, CaptureTurn, DeleteRef, workspace, provider, counters
  <2> HIDE DEF Stored
  <2>2. refs' \in [Counts -> Stored]
    BY <1>2, <2>1
  <2> QED BY <1>1, <2>1, <2>2 DEF WorkspaceTyped, Stored
<1>6. CASE RestoreFiles
  <2>1. PICK n : n = reactor.count
    OBVIOUS
  <2>2. /\ files' = files \/ files' = IF refs[n] = None THEN {} ELSE refs[n]
        /\ UNCHANGED <<made, refs, filesAfter, torn>>
    BY <1>6, <2>1 DEF RestoreFiles, provider, counters
  <2>3. refs[n] \in Stored
    BY <1>1, <1>2, <1>6, <2>1 DEF RestoreFiles, ReactorTyped
  <2>4. files' \subseteq Edits
    <3>1. refs[n] # None => refs[n] \subseteq Edits
      BY <2>3 DEF Workspaces
    <3> QED BY <1>1, <2>2, <3>1 DEF WorkspaceTyped
  <2> QED BY <1>1, <2>2, <2>4 DEF WorkspaceTyped
<1>7. CASE FailReactor
  <2>1. UNCHANGED <<files, made, refs, filesAfter>> /\ torn' = (torn \/ reactor.step = "deleting")
    BY <1>7 DEF FailReactor, workspace, provider
  <2>2. torn' \in BOOLEAN
    BY Zenon, <2>1
  <2> QED BY <1>1, <2>1, <2>2 DEF WorkspaceTyped
<1>8. CASE \/ AskTurn \/ StartTurn \/ AskRevert \/ IngestTake \/ IngestDispatch \/ IngestIgnore
           \/ TakeTurnStart \/ TakeCompletion \/ TakePlaceholder \/ TakeRevert \/ ReportCapture
           \/ RollBackConversation \/ CompleteRevert \/ FailIngestion \/ UNCHANGED vars
  <2>1. UNCHANGED <<files, made, refs, filesAfter, torn>>
    BY <1>8 DEF AskTurn, StartTurn, AskRevert, IngestTake, IngestDispatch, IngestIgnore,
       TakeTurnStart, TakeCompletion, TakePlaceholder, TakeRevert, Take, ReportCapture,
       RollBackConversation, CompleteRevert, FailIngestion, vars, workspace, provider, counters
  <2> QED BY <1>1, <2>1 DEF WorkspaceTyped
<1> QED BY <1>3, <1>4, <1>5, <1>6, <1>7, <1>8 DEF Next, Outside, Workers

LEMMA ProviderStep ==
  ASSUME Typed, [Next]_vars PROVE ProviderTyped'
<1>1. ProviderTyped /\ ReactorTyped
  BY DEF Typed
<1>2. CASE AskTurn
  <2>1. /\ lastTurn' = lastTurn + 1 /\ asked' = lastTurn' /\ MayAsk
        /\ UNCHANGED <<running, conversation>>
    BY <1>2 DEF AskTurn
  <2>2. PICK t \in 0..MaxTurns : t = lastTurn
    BY <1>1 DEF ProviderTyped
  <2>3. t < MaxTurns
    BY <2>1, <2>2, CheckpointsAssumption DEF MayAsk
  <2>4. t + 1 \in Turns /\ t + 1 \in 0..MaxTurns
    BY <2>2, <2>3, CheckpointsAssumption DEF Turns
  <2> QED BY <1>1, <2>1, <2>2, <2>4 DEF ProviderTyped
<1>3. CASE StartTurn
  <2>1. /\ asked # None /\ running' = asked /\ asked' = None
        /\ conversation' = Append(conversation, asked) /\ UNCHANGED lastTurn
    BY <1>3 DEF StartTurn
  <2>2. asked \in Turns /\ conversation \in Seq(Turns)
    BY <1>1, <2>1 DEF ProviderTyped
  <2>3. conversation' \in Seq(Turns)
    BY <2>1, <2>2
  <2> QED BY <1>1, <2>1, <2>2, <2>3 DEF ProviderTyped
<1>4. CASE EndTurn
  <2>1. running' = None /\ UNCHANGED <<conversation, asked, lastTurn>>
    BY <1>4 DEF EndTurn
  <2> QED BY <1>1, <2>1 DEF ProviderTyped
<1>5. CASE RollBackConversation
  <2>1. /\ conversation' = SubSeq(conversation, 1, Len(conversation) - RolledBack)
        /\ UNCHANGED <<running, asked, lastTurn>>
    BY <1>5 DEF RollBackConversation
  <2>2. PICK m : m = RolledBack
    OBVIOUS
  <2>3. m \in Nat
    BY <1>1, <1>5, <2>2 DEF RollBackConversation, ReactorTyped, RolledBack, Counts
  <2>4. conversation' \in Seq(Turns)
    BY <1>1, <2>1, <2>2, <2>3 DEF ProviderTyped
  <2> QED BY <1>1, <2>1, <2>4 DEF ProviderTyped
<1>6. CASE ~(AskTurn \/ StartTurn \/ EndTurn \/ RollBackConversation)
  <2>1. UNCHANGED <<running, conversation, asked, lastTurn>>
    BY <1>6 DEF Next, Outside, Workers, Edit, AskRevert,
       IngestTake, IngestDispatch, IngestIgnore, TakeTurnStart, TakeCompletion,
       TakePlaceholder, TakeRevert, Take, CaptureBaseline, CaptureTurn, ReportCapture,
       RestoreFiles, DeleteRef, CompleteRevert, FailReactor, FailIngestion, vars, provider
  <2> QED BY SMTT(30), <1>1, <2>1 DEF ProviderTyped
<1> QED BY <1>2, <1>3, <1>4, <1>5, <1>6

LEMMA ReactorStep ==
  ASSUME IInv, Typed, [Next]_vars PROVE ReactorTyped'
<1>1. ReactorTyped /\ QueuesTyped /\ CheckpointsTyped(thread.checkpoints)
  BY DEF Typed
<1>2. CASE reactor' = reactor
  BY <1>1, <1>2 DEF ReactorTyped
<1>3. CASE reactor' = Idle
  BY <1>3 DEF ReactorTyped, Idle, Reverting
<1>4. CASE TakeTurnStart
  <2>1. \E n : reactor' = [step |-> "baseline", count |-> n]
    BY <1>4 DEF TakeTurnStart, Take
  <2> QED BY <2>1 DEF ReactorTyped, Reverting
<1>5. ASSUME NEW turn \in Turns, NEW count \in Nat \ {0}, NEW status \in Statuses,
             reactor' = Capture(turn, count, status)
      PROVE  ReactorTyped'
  BY <1>5 DEF ReactorTyped, Capture, Reverting
<1>6. CASE TakeCompletion \/ TakePlaceholder \/ TakeRevert
  <2>1. PICK e : e = Head(reactorInbox)
    OBVIOUS
  <2>2. EventTyped(e)
    <3>1. reactorInbox # <<>>
      BY <1>6 DEF TakeCompletion, TakePlaceholder, TakeRevert
    <3> QED BY <1>1, <2>1, <3>1, TakenQueue DEF QueuesTyped
  <2>3. CASE TakeCompletion
    <3>1. /\ e.turn \in Turns
          /\ \/ reactor' = Idle
             \/ reactor' = Capture(e.turn, CompletionCount(e.turn), StatusFromRuntime(e.outcome))
      BY <2>1, <2>2, <2>3 DEF TakeCompletion, Take, EventTyped
    <3>2. CompletionCount(e.turn) \in Nat \ {0}
      BY <1>1, CompletionCountTyped
    <3>3. StatusFromRuntime(e.outcome) \in Statuses
      BY DEF StatusFromRuntime, Statuses
    <3> QED BY <1>3, <1>5, <3>1, <3>2, <3>3
  <2>4. CASE TakePlaceholder
    <3>1. /\ e.turn \in Turns /\ e.count \in Nat \ {0}
          /\ reactor' = Idle \/ reactor' = Capture(e.turn, e.count, "ready")
      BY <2>1, <2>2, <2>4 DEF TakePlaceholder, Take, EventTyped
    <3> QED BY <1>3, <1>5, <3>1 DEF Statuses
  <2>5. CASE TakeRevert
    <3>1. e.count \in Counts
      BY <2>1, <2>2, <2>5 DEF TakeRevert, EventTyped, IsRevert
    <3>2. \/ reactor' = Idle
          \/ /\ e.count <= Highest(thread.checkpoints)
             /\ \E stale : reactor' = [step |-> "restore", count |-> e.count,
                                       current |-> Highest(thread.checkpoints), stale |-> stale]
      BY <2>1, <2>5 DEF TakeRevert, Take
    <3>3. PICK current : current = Highest(thread.checkpoints)
      OBVIOUS
    <3>4. current \in Nat
      BY <1>1, <3>3, HighestIsNat
    <3>5. ASSUME NEW stale, e.count <= current,
                 reactor' = [step |-> "restore", count |-> e.count, current |-> current,
                             stale |-> stale]
          PROVE  ReactorTyped'
      BY <3>1, <3>4, <3>5 DEF ReactorTyped, Reverting
    <3> QED BY <1>3, <3>2, <3>3, <3>5
  <2> QED BY <1>6, <2>3, <2>4, <2>5
<1>7. CASE CaptureTurn
  <2>1. reactor.step = "capture" /\ reactor' = [reactor EXCEPT !.step = "report"]
    BY <1>7 DEF CaptureTurn
  <2>2. \/ reactor = Capture(reactor.turn, reactor.count, reactor.status)
        \/ reactor = Report(reactor.turn, reactor.count, reactor.status)
    BY <2>1 DEF IInv, ReactorShape
  <2>3. reactor' = Report(reactor.turn, reactor.count, reactor.status)
    BY <2>1, <2>2 DEF Capture, Report
  <2>4. /\ reactor'.step = "report" /\ reactor'.turn = reactor.turn
        /\ reactor'.count = reactor.count /\ reactor'.status = reactor.status
    BY <2>3 DEF Capture, Report
  <2> QED BY <1>1, <2>1, <2>4 DEF ReactorTyped, Reverting
<1>8. CASE RestoreFiles \/ RollBackConversation \/ DeleteRef
  <2>1. /\ reactor.step \in Reverting
        /\ \/ reactor' = Idle
           \/ reactor.step = "restore" /\ reactor' = [reactor EXCEPT !.step = "rollback"]
           \/ reactor' = [reactor EXCEPT !.step = "delete"]
           \/ \E n : reactor' = [reactor EXCEPT !.stale = @ \ {n}, !.step = "deleting"]
    BY <1>8 DEF RestoreFiles, RollBackConversation, DeleteRef, Reverting
  <2>2. PICK step, count, current, stale :
          reactor = [step |-> step, count |-> count, current |-> current, stale |-> stale]
    BY <2>1 DEF IInv, ReactorShape, Reverting
  <2>3. \/ reactor' = Idle
        \/ /\ reactor.step = "restore" /\ reactor'.step = "rollback"
           /\ reactor'.count = reactor.count /\ reactor'.current = reactor.current
        \/ reactor'.step \in {"delete", "deleting"}
    BY <2>1, <2>2
  <2> QED BY <1>1, <1>3, <2>3 DEF ReactorTyped, Reverting
<1>9. CASE ~\/ TakeTurnStart \/ TakeCompletion \/ TakePlaceholder \/ TakeRevert
            \/ CaptureTurn \/ RestoreFiles \/ RollBackConversation \/ DeleteRef
  <2>1. reactor' \in {reactor, Idle}
    BY <1>9 DEF Next, Outside, Workers, AskTurn, StartTurn, Edit, EndTurn, AskRevert,
       IngestTake, IngestDispatch, IngestIgnore, CaptureBaseline, ReportCapture,
       CompleteRevert, FailReactor, FailIngestion, vars
  <2> QED BY <1>2, <1>3, <2>1
<1> QED BY <1>4, <1>6, <1>7, <1>8, <1>9

-----------------------------------------------------------------------------
(* The new queue has e behind the old one, with or without n between them. *)
Joins(inbox, n, e, new) == \E head \in {<<>>, <<n>>} : new = inbox \o head \o <<e>>

LEMMA JoinedTo ==
  ASSUME NEW inbox, IsQueue(inbox), NEW n, NEW e, NEW new, Joins(inbox, n, e, new)
  PROVE  IsQueue(new) /\ Events(new) \subseteq Events(inbox) \cup {n, e}
<1> PICK head \in {<<>>, <<n>>} : new = inbox \o head \o <<e>>
  BY DEF Joins
<1>1. PICK S : inbox \in Seq(S)
  BY DEF IsQueue
<1>2. PICK len \in Nat : len = Len(inbox) /\ DOMAIN inbox = 1..len
  BY <1>1
<1>3. PICK T : T = S \cup {n, e}
  OBVIOUS
<1>4. inbox \in Seq(T) /\ head \in Seq({n, e}) /\ head \in Seq(T) /\ <<e>> \in Seq(T)
  <2>1. <<n>> \in Seq({n, e}) /\ <<>> \in Seq({n, e}) /\ <<n>> \in Seq(T) /\ <<>> \in Seq(T)
    BY <1>3
  <2>2. <<e>> \in Seq(T)
    BY <1>3
  <2>3. inbox \in Seq(T)
    <3>1. S \subseteq T
      BY <1>3
    <3> QED BY <1>1, <3>1
  <2>4. head \in Seq({n, e})
    BY Zenon, <2>1
  <2>5. head \in Seq(T)
    BY Zenon, <2>1
  <2> QED BY Zenon, <2>2, <2>3, <2>4, <2>5
<1>5. PICK tail : tail = head \o <<e>>
  OBVIOUS
<1>6. tail \in Seq({n, e}) /\ tail \in Seq(T)
  BY <1>4, <1>5
<1>7. new = inbox \o tail /\ new \in Seq(T)
  BY <1>1, <1>4, <1>5, <1>6
<1>8. /\ DOMAIN new = 1..Len(new) /\ Len(new) = len + Len(tail)
      /\ \A i \in 1..Len(new) : new[i] = IF i <= len THEN inbox[i] ELSE tail[i - len]
  <2>1. inbox \in Seq(T) /\ tail \in Seq(T) /\ new = inbox \o tail
    BY Zenon, <1>4, <1>6, <1>7
  <2>2. Len(new) = Len(inbox) + Len(tail)
    <3>1. Len(inbox \o tail) = Len(inbox) + Len(tail)
      BY <1>4, <1>6
    <3> QED BY Zenon, <2>1, <3>1
  <2>3. \A i \in 1..Len(inbox) + Len(tail) :
          new[i] = IF i <= Len(inbox) THEN inbox[i] ELSE tail[i - Len(inbox)]
    BY <2>1
  <2>4. DOMAIN new = 1..Len(new)
    BY <1>7
  <2> QED BY Zenon, <1>2, <2>2, <2>3, <2>4
<1>9. ASSUME NEW i \in 1..Len(new) PROVE new[i] \in Events(inbox) \cup {n, e}
  <2>1. CASE i <= len
    BY SMTT(30), <1>2, <1>8, <2>1 DEF Events
  <2>2. CASE i > len
    <3>1. i - len \in 1..Len(tail)
      BY <1>2, <1>6, <1>8, <2>2
    <3>2. tail[i - len] \in {n, e}
      BY <1>6, <3>1
    <3> QED BY <1>2, <1>8, <2>2, <3>2
  <2> QED BY <1>2, <2>1, <2>2
<1>10. IsQueue(new)
  BY Zenon, <1>7 DEF IsQueue
<1>11. Events(new) \subseteq Events(inbox) \cup {n, e}
  <2>1. DOMAIN new = 1..Len(new)
    BY Zenon, <1>8
  <2> QED BY Zenon, <1>9, <2>1 DEF Events
<1> QED BY Zenon, <1>10, <1>11

LEMMA CompleteDiffTyped ==
  ASSUME IInv, Typed, NEW c, CompleteDiff(c), IsCheckpoint(c)
  PROVE  /\ CheckpointsTyped(thread'.checkpoints)
         /\ IsQueue(reactorInbox') /\ \A e \in Events(reactorInbox') : EventTyped(e)
<1>1. PICK e : e = [type |-> "thread.turn-diff-completed", turn |-> c.turn, count |-> c.count,
                    status |-> c.status]
  OBVIOUS
<1>2. EventTyped(e)
  BY <1>1 DEF EventTyped, IsCheckpoint, IsRevert
<1>3. IsQueue(reactorInbox') /\ Events(reactorInbox') = Events(reactorInbox) \cup {e}
  BY <1>1, AppendedQueue DEF CompleteDiff, Typed, QueuesTyped
<1>4. CheckpointsTyped(thread'.checkpoints)
  BY DiffReplaces, ReplacedTyped DEF Typed
<1> QED BY <1>2, <1>3, <1>4 DEF Typed, QueuesTyped

LEMMA IngestingStep ==
  ASSUME Typed, [Next]_vars PROVE IngestingTyped'
<1>1. CASE IngestTake
  <2>1. PICK h : h = [step |-> "dispatch", event |-> Head(ingestInbox), seen |-> thread]
    OBVIOUS
  <2>2. /\ ingestInbox # <<>> /\ ingesting' = h /\ h.step = "dispatch"
        /\ h.event = Head(ingestInbox) /\ h.seen = thread
    BY <1>1, <2>1 DEF IngestTake
  <2>3. h.event \in Events(ingestInbox)
    BY <2>2, TakenQueue DEF Typed, QueuesTyped
  <2> QED BY <2>2, <2>3 DEF Typed, QueuesTyped, IngestingTyped
<1>2. CASE ~IngestTake
  <2>1. ingesting' \in {ingesting, Idle}
    BY <1>2 DEF Next, Outside, Workers, AskTurn, StartTurn, Edit, EndTurn, AskRevert,
       IngestDispatch, IngestIgnore, TakeTurnStart, TakeCompletion,
       TakePlaceholder, TakeRevert, Take, CaptureBaseline, CaptureTurn, ReportCapture,
       RestoreFiles, RollBackConversation, DeleteRef, CompleteRevert, FailReactor,
       FailIngestion, vars, ingestion
  <2> QED BY <2>1 DEF Typed, IngestingTyped, Idle
<1> QED BY <1>1, <1>2

(* The thread, the two queues and nothing else of them: the steps that do  *)
(* not touch them.                                                         *)
LEMMA QueuesStep ==
  ASSUME IInv, Typed, [Next]_vars PROVE QueuesTyped' /\ CheckpointsTyped(thread'.checkpoints)
<1>1. /\ IsQueue(reactorInbox) /\ \A e \in Events(reactorInbox) : EventTyped(e)
      /\ IsQueue(ingestInbox) /\ \A e \in Events(ingestInbox) : e.turn \in Turns
      /\ CheckpointsTyped(thread.checkpoints) /\ ProviderTyped
  BY DEF Typed, QueuesTyped
<1>2. ASSUME NEW e, EventTyped(e), reactorInbox' = Append(reactorInbox, e)
      PROVE  IsQueue(reactorInbox') /\ \A f \in Events(reactorInbox') : EventTyped(f)
  BY <1>1, <1>2, AppendedQueue
<1>3. ASSUME NEW e, e.turn \in Turns, ingestInbox' = Append(ingestInbox, e)
      PROVE  IsQueue(ingestInbox') /\ \A f \in Events(ingestInbox') : f.turn \in Turns
  BY <1>1, <1>3, AppendedQueue
<1>4. ASSUME NEW type, NEW turn \in Turns, NEW e, e = Event(type, turn)
      PROVE  /\ e.turn \in Turns
             /\ type \in {"thread.turn-start-requested", "turn.started"} => EventTyped(e)
  BY <1>4 DEF Event, EventTyped, IsRevert
<1>5. CASE AskTurn
  <2>1. PICK e : e = Event("thread.turn-start-requested", lastTurn')
    OBVIOUS
  <2>2. reactorInbox' = Append(reactorInbox, e) /\ UNCHANGED <<thread, ingestInbox>>
        /\ asked' = lastTurn' /\ lastTurn' = lastTurn + 1
    BY <1>5, <2>1 DEF AskTurn, ingestion
  <2>3. lastTurn' \in Turns
    <3>1. ProviderTyped'
      BY ProviderStep
    <3>2. lastTurn \in Nat
      BY <1>1 DEF ProviderTyped
    <3> QED BY <2>2, <3>1, <3>2 DEF ProviderTyped, Turns
  <2>4. EventTyped(e)
    BY <1>4, <2>1, <2>3
  <2> QED BY <1>1, <1>2, <2>2, <2>4 DEF QueuesTyped
<1>6. CASE StartTurn
  <2>1. PICK e : e = Event("turn.started", asked)
    OBVIOUS
  <2>2. /\ asked # None /\ ingestInbox' = Append(ingestInbox, e)
        /\ reactorInbox' = Append(reactorInbox, e) /\ UNCHANGED thread
    BY <1>6, <2>1 DEF StartTurn
  <2>3. EventTyped(e) /\ e.turn \in Turns
    BY <1>1, <1>4, <2>1, <2>2 DEF ProviderTyped
  <2> QED BY <1>1, <1>2, <1>3, <2>2, <2>3 DEF QueuesTyped
<1>7. CASE Edit
  <2>1. PICK e : e = Event("turn.diff.updated", running)
    OBVIOUS
  <2>2. /\ running # None /\ UNCHANGED <<thread, reactorInbox>>
        /\ ingestInbox' = Append(ingestInbox, e) \/ ingestInbox' = ingestInbox
    BY <1>7, <2>1 DEF Edit
  <2>3. e.turn \in Turns
    BY <1>1, <1>4, <2>1, <2>2 DEF ProviderTyped
  <2> QED BY <1>1, <1>3, <2>2, <2>3 DEF QueuesTyped
<1>8. CASE EndTurn
  <2>1. PICK outcome : /\ reactorInbox' = Append(reactorInbox, Completed(running, outcome))
                       /\ ingestInbox' =
                            ingestInbox
                              \o (IF Notices = "atEnd"
                                  THEN <<Event("turn.diff.updated", running)>> ELSE <<>>)
                              \o <<Completed(running, outcome)>>
    BY <1>8 DEF EndTurn
  <2>2. PICK e, n : e = Completed(running, outcome) /\ n = Event("turn.diff.updated", running)
    OBVIOUS
  <2>3. running \in Turns /\ UNCHANGED thread
    BY <1>1, <1>8 DEF EndTurn, ProviderTyped
  <2>4. EventTyped(e) /\ e.turn \in Turns /\ n.turn \in Turns
    BY <1>4, <2>2, <2>3 DEF Completed, EventTyped, IsRevert
  <2>5. PICK head : head = (IF Notices = "atEnd" THEN <<n>> ELSE <<>>)
    OBVIOUS
  <2>6. ingestInbox' = ingestInbox \o head \o <<e>> /\ reactorInbox' = Append(reactorInbox, e)
    BY Zenon, <2>1, <2>2, <2>5
  <2>7. IsQueue(ingestInbox') /\ Events(ingestInbox') \subseteq Events(ingestInbox) \cup {n, e}
    <3>1. PICK old, new : old = ingestInbox /\ new = ingestInbox'
      OBVIOUS
    <3>2. IsQueue(old)
      BY Zenon, <1>1, <3>1
    <3>3. Joins(old, n, e, new)
      <4>1. head \in {<<>>, <<n>>}
        BY Zenon, <2>5
      <4>2. new = old \o head \o <<e>>
        BY Zenon, <2>6, <3>1
      <4> QED BY Zenon, <4>1, <4>2 DEF Joins
    <3>4. IsQueue(new) /\ Events(new) \subseteq Events(old) \cup {n, e}
      BY Zenon, <3>2, <3>3, JoinedTo
    <3> QED BY Zenon, <3>1, <3>4
  <2>8. IsQueue(reactorInbox') /\ \A f \in Events(reactorInbox') : EventTyped(f)
    BY Zenon, <1>2, <2>4, <2>6
  <2>9. \A f \in Events(ingestInbox') : f.turn \in Turns
    BY Zenon, <1>1, <2>4, <2>7
  <2>10. CheckpointsTyped(thread'.checkpoints)
    BY Zenon, <1>1, <2>3
  <2> QED BY Zenon, <2>7, <2>8, <2>9, <2>10 DEF QueuesTyped
<1>9. CASE AskRevert
  <2>1. PICK n \in Counts : reactorInbox' = Append(reactorInbox,
                              [type |-> "thread.checkpoint-revert-requested", count |-> n])
    BY <1>9 DEF AskRevert
  <2>2. PICK e : e = [type |-> "thread.checkpoint-revert-requested", count |-> n]
    OBVIOUS
  <2>3. EventTyped(e) /\ reactorInbox' = Append(reactorInbox, e)
    BY <2>1, <2>2 DEF EventTyped
  <2>4. UNCHANGED <<thread, ingestInbox>>
    BY <1>9 DEF AskRevert, ingestion
  <2> QED BY <1>1, <1>2, <2>3, <2>4 DEF QueuesTyped
<1>10. CASE IngestTake
  <2>1. /\ ingestInbox # <<>> /\ ingestInbox' = Tail(ingestInbox)
        /\ UNCHANGED <<thread, reactorInbox>>
    BY <1>10 DEF IngestTake
  <2>2. IsQueue(ingestInbox') /\ Events(ingestInbox') \subseteq Events(ingestInbox)
    BY <1>1, <2>1, TakenQueue
  <2> QED BY <1>1, <2>1, <2>2 DEF QueuesTyped
<1>11. CASE TakeTurnStart \/ TakeCompletion \/ TakePlaceholder \/ TakeRevert
  <2>1. /\ reactorInbox # <<>> /\ reactorInbox' = Tail(reactorInbox)
        /\ UNCHANGED <<thread, ingestInbox>>
    BY <1>11 DEF TakeTurnStart, TakeCompletion, TakePlaceholder, TakeRevert, Take, ingestion
  <2>2. IsQueue(reactorInbox') /\ Events(reactorInbox') \subseteq Events(reactorInbox)
    BY <1>1, <2>1, TakenQueue
  <2> QED BY <1>1, <2>1, <2>2 DEF QueuesTyped
<1>12. CASE IngestDispatch
  <2>1. UNCHANGED ingestInbox /\ ingesting.step = "dispatch"
    BY <1>12 DEF IngestDispatch
  <2>2. CASE \E s, turn : SetSessionTo(s, turn)
    <3>1. PICK s : thread' = ThreadAfter(thread, [type |-> "thread.session-set", arg |-> s])
      BY <2>2 DEF SetSessionTo
    <3>2. thread.exists = TRUE /\ {"exists", "checkpoints"} \subseteq DOMAIN thread
      BY DEF IInv, ThreadShape
    <3>3. thread'.checkpoints = thread.checkpoints
      BY <3>1, <3>2, SessionSetKeeps
    <3>4. UNCHANGED reactorInbox
      BY <2>2 DEF SetSessionTo
    <3> QED BY <1>1, <2>1, <3>3, <3>4 DEF QueuesTyped
  <2>3. CASE CompleteDiff(Checkpoint(ingesting.event.turn, PlaceholderCount, "missing", None))
    <3>1. PICK c : c = Checkpoint(ingesting.event.turn, PlaceholderCount, "missing", None)
      OBVIOUS
    <3>2. CompleteDiff(c) /\ IsCheckpoint(c)
      BY <2>1, <2>3, <3>1, PlaceholderIsCheckpoint
    <3> QED BY <1>1, <2>1, <3>2, CompleteDiffTyped DEF QueuesTyped
  <2> QED BY <1>12, <2>2, <2>3 DEF IngestDispatch
<1>13. CASE ReportCapture
  <2>1. PICK c : c = Checkpoint(reactor.turn, reactor.count, reactor.status, reactor.count)
    OBVIOUS
  <2>2. CompleteDiff(c) /\ reactor.step = "report" /\ UNCHANGED ingestInbox
    BY <1>13, <2>1 DEF ReportCapture, ingestion
  <2>3. IsCheckpoint(c)
    BY <2>1, <2>2, ReportIsCheckpoint
  <2> QED BY <1>1, <2>2, <2>3, CompleteDiffTyped DEF QueuesTyped
<1>14. CASE CompleteRevert
  <2>1. UNCHANGED <<ingestInbox, reactorInbox>>
    BY <1>14 DEF CompleteRevert, ingestion
  <2>2. thread'.checkpoints \subseteq thread.checkpoints
    BY <1>14, RevertedIsCut
  <2>3. CheckpointsTyped(thread'.checkpoints)
    BY <1>1, <2>2, CountedSubset DEF CheckpointsTyped
  <2> QED BY <1>1, <2>1, <2>3 DEF QueuesTyped
<1>15. CASE \/ IngestIgnore \/ CaptureBaseline \/ CaptureTurn \/ RestoreFiles
            \/ RollBackConversation \/ DeleteRef \/ FailReactor \/ FailIngestion
            \/ UNCHANGED vars
  <2>1. UNCHANGED <<thread, reactorInbox, ingestInbox>>
    BY <1>15 DEF IngestIgnore, CaptureBaseline, CaptureTurn, RestoreFiles,
       RollBackConversation, DeleteRef, FailReactor, FailIngestion, vars, ingestion
  <2> QED BY <1>1, <2>1 DEF QueuesTyped
<1> QED BY <1>5, <1>6, <1>7, <1>8, <1>9, <1>10, <1>11, <1>12, <1>13, <1>14, <1>15
        DEF Next, Outside, Workers

LEMMA StepTyped ==
  ASSUME IInv, Typed, [Next]_vars PROVE Typed'
BY WorkspaceStep, ProviderStep, ReactorStep, IngestingStep, QueuesStep DEF Typed

-----------------------------------------------------------------------------
(* Numbers of turns.                                                       *)
LEMMA SomeTurns ==
  ASSUME NEW S, S \subseteq Turns
  PROVE  IsFiniteSet(S) /\ Cardinality(S) \in Nat /\ Cardinality(S) <= MaxTurns
<1>1. MaxTurns \in Nat
  BY CheckpointsAssumption
<1>2. IsFiniteSet(Turns) /\ Cardinality(Turns) = MaxTurns
  <2>1. IsFiniteSet(1..MaxTurns) /\ Cardinality(1..MaxTurns) = IF 1 > MaxTurns THEN 0
                                                               ELSE MaxTurns - 1 + 1
    BY <1>1, FS_Interval
  <2> QED BY <1>1, <2>1 DEF Turns
<1>3. IsFiniteSet(S) /\ Cardinality(S) <= Cardinality(Turns)
  BY <1>2, FS_Subset
<1> QED BY <1>2, <1>3, FS_CardinalityType

LEMMA MoreTurns ==
  ASSUME NEW S, NEW T, S \subseteq T, T \subseteq Turns, NEW n \in Nat, AtMost(n, S)
  PROVE  AtMost(n, T)
<1>1. /\ IsFiniteSet(S) /\ Cardinality(S) \in Nat
      /\ IsFiniteSet(T) /\ Cardinality(T) \in Nat
  BY SomeTurns
<1>2. Cardinality(S) <= Cardinality(T)
  BY <1>1, FS_Subset
<1> QED BY <1>1, <1>2 DEF AtMost

LEMMA OneMoreTurn ==
  ASSUME NEW S, S \subseteq Turns, NEW t \in Turns, t \notin S, NEW n \in Nat, AtMost(n, S)
  PROVE  AtMost(n + 1, S \cup {t})
<1>1. IsFiniteSet(S) /\ Cardinality(S) \in Nat
  BY SomeTurns
<1>2. Cardinality(S \cup {t}) = Cardinality(S) + 1
  BY <1>1, FS_AddElement
<1> QED BY <1>1, <1>2 DEF AtMost

LEMMA TypedTurns ==
  ASSUME NEW checkpoints, CheckpointsTyped(checkpoints) PROVE TurnsOf(checkpoints) \subseteq Turns
BY DEF CheckpointsTyped, IsCheckpoint, TurnsOf

LEMMA HighestIsFew ==
  ASSUME NEW checkpoints, CheckpointsTyped(checkpoints),
         \A k \in checkpoints : AtMost(k.count, TurnsOf(checkpoints))
  PROVE  AtMost(Highest(checkpoints), TurnsOf(checkpoints))
<1>1. Highest(checkpoints) = 0 \/ \E k \in checkpoints : k.count = Highest(checkpoints)
  BY HighestCount DEF CheckpointsTyped
<1>2. Cardinality(TurnsOf(checkpoints)) \in Nat
  BY TypedTurns, SomeTurns
<1>3. AtMost(0, TurnsOf(checkpoints))
  BY <1>2 DEF AtMost
<1> QED BY <1>1, <1>3

LEMMA TurnsReplaced ==
  ASSUME NEW checkpoints, NEW c
  PROVE  TurnsOf(Replaced(checkpoints, c)) = TurnsOf(checkpoints) \cup {c.turn}
BY DEF TurnsOf, Replaced

-----------------------------------------------------------------------------
(* Who does not wait.  A step adds turns and never takes any away.         *)
LEMMA FewKept ==
  ASSUME Typed, Typed', NoRevert, FewCounts,
         TurnsOf(thread.checkpoints) \subseteq TurnsOf(thread'.checkpoints),
         \A k \in thread'.checkpoints :
           k \in thread.checkpoints \/ AtMost(k.count, TurnsOf(thread'.checkpoints)),
         \/ reactor' = reactor
         \/ /\ reactor'.step \notin Reverting
            /\ reactor'.step \in {"capture", "report"} =>
                 AtMost(reactor'.count, TurnsOf(thread'.checkpoints) \cup {reactor'.turn}),
         \A e \in Events(reactorInbox') :
           \/ e \in Events(reactorInbox)
           \/ /\ ~IsRevert(e)
              /\ e.type = "thread.turn-diff-completed" =>
                   AtMost(e.count, TurnsOf(thread'.checkpoints) \cup {e.turn}),
         ingesting'.step = "dispatch" => ingesting' = ingesting \/ ingesting'.seen = thread'
  PROVE  NoRevert' /\ FewCounts'
<1>1. PICK old, new : /\ old = TurnsOf(thread.checkpoints)
                      /\ new = TurnsOf(thread'.checkpoints)
  OBVIOUS
<1>2. CheckpointsTyped(thread.checkpoints) /\ CheckpointsTyped(thread'.checkpoints)
  BY DEF Typed
<1>3. old \subseteq new /\ new \subseteq Turns
  BY <1>1, <1>2, TypedTurns
<1>4. ASSUME NEW t \in Turns, NEW n \in Nat, AtMost(n, old \cup {t})
      PROVE  AtMost(n, new \cup {t})
  <2>1. old \cup {t} \subseteq new \cup {t} /\ new \cup {t} \subseteq Turns
    BY <1>3
  <2> QED BY <1>4, <2>1, MoreTurns
<1>5. NoRevert'
  BY DEF NoRevert
<1>6. ASSUME NEW k \in thread'.checkpoints PROVE AtMost(k.count, new)
  <2>1. CASE k \in thread.checkpoints
    <3>1. k.count \in Nat /\ AtMost(k.count, old)
      BY <1>1, <1>2, <2>1 DEF FewCounts, CheckpointsTyped, IsCheckpoint
    <3> QED BY <1>3, <3>1, MoreTurns
  <2> QED BY <1>1, <2>1
<1>7. reactor'.step \in {"capture", "report"} =>
        AtMost(reactor'.count, new \cup {reactor'.turn})
  <2>1. CASE reactor' = reactor /\ reactor.step \in {"capture", "report"}
    <3>1. reactor.turn \in Turns /\ reactor.count \in Nat
      BY <2>1 DEF Typed, ReactorTyped
    <3>2. AtMost(reactor.count, old \cup {reactor.turn})
      BY <1>1, <2>1 DEF FewCounts
    <3> QED BY <1>4, <2>1, <3>1, <3>2
  <2> QED BY <1>1, <2>1
<1>8. ASSUME NEW e \in Events(reactorInbox'), e.type = "thread.turn-diff-completed"
      PROVE  AtMost(e.count, new \cup {e.turn})
  <2>1. CASE e \in Events(reactorInbox)
    <3>1. e.turn \in Turns /\ e.count \in Nat
      BY <1>8, <2>1 DEF Typed, QueuesTyped, EventTyped
    <3>2. AtMost(e.count, old \cup {e.turn})
      BY <1>1, <1>8, <2>1 DEF FewCounts
    <3> QED BY <1>4, <3>1, <3>2
  <2> QED BY <1>1, <1>8, <2>1
<1>9. ingesting'.step = "dispatch" =>
        /\ TurnsOf(ingesting'.seen.checkpoints) \subseteq new
        /\ AtMost(Highest(ingesting'.seen.checkpoints), TurnsOf(ingesting'.seen.checkpoints))
  <2>1. CASE ingesting'.step = "dispatch" /\ ingesting' = ingesting
    BY <1>1, <1>3, <2>1 DEF FewCounts
  <2>2. CASE ingesting'.step = "dispatch" /\ ingesting'.seen = thread'
    BY <1>1, <1>2, <1>6, <2>2, HighestIsFew
  <2> QED BY <2>1, <2>2
<1> QED BY <1>1, <1>5, <1>6, <1>7, <1>8, <1>9 DEF FewCounts

(* A checkpoint is projected, counted for its turn at most.                *)
LEMMA CompleteDiffFew ==
  ASSUME IInv, Typed, Typed', NoRevert, FewCounts, NEW c, CompleteDiff(c), IsCheckpoint(c),
         AtMost(c.count, TurnsOf(thread.checkpoints) \cup {c.turn}),
         reactor' \in {reactor, Idle}, ingesting' \in {ingesting, Idle}
  PROVE  NoRevert' /\ FewCounts'
<1>1. PICK old, new, K, L : /\ old = TurnsOf(K) /\ new = TurnsOf(L)
                            /\ K = thread.checkpoints /\ L = thread'.checkpoints
  OBVIOUS
<1>2. CheckpointsTyped(K) /\ CheckpointsTyped(L)
  BY <1>1 DEF Typed
<1>3. new \subseteq Turns /\ c.turn \in Turns /\ c.count \in Nat
        /\ AtMost(c.count, old \cup {c.turn})
  BY <1>1, <1>2, TypedTurns DEF IsCheckpoint
<1>4. L = K \/ L = Replaced(K, c)
  BY <1>1, DiffReplaces
<1>5. old \subseteq new /\ (L = Replaced(K, c) => new = old \cup {c.turn})
  BY <1>1, <1>4, TurnsReplaced
<1>6. \A k \in L : k \in K \/ AtMost(k.count, new)
  <2>1. ASSUME NEW k \in Replaced(K, c) PROVE k = c \/ k \in K
    BY <2>1 DEF Replaced
  <2> QED BY <1>3, <1>4, <1>5, <2>1
<1>7. AtMost(c.count, new \cup {c.turn})
  <2>1. old \cup {c.turn} \subseteq new \cup {c.turn} /\ new \cup {c.turn} \subseteq Turns
    BY <1>3, <1>5
  <2> QED BY <1>3, <2>1, MoreTurns
<1>8. PICK e : e = [type |-> "thread.turn-diff-completed", turn |-> c.turn, count |-> c.count,
                    status |-> c.status]
  OBVIOUS
<1>9. ~IsRevert(e) /\ e.turn = c.turn /\ e.count = c.count
  BY <1>8 DEF IsRevert
<1>10. Events(reactorInbox') = Events(reactorInbox) \cup {e}
  BY <1>8, AppendedQueue DEF CompleteDiff, Typed, QueuesTyped
<1>11. \A f \in Events(reactorInbox') :
         \/ f \in Events(reactorInbox)
         \/ /\ ~IsRevert(f)
            /\ f.type = "thread.turn-diff-completed" =>
                 AtMost(f.count, TurnsOf(thread'.checkpoints) \cup {f.turn})
  BY <1>1, <1>7, <1>9, <1>10
<1>12. \/ reactor' = reactor
       \/ /\ reactor'.step \notin Reverting
          /\ reactor'.step \in {"capture", "report"} =>
               AtMost(reactor'.count, TurnsOf(thread'.checkpoints) \cup {reactor'.turn})
  BY DEF Idle, Reverting
<1>13. ingesting'.step = "dispatch" => ingesting' = ingesting \/ ingesting'.seen = thread'
  BY DEF Idle
<1>14. TurnsOf(thread.checkpoints) \subseteq TurnsOf(thread'.checkpoints)
  BY <1>1, <1>5
<1>15. \A k \in thread'.checkpoints :
         k \in thread.checkpoints \/ AtMost(k.count, TurnsOf(thread'.checkpoints))
  BY <1>1, <1>6
<1> QED BY <1>11, <1>12, <1>13, <1>14, <1>15, FewKept

-----------------------------------------------------------------------------
(* A step that changes no checkpoint and publishes no diff.                *)
LEMMA SameCheckpointsFew ==
  ASSUME Typed, Typed', NoRevert, FewCounts, thread'.checkpoints = thread.checkpoints,
         \A e \in Events(reactorInbox') :
           e \in Events(reactorInbox) \/ (~IsRevert(e) /\ e.type # "thread.turn-diff-completed"),
         \/ reactor' = reactor
         \/ /\ reactor'.step \notin Reverting
            /\ reactor'.step \in {"capture", "report"} =>
                 AtMost(reactor'.count, TurnsOf(thread.checkpoints) \cup {reactor'.turn}),
         ingesting'.step = "dispatch" => ingesting' = ingesting \/ ingesting'.seen = thread'
  PROVE  NoRevert' /\ FewCounts'
<1>1. TurnsOf(thread'.checkpoints) = TurnsOf(thread.checkpoints)
  OBVIOUS
<1>2. \/ reactor' = reactor
      \/ /\ reactor'.step \notin Reverting
         /\ reactor'.step \in {"capture", "report"} =>
              AtMost(reactor'.count, TurnsOf(thread'.checkpoints) \cup {reactor'.turn})
  BY <1>1
<1> QED BY <1>1, <1>2, FewKept

LEMMA OutsideFew ==
  ASSUME Typed, Typed', NoRevert, FewCounts, AskTurn \/ StartTurn \/ Edit \/ EndTurn
  PROVE  NoRevert' /\ FewCounts'
<1>1. UNCHANGED <<thread, reactor, ingesting>>
  BY DEF AskTurn, StartTurn, Edit, EndTurn, ingestion
<1>2. \/ reactorInbox' = reactorInbox
      \/ \E e : /\ reactorInbox' = Append(reactorInbox, e)
                /\ e.type \in {"thread.turn-start-requested", "turn.started", "turn.completed"}
  <2>1. CASE AskTurn
    <3>1. PICK e : e = Event("thread.turn-start-requested", lastTurn')
      OBVIOUS
    <3>2. reactorInbox' = Append(reactorInbox, e)
      BY <2>1, <3>1 DEF AskTurn
    <3> QED BY <3>1, <3>2 DEF Event
  <2>2. CASE StartTurn
    <3>1. PICK e : e = Event("turn.started", asked)
      OBVIOUS
    <3>2. reactorInbox' = Append(reactorInbox, e)
      BY <2>2, <3>1 DEF StartTurn
    <3> QED BY <3>1, <3>2 DEF Event
  <2>3. CASE Edit
    BY <2>3 DEF Edit
  <2>4. CASE EndTurn
    <3>1. PICK outcome : reactorInbox' = Append(reactorInbox, Completed(running, outcome))
      BY <2>4 DEF EndTurn
    <3> QED BY <3>1 DEF Completed
  <2> QED BY <2>1, <2>2, <2>3, <2>4
<1>3. \A e \in Events(reactorInbox') :
        e \in Events(reactorInbox) \/ (~IsRevert(e) /\ e.type # "thread.turn-diff-completed")
  <2>1. CASE reactorInbox' = reactorInbox
    BY <2>1
  <2>2. ASSUME NEW e, reactorInbox' = Append(reactorInbox, e),
               e.type \in {"thread.turn-start-requested", "turn.started", "turn.completed"}
        PROVE  \A f \in Events(reactorInbox') :
                 f \in Events(reactorInbox)
                   \/ (~IsRevert(f) /\ f.type # "thread.turn-diff-completed")
    <3>1. Events(reactorInbox') = Events(reactorInbox) \cup {e}
      BY <2>2, AppendedQueue DEF Typed, QueuesTyped
    <3>2. ~IsRevert(e) /\ e.type # "thread.turn-diff-completed"
      BY <2>2 DEF IsRevert
    <3> QED BY <3>1, <3>2
  <2> QED BY <1>2, <2>1, <2>2
<1> QED BY <1>1, <1>3, SameCheckpointsFew

LEMMA IngestFew ==
  ASSUME IInv, Typed, Typed', NoRevert, FewCounts, IngestTake \/ IngestDispatch \/ IngestIgnore
  PROVE  NoRevert' /\ FewCounts'
<1>1. CASE IngestTake \/ IngestIgnore
  <2>1. /\ UNCHANGED <<thread, reactor, reactorInbox>>
        /\ ingesting'.step = "dispatch" => ingesting'.seen = thread'
    BY <1>1 DEF IngestTake, IngestIgnore, Idle
  <2> QED BY <2>1, SameCheckpointsFew
<1>2. CASE IngestDispatch
  <2>1. UNCHANGED reactor /\ ingesting.step = "dispatch" /\ ingesting' = Idle
    BY <1>2 DEF IngestDispatch
  <2>2. CASE \E s, turn : SetSessionTo(s, turn)
    <3>1. PICK s : thread' = ThreadAfter(thread, [type |-> "thread.session-set", arg |-> s])
      BY <2>2 DEF SetSessionTo
    <3>2. thread.exists = TRUE /\ {"exists", "checkpoints"} \subseteq DOMAIN thread
      BY DEF IInv, ThreadShape
    <3>3. thread'.checkpoints = thread.checkpoints
      BY <3>1, <3>2, SessionSetKeeps
    <3>4. UNCHANGED reactorInbox /\ ingesting'.step # "dispatch"
      BY <2>1, <2>2 DEF SetSessionTo, Idle
    <3> QED BY <2>1, <3>3, <3>4, SameCheckpointsFew
  <2>3. ASSUME ~Tracked,
               CompleteDiff(Checkpoint(ingesting.event.turn, PlaceholderCount, "missing", None))
        PROVE  NoRevert' /\ FewCounts'
    <3>1. PICK c : c = Checkpoint(ingesting.event.turn, PlaceholderCount, "missing", None)
      OBVIOUS
    <3>2. CompleteDiff(c) /\ IsCheckpoint(c)
      BY <2>1, <2>3, <3>1, PlaceholderIsCheckpoint
    <3>3. PICK t, S, seen : /\ t = ingesting.event.turn /\ seen = ingesting.seen.checkpoints
                            /\ S = TurnsOf(seen)
      OBVIOUS
    <3>4. c.turn = t /\ c.count = Highest(seen) + 1
      BY <3>1, <3>3 DEF Checkpoint, PlaceholderCount
    <3>5. t \in Turns /\ CheckpointsTyped(seen) /\ t \notin S
      BY <2>1, <2>3, <3>3 DEF Typed, IngestingTyped, Tracked, TurnsOf
    <3>6. S \subseteq Turns /\ Highest(seen) \in Nat
      BY <3>3, <3>5, TypedTurns, HighestIsNat
    <3>7. S \subseteq TurnsOf(thread.checkpoints) /\ AtMost(Highest(seen), S)
      BY <2>1, <3>3 DEF FewCounts
    <3>8. AtMost(c.count, S \cup {t})
      BY <3>4, <3>5, <3>6, <3>7, OneMoreTurn
    <3>9. AtMost(c.count, TurnsOf(thread.checkpoints) \cup {c.turn})
      <4>1. CheckpointsTyped(thread.checkpoints)
        BY DEF Typed
      <4>2. /\ S \cup {t} \subseteq TurnsOf(thread.checkpoints) \cup {t}
            /\ TurnsOf(thread.checkpoints) \cup {t} \subseteq Turns
        BY <3>5, <3>7, <4>1, TypedTurns
      <4>3. c.count \in Nat
        BY <3>4, <3>6
      <4> QED BY <3>4, <3>8, <4>2, <4>3, MoreTurns
    <3> QED BY <2>1, <3>2, <3>9, CompleteDiffFew
  <2> QED BY <1>2, <2>2, <2>3 DEF IngestDispatch
<1> QED BY <1>1, <1>2

(* Whoever captures a completed turn that has no placeholder counts it as  *)
(* one more; the turn of a placeholder keeps its count.                    *)
LEMMA CompletionIsFew ==
  ASSUME Typed, FewCounts, NEW turn \in Turns, CapturesCompletion(turn)
  PROVE  AtMost(CompletionCount(turn), TurnsOf(thread.checkpoints) \cup {turn})
<1> DEFINE placeholders ==
             {k \in thread.checkpoints : k.turn = turn /\ k.status = "missing"}
<1>1. CompletionCount(turn) =
        IF placeholders = {} THEN Highest(thread.checkpoints) + 1
        ELSE (CHOOSE k \in placeholders : TRUE).count
  BY Zenon DEF CompletionCount
<1>2. placeholders = {} => turn \notin TurnsOf(thread.checkpoints)
  BY DEF CapturesCompletion, IsCaptured, TurnsOf
<1>3. \A k \in placeholders : k \in thread.checkpoints
  OBVIOUS
<1> HIDE DEF placeholders
<1>4. PICK K, S : K = thread.checkpoints /\ S = TurnsOf(K)
  OBVIOUS
<1>5. CheckpointsTyped(K) /\ \A k \in K : AtMost(k.count, S)
  BY <1>4 DEF Typed, FewCounts
<1>6. S \subseteq Turns /\ Highest(K) \in Nat /\ AtMost(Highest(K), S)
  BY <1>4, <1>5, TypedTurns, HighestIsNat, HighestIsFew
<1>7. CASE placeholders = {}
  BY <1>1, <1>2, <1>4, <1>6, <1>7, OneMoreTurn
<1>8. CASE placeholders # {}
  <2>1. PICK k : k = (CHOOSE j \in placeholders : TRUE)
    OBVIOUS
  <2>2. k \in placeholders
    BY <1>8, <2>1
  <2>3. k.count \in Nat /\ AtMost(k.count, S)
    BY <1>3, <1>4, <1>5, <2>2 DEF CheckpointsTyped, IsCheckpoint
  <2>4. S \subseteq S \cup {turn} /\ S \cup {turn} \subseteq Turns
    BY <1>6
  <2>5. AtMost(k.count, S \cup {turn})
    BY <2>3, <2>4, MoreTurns
  <2> QED BY <1>1, <1>4, <1>8, <2>1, <2>5
<1> QED BY <1>7, <1>8

LEMMA TakesFew ==
  ASSUME Typed, Typed', NoRevert, FewCounts,
         TakeTurnStart \/ TakeCompletion \/ TakePlaceholder \/ TakeRevert
  PROVE  NoRevert' /\ FewCounts'
<1>1. /\ reactorInbox # <<>> /\ reactorInbox' = Tail(reactorInbox)
      /\ UNCHANGED <<thread, ingesting>>
  BY DEF TakeTurnStart, TakeCompletion, TakePlaceholder, TakeRevert, Take, ingestion
<1>2. PICK e : e = Head(reactorInbox)
  OBVIOUS
<1>3. e \in Events(reactorInbox) /\ Events(reactorInbox') \subseteq Events(reactorInbox)
  BY <1>1, <1>2, TakenQueue DEF Typed, QueuesTyped
<1>4. EventTyped(e) /\ ~IsRevert(e)
  BY <1>3 DEF Typed, QueuesTyped, NoRevert
<1>5. ASSUME NEW turn, NEW count, NEW status, reactor' = Capture(turn, count, status),
             AtMost(count, TurnsOf(thread.checkpoints) \cup {turn})
      PROVE  /\ reactor'.step \notin Reverting
             /\ AtMost(reactor'.count, TurnsOf(thread.checkpoints) \cup {reactor'.turn})
  BY <1>5 DEF Capture, Reverting
<1>6. /\ reactor'.step \notin Reverting
      /\ reactor'.step \in {"capture", "report"} =>
           AtMost(reactor'.count, TurnsOf(thread.checkpoints) \cup {reactor'.turn})
  <2>1. CASE reactor' = Idle
    BY <2>1 DEF Idle, Reverting
  <2>2. CASE TakeTurnStart
    <3>1. \E n : reactor' = [step |-> "baseline", count |-> n]
      BY <2>2 DEF TakeTurnStart, Take
    <3> QED BY <3>1 DEF Reverting
  <2>3. CASE TakeCompletion /\ reactor' # Idle
    <3>1. /\ e.turn \in Turns /\ CapturesCompletion(e.turn)
          /\ reactor' = Capture(e.turn, CompletionCount(e.turn), StatusFromRuntime(e.outcome))
      BY <1>2, <1>4, <2>3 DEF TakeCompletion, Take, EventTyped
    <3>2. AtMost(CompletionCount(e.turn), TurnsOf(thread.checkpoints) \cup {e.turn})
      BY <3>1, CompletionIsFew
    <3> QED BY <1>5, <3>1, <3>2
  <2>4. CASE TakePlaceholder /\ reactor' # Idle
    <3>1. e.type = "thread.turn-diff-completed" /\ reactor' = Capture(e.turn, e.count, "ready")
      BY <1>2, <2>4 DEF TakePlaceholder, Take
    <3>2. AtMost(e.count, TurnsOf(thread.checkpoints) \cup {e.turn})
      BY <1>3, <3>1 DEF FewCounts
    <3> QED BY <1>5, <3>1, <3>2
  <2>5. ~TakeRevert
    BY <1>2, <1>4 DEF TakeRevert, IsRevert
  <2> QED BY <2>1, <2>2, <2>3, <2>4, <2>5
<1> QED BY <1>1, <1>3, <1>6, SameCheckpointsFew

LEMMA CaptureFew ==
  ASSUME IInv, Typed, Typed', NoRevert, FewCounts,
         CaptureBaseline \/ CaptureTurn \/ ReportCapture \/ UNCHANGED vars
  PROVE  NoRevert' /\ FewCounts'
<1>1. CASE CaptureBaseline \/ UNCHANGED vars
  <2>1. UNCHANGED <<thread, ingesting, reactorInbox>> /\ reactor' \in {reactor, Idle}
    BY <1>1 DEF CaptureBaseline, vars, ingestion
  <2>2. \/ reactor' = reactor
        \/ reactor'.step \notin Reverting /\ reactor'.step \notin {"capture", "report"}
    BY <2>1 DEF Idle, Reverting
  <2> QED BY <2>1, <2>2, SameCheckpointsFew
<1>2. CASE CaptureTurn
  <2>1. /\ reactor.step = "capture" /\ reactor' = [reactor EXCEPT !.step = "report"]
        /\ UNCHANGED <<thread, ingesting, reactorInbox>>
    BY <1>2 DEF CaptureTurn, ingestion
  <2>2. \/ reactor = Capture(reactor.turn, reactor.count, reactor.status)
        \/ reactor = Report(reactor.turn, reactor.count, reactor.status)
    BY <2>1 DEF IInv, ReactorShape
  <2>3. reactor' = Report(reactor.turn, reactor.count, reactor.status)
    BY <2>1, <2>2 DEF Capture, Report
  <2>4. /\ reactor'.step \notin Reverting /\ reactor'.turn = reactor.turn
        /\ reactor'.count = reactor.count
    BY <2>3 DEF Capture, Report, Reverting
  <2>5. AtMost(reactor'.count, TurnsOf(thread.checkpoints) \cup {reactor'.turn})
    BY <2>1, <2>4 DEF FewCounts
  <2> QED BY <2>1, <2>4, <2>5, SameCheckpointsFew
<1>3. CASE ReportCapture
  <2>1. PICK c : c = Checkpoint(reactor.turn, reactor.count, reactor.status, reactor.count)
    OBVIOUS
  <2>2. /\ CompleteDiff(c) /\ reactor.step = "report" /\ reactor' = Idle
        /\ ingesting' = ingesting
    BY <1>3, <2>1 DEF ReportCapture, ingestion
  <2>3. IsCheckpoint(c)
    BY <2>1, <2>2, ReportIsCheckpoint
  <2>4. c.turn = reactor.turn /\ c.count = reactor.count
    BY <2>1 DEF Checkpoint
  <2>5. AtMost(c.count, TurnsOf(thread.checkpoints) \cup {c.turn})
    BY <2>2, <2>4 DEF FewCounts
  <2> QED BY <2>2, <2>3, <2>5, CompleteDiffFew
<1> QED BY <1>1, <1>2, <1>3

-----------------------------------------------------------------------------
(* Who waits: the next count of the last turn is at most that turn.        *)
LEMMA CompleteDiffLow ==
  ASSUME IInv, Typed, OneRound, LowCounts, NEW c, CompleteDiff(c), IsCheckpoint(c),
         c.turn = lastTurn, c.count = NextCount(thread.checkpoints, lastTurn)
  PROVE  LowCounts'
<1>1. PICK K, L, t : K = thread.checkpoints /\ L = thread'.checkpoints /\ t = lastTurn
  OBVIOUS
<1>2. L = K \/ L = Replaced(K, c)
  BY <1>1, DiffReplaces
<1>3. /\ CountedInTurn(K, t) /\ c.turn = t /\ c.count = NextCount(K, t) /\ t \in Turns
      /\ \A k \in K : k.count <= k.turn
  BY <1>1 DEF OneRound, LowCounts, IsCheckpoint
<1>4. c.count <= t
  <2>1. Counted(OthersOf(K, t))
    BY <1>3, CountedSubset DEF OthersOf, CountedInTurn
  <2>2. \/ Highest(OthersOf(K, t)) = 0
        \/ \E k \in OthersOf(K, t) : k.count = Highest(OthersOf(K, t))
    BY <2>1, HighestCount
  <2>3. \A k \in OthersOf(K, t) : k.count \in Nat /\ k.count + 1 <= t
    BY <1>3 DEF OthersOf, CountedInTurn, Counted, Turns
  <2>4. Highest(OthersOf(K, t)) \in Nat /\ Highest(OthersOf(K, t)) + 1 <= t
    <3>1. 0 \in Nat /\ 0 + 1 <= t
      BY <1>3 DEF Turns
    <3> QED BY <2>2, <2>3, <3>1
  <2> QED BY <1>3, <2>4 DEF NextCount
<1>5. \A k \in L : k.count <= k.turn
  <2>1. \A k \in Replaced(K, c) : k = c \/ k \in K
    BY DEF Replaced
  <2> QED BY <1>2, <1>3, <1>4, <2>1
<1> QED BY <1>1, <1>5 DEF LowCounts

LEMMA StepLow ==
  ASSUME IInv, Typed, OneRound, LowCounts, [Next]_vars PROVE LowCounts'
<1>1. CASE thread' = thread
  BY <1>1 DEF LowCounts
<1>2. CASE IngestDispatch
  <2>1. ingesting.step = "dispatch"
    BY <1>2 DEF IngestDispatch
  <2>2. CASE \E s, turn : SetSessionTo(s, turn)
    <3>1. PICK s : thread' = ThreadAfter(thread, [type |-> "thread.session-set", arg |-> s])
      BY <2>2 DEF SetSessionTo
    <3>2. thread.exists = TRUE /\ {"exists", "checkpoints"} \subseteq DOMAIN thread
      BY DEF IInv, ThreadShape
    <3>3. thread'.checkpoints = thread.checkpoints
      BY <3>1, <3>2, SessionSetKeeps
    <3> QED BY <3>3 DEF LowCounts
  <2>3. ASSUME ~Tracked,
               CompleteDiff(Checkpoint(ingesting.event.turn, PlaceholderCount, "missing", None))
        PROVE  LowCounts'
    <3>1. PICK c : c = Checkpoint(ingesting.event.turn, PlaceholderCount, "missing", None)
      OBVIOUS
    <3>2. CompleteDiff(c) /\ IsCheckpoint(c)
      BY <2>1, <2>3, <3>1, PlaceholderIsCheckpoint
    <3>3. c.turn = lastTurn /\ c.count = NextCount(thread.checkpoints, lastTurn)
      BY <2>1, <2>3, <3>1, PlaceholderIsNext DEF Checkpoint
    <3> QED BY <3>2, <3>3, CompleteDiffLow
  <2> QED BY <1>2, <2>2, <2>3 DEF IngestDispatch
<1>3. CASE ReportCapture
  <2>1. PICK c : c = Checkpoint(reactor.turn, reactor.count, reactor.status, reactor.count)
    OBVIOUS
  <2>2. CompleteDiff(c) /\ reactor.step = "report"
    BY <1>3, <2>1 DEF ReportCapture
  <2>3. IsCheckpoint(c)
    BY <2>1, <2>2, ReportIsCheckpoint
  <2>4. c.turn = lastTurn /\ c.count = NextCount(thread.checkpoints, lastTurn)
    BY <2>1, <2>2 DEF Checkpoint, OneRound
  <2> QED BY <2>2, <2>3, <2>4, CompleteDiffLow
<1>4. CASE CompleteRevert
  BY <1>4, RevertedIsCut DEF LowCounts
<1>5. CASE ~(IngestDispatch \/ ReportCapture \/ CompleteRevert)
  <2>1. thread' = thread
    BY <1>5 DEF Next, Outside, Workers, AskTurn, StartTurn, Edit, EndTurn, AskRevert,
       IngestTake, IngestIgnore, TakeTurnStart, TakeCompletion, TakePlaceholder, TakeRevert,
       Take, CaptureBaseline, CaptureTurn, RestoreFiles, RollBackConversation, DeleteRef,
       FailReactor, FailIngestion, vars
  <2> QED BY SMTT(30), <1>1, <2>1
<1> QED BY <1>2, <1>3, <1>4, <1>5

-----------------------------------------------------------------------------
LEMMA StepKeepsCounts ==
  ASSUME IInv, RInv, Typed, Typed', CountsInv, [Next]_vars PROVE CountsInv'
<1>1. hurried' = hurried
  BY StaysAsItIs
<1>2. CASE ~hurried
  <2>1. OneRound /\ LowCounts
    BY <1>2 DEF RInv, CountsInv
  <2>2. LowCounts'
    BY <2>1, StepLow
  <2> QED BY <1>1, <1>2, <2>2 DEF CountsInv
<1>3. CASE hurried
  <2>1. NoRevert /\ FewCounts
    BY <1>3 DEF CountsInv
  <2>2. ~(AskRevert \/ FailReactor \/ FailIngestion)
    BY <1>3 DEF AskRevert, FailReactor, FailIngestion, MayFail
  <2>3. ~(RestoreFiles \/ RollBackConversation \/ DeleteRef \/ CompleteRevert)
    BY <2>1 DEF RestoreFiles, RollBackConversation, DeleteRef, CompleteRevert, NoRevert,
       Reverting
  <2>4. CASE AskTurn \/ StartTurn \/ Edit \/ EndTurn
    BY <1>1, <1>3, <2>1, <2>4, OutsideFew DEF CountsInv
  <2>5. CASE IngestTake \/ IngestDispatch \/ IngestIgnore
    BY <1>1, <1>3, <2>1, <2>5, IngestFew DEF CountsInv
  <2>6. CASE TakeTurnStart \/ TakeCompletion \/ TakePlaceholder \/ TakeRevert
    BY <1>1, <1>3, <2>1, <2>6, TakesFew DEF CountsInv
  <2>7. CASE CaptureBaseline \/ CaptureTurn \/ ReportCapture \/ UNCHANGED vars
    BY <1>1, <1>3, <2>1, <2>7, CaptureFew DEF CountsInv
  <2> QED BY <2>2, <2>3, <2>4, <2>5, <2>6, <2>7 DEF Next, Outside, Workers
<1> QED BY <1>2, <1>3

LEMMA InitTyped == Init => Typed /\ CountsInv
<1> SUFFICES ASSUME Init PROVE Typed /\ CountsInv
  OBVIOUS
<1>1. /\ files = {} /\ made = {} /\ torn = FALSE /\ running = None /\ asked = None
      /\ conversation = <<>> /\ lastTurn = 0 /\ reactorInbox = <<>> /\ ingestInbox = <<>>
      /\ reactor.step = "idle" /\ ingesting.step = "idle"
  BY DEF Init, Idle
<1>2. thread.checkpoints = {}
  BY DEF Init, NewThread
<1>3. CheckpointsTyped(thread.checkpoints)
  BY <1>2 DEF CheckpointsTyped, Counted
<1>4. WorkspaceTyped
  BY <1>1 DEF Init, WorkspaceTyped
<1>5. ProviderTyped
  <2>1. 0 \in 0..MaxTurns
    BY CheckpointsAssumption
  <2> QED BY <1>1, <2>1 DEF ProviderTyped
<1>6. Events(reactorInbox) = {} /\ QueuesTyped
  BY <1>1, EmptyQueue DEF QueuesTyped
<1>7. ReactorTyped /\ IngestingTyped
  BY <1>1 DEF ReactorTyped, IngestingTyped, Reverting
<1>8. NoRevert /\ FewCounts /\ LowCounts
  BY <1>1, <1>2, <1>6 DEF NoRevert, FewCounts, LowCounts, Reverting
<1>9. CountsInv
  BY <1>8 DEF CountsInv
<1> QED BY <1>3, <1>4, <1>5, <1>6, <1>7, <1>9 DEF Typed

LEMMA TypedCounts ==
  ASSUME Typed, CountsInv PROVE TypeOK
<1>1. ASSUME NEW k \in thread.checkpoints
      PROVE  k \in [turn: Turns, count: Counts \ {0}, status: {"ready", "missing", "error"},
                    ref: Counts \cup {None}]
  <2>1. IsCheckpoint(k) /\ CheckpointsTyped(thread.checkpoints)
    BY <1>1 DEF Typed, CheckpointsTyped
  <2>2. k.count <= MaxTurns
    <3>1. CASE hurried
      <4>1. AtMost(k.count, TurnsOf(thread.checkpoints))
        BY <1>1, <3>1 DEF CountsInv, FewCounts
      <4>2. /\ Cardinality(TurnsOf(thread.checkpoints)) \in Nat
            /\ Cardinality(TurnsOf(thread.checkpoints)) <= MaxTurns
        BY <2>1, TypedTurns, SomeTurns
      <4> QED BY <2>1, <4>1, <4>2, CheckpointsAssumption DEF AtMost, IsCheckpoint
    <3>2. CASE ~hurried
      <4>1. k.count <= k.turn
        BY <1>1, <3>2 DEF CountsInv, LowCounts
      <4> QED BY <2>1, <4>1, CheckpointsAssumption DEF IsCheckpoint, Turns
    <3> QED BY <3>1, <3>2
  <2>3. k.count \in Counts \ {0}
    BY <2>1, <2>2, CheckpointsAssumption DEF IsCheckpoint, Counts
  <2> QED BY <2>1, <2>3 DEF IsCheckpoint, Checkpoint, Statuses
<1>2. reactor.step \in {"idle", "baseline", "capture", "report", "restore", "rollback",
                        "delete", "deleting"}
  BY DEF Typed, ReactorTyped, Reverting
<1>3. ingesting.step \in {"idle", "dispatch"}
  BY DEF Typed, IngestingTyped
<1>4. WorkspaceTyped /\ ProviderTyped
  BY DEF Typed
<1>5. thread.checkpoints \subseteq
        [turn: Turns, count: Counts \ {0}, status: {"ready", "missing", "error"},
         ref: Counts \cup {None}]
  BY Zenon, <1>1
<1>6. /\ files \subseteq Edits /\ made \subseteq Edits /\ torn \in BOOLEAN
      /\ refs \in [Counts -> (SUBSET Edits) \cup {None}]
      /\ filesAfter \in [Turns -> (SUBSET Edits) \cup {None}]
  BY Zenon, <1>4 DEF WorkspaceTyped, Workspaces
<1>7. /\ running \in Turns \cup {None} /\ asked \in Turns \cup {None} /\ lastTurn \in 0..MaxTurns
      /\ conversation \in Seq(Turns)
  BY Zenon, <1>4 DEF ProviderTyped
<1> QED BY Zenon, <1>2, <1>3, <1>5, <1>6, <1>7 DEF TypeOK

(* Every variable has its type, whether the user waits or not: in any mix  *)
(* of placeholders, captures, reverts and failures no turn count exceeds   *)
(* the number of turns asked for.                                          *)
THEOREM TypeCorrect == Spec => []TypeOK
<1>1. ASSUME IInv, RInv, Typed, CountsInv, [Next]_vars
      PROVE  IInv' /\ RInv' /\ Typed' /\ CountsInv'
  <2>1. IInv' /\ RInv' /\ Typed'
    BY <1>1, StepKeeps, StepCounts, StepTyped
  <2> QED BY <1>1, <2>1, StepKeepsCounts
<1> QED BY <1>1, InitHolds, InitCounts, InitTyped, TypedCounts, PTL DEF Spec
=============================================================================
