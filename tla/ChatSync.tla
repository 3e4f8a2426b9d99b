------------------------------- MODULE ChatSync --------------------------------
(***************************************************************************)
(* One chat followed by one viewer: the engine's log of the thread, the    *)
(* server's subscription (snapshot, replay, live events) and the cached    *)
(* view of the web client, over a connection that breaks and a server      *)
(* that restarts.                                                          *)
(*                                                                         *)
(* An event is its stream version; its kind says what it touches:          *)
(*   "message"  rows of messages, and the version kept on the thread row;  *)
(*   "session"  other rows, and the version kept on the thread row;        *)
(*   "quiet"    other rows only (turn start, interrupt, session stop and   *)
(*              revert requests leave the thread row alone).               *)
(* A view is how often each event was applied to it.                       *)
(*                                                                         *)
(* Sources: server/src/mesh (ChatSubscriptionManager, MeshPublisher,       *)
(* meshWsHandlers), ProjectionSnapshotQuery, OrchestrationEventStore;      *)
(* web/src/mesh/gapDetection, environments/runtime/service,                *)
(* rpc/wsTransport.                                                        *)
(***************************************************************************)
EXTENDS Naturals, Sequences, FiniteSets

CONSTANTS
  Kinds,          \* of the events after the first: "message", "session", "quiet"
  ReplayLimits,   \* limits on the number of events of a replay (1000 in the code)
  PageSize,       \* events per query of a replay (500 in the code)
  MaxVersions, MaxTroubles   \* bounds

ASSUME LimitsAssumption ==
  /\ Kinds \subseteq {"session", "message", "quiet"}
  /\ ReplayLimits \subseteq Nat /\ PageSize \in Nat \ {0} /\ MaxVersions \in Nat

Versions == 1..MaxVersions

VARIABLES
  replayLimit,   \* chosen once
  log,           \* kinds of the committed events of the thread
  rowVersion,    \* the version the projection keeps on the thread row
  published,     \* versions up to here were forwarded to the subscriptions
  sub,           \* the server's end of the subscription
  wire,          \* items on their way to the client
  client,        \* the cached entry of the client
  view,          \* the thread in the client's store: version |-> times applied
  troubles       \* bounded counter: losses, crashes, disposals, errors

vars == <<replayLimit, log, rowVersion, published, sub, wire, client, view, troubles>>

NoSub == [step |-> "none"]
Larger(m, n) == IF m >= n THEN m ELSE n
Smaller(m, n) == IF m <= n THEN m ELSE n

Init ==
  /\ replayLimit \in ReplayLimits
  /\ log = <<>> /\ rowVersion = 0 /\ published = 0 /\ sub = NoSub /\ wire = <<>>
  /\ client = [status |-> "none", cursor |-> 0, from |-> 0]
  /\ view = [v \in Versions |-> 0]
  /\ troubles = 0

-----------------------------------------------------------------------------
(* The engine commits an event with its projection, then publishes it.     *)
Commit ==
  /\ Len(log) < MaxVersions
  /\ \E kind \in IF log = <<>> THEN {"session"} ELSE Kinds :
       /\ log' = Append(log, kind)
       /\ rowVersion' = IF kind = "quiet" THEN rowVersion ELSE Len(log')
  /\ UNCHANGED <<replayLimit, published, sub, wire, client, view, troubles>>

(* Fault: the subscription hears nothing until its replay is over.         *)
Listening == sub.step \in {"replay", "live"}
HearsOnceLive == sub.step = "live" /\ sub.attached
Hears == Listening /\ sub.attached

(* The fiber that copies the channel of the thread to the subscription is  *)
(* forked when the stream is opened: it is scheduled before any forwarding *)
(* of an event committed later.                                            *)
Publish ==
  /\ published < Len(log)
  /\ Listening /\ ~sub.attached => published < sub.opened
  /\ published' = published + 1
  /\ sub' = IF Hears
            THEN [sub EXCEPT !.outbox = Append(@, published + 1)] ELSE sub
  /\ UNCHANGED <<replayLimit, log, rowVersion, wire, client, view, troubles>>

-----------------------------------------------------------------------------
(* The server's end.  Faults: the version of the snapshot is read last, or *)
(* is that of the next event; the snapshot leaves out what the thread row  *)
(* does not count.                                                         *)
SnapshotVersionReadLast(row) == rowVersion
SnapshotVersionNext(row) == row + 1
DetailUpToRow(row) == row

SnapshotVersion(row) == row
Detail(row) == Len(log)
IsNews(version, cursor) == version > cursor

(* subscribeChat: getThreadMeshSnapshot reads the thread row, then the     *)
(* messages, then the rest, each in a query of its own.                    *)
Asked(from) == [step |-> "row", from |-> from]

ReadRow ==
  /\ sub.step = "row"
  /\ sub' = [step |-> "messages", from |-> sub.from, row |-> rowVersion]
  /\ UNCHANGED <<replayLimit, log, rowVersion, published, wire, client, view, troubles>>

ReadMessages ==
  /\ sub.step = "messages"
  /\ sub' = [step |-> "rest", from |-> sub.from, row |-> sub.row,
             messages |-> Detail(sub.row)]
  /\ UNCHANGED <<replayLimit, log, rowVersion, published, wire, client, view, troubles>>

Applied(messages, rest) ==
  [v \in Versions |->
    IF v <= Len(log) /\ v <= IF log[v] = "message" THEN messages ELSE rest THEN 1 ELSE 0]

SendSnapshot ==
  LET version == SnapshotVersion(sub.row) IN
  /\ sub.step = "rest"
  /\ wire' = Append(wire, [kind |-> "snapshot", version |-> version,
                           thread |-> Applied(sub.messages, Detail(sub.row))])
  /\ sub' = [step |-> "open", cursor |-> Larger(sub.from, version)]
  /\ UNCHANGED <<replayLimit, log, rowVersion, published, client, view, troubles>>

(* subscribeThread, run when the snapshot is sent.                         *)
Open ==
  /\ sub.step = "open"
  /\ sub' = [step |-> "replay", cursor |-> sub.cursor, remaining |-> replayLimit,
             attached |-> FALSE, opened |-> Len(log), outbox |-> <<>>]
  /\ UNCHANGED <<replayLimit, log, rowVersion, published, wire, client, view, troubles>>

Attach ==
  /\ Listening /\ ~sub.attached
  /\ sub' = [sub EXCEPT !.attached = TRUE]
  /\ UNCHANGED <<replayLimit, log, rowVersion, published, wire, client, view, troubles>>

Event(v) == [kind |-> "event", version |-> v]

(* One query of readThreadStream, and its events; an empty one is the last. *)
ReplayPage ==
  LET size == Smaller(Smaller(sub.remaining, PageSize), Len(log) - sub.cursor) IN
  /\ sub.step = "replay" /\ sub.remaining > 0
  /\ wire' = wire \o [i \in 1..size |-> Event(sub.cursor + i)]
  /\ sub' = [sub EXCEPT !.cursor = @ + size, !.remaining = IF size = 0 THEN 0 ELSE @ - size]
  /\ UNCHANGED <<replayLimit, log, rowVersion, published, client, view, troubles>>

ReplayEnds ==
  /\ sub.step = "replay" /\ sub.remaining = 0
  /\ sub' = [sub EXCEPT !.step = "live"]
  /\ UNCHANGED <<replayLimit, log, rowVersion, published, wire, client, view, troubles>>

Deliver ==
  LET v == Head(sub.outbox) IN
  /\ sub.step = "live" /\ sub.outbox # <<>>
  /\ IF IsNews(v, sub.cursor)
     THEN wire' = Append(wire, Event(v)) /\ sub' = [sub EXCEPT !.outbox = Tail(@), !.cursor = v]
     ELSE sub' = [sub EXCEPT !.outbox = Tail(@)] /\ UNCHANGED wire
  /\ UNCHANGED <<replayLimit, log, rowVersion, published, client, view, troubles>>

Trouble == troubles < MaxTroubles /\ troubles' = troubles + 1

(* A query fails, or the thread is gone: the stream ends with an error.    *)
Refuse ==
  /\ Trouble
  /\ sub.step \in {"row", "messages", "rest", "replay"}
  /\ sub' = NoSub /\ wire' = Append(wire, [kind |-> "failure"])
  /\ UNCHANGED <<replayLimit, log, rowVersion, published, client, view>>

-----------------------------------------------------------------------------
(* The client (applyMeshGapDetection).                                     *)
Decide(cursor, version) ==
  IF version <= cursor THEN "ignore"
  ELSE IF version # cursor + 1 THEN "resubscribe" ELSE "apply"

Receive ==
  LET item == Head(wire) IN
  /\ client.status = "open" /\ wire # <<>>
  /\ \/ /\ item.kind = "snapshot"
        /\ client' = [client EXCEPT !.cursor = Larger(@, item.version)]
        /\ view' = item.thread /\ wire' = Tail(wire) /\ UNCHANGED sub
     \/ /\ item.kind = "event" /\ Decide(client.cursor, item.version) = "apply"
        /\ client' = [client EXCEPT !.cursor = item.version]
        /\ view' = [view EXCEPT ![item.version] = @ + 1]
        /\ wire' = Tail(wire) /\ UNCHANGED sub
     \/ /\ item.kind = "event" /\ Decide(client.cursor, item.version) = "ignore"
        /\ wire' = Tail(wire) /\ UNCHANGED <<sub, client, view>>
     \/ /\ item.kind = "event" /\ Decide(client.cursor, item.version) = "resubscribe"
        /\ client' = [client EXCEPT !.status = "restart"]
        /\ sub' = NoSub /\ wire' = <<>> /\ UNCHANGED view
     \/ /\ item.kind = "failure"
        /\ client' = [client EXCEPT !.status = "dead"]
        /\ wire' = Tail(wire) /\ UNCHANGED <<sub, view>>
  /\ UNCHANGED <<replayLimit, log, rowVersion, published, troubles>>

(* attachThreadDetailSubscription, from the cursor of the entry.           *)
Subscribe(cursor) ==
  /\ client' = [status |-> "open", cursor |-> cursor, from |-> cursor]
  /\ sub' = Asked(cursor) /\ wire' = <<>>

Retain ==
  /\ log # <<>> /\ client.status = "none" /\ Subscribe(0)
  /\ UNCHANGED <<replayLimit, log, rowVersion, published, view, troubles>>

Restart ==
  /\ client.status = "restart" /\ Subscribe(client.cursor)
  /\ UNCHANGED <<replayLimit, log, rowVersion, published, view, troubles>>

(* The transport subscribes again with the request it was given first.     *)
Reconnect ==
  /\ client.status = "down"
  /\ client' = [client EXCEPT !.status = "open"]
  /\ sub' = Asked(client.from)
  /\ UNCHANGED <<replayLimit, log, rowVersion, published, wire, view, troubles>>

Dispose ==
  /\ Trouble
  /\ client.status # "none"
  /\ client' = [client EXCEPT !.status = "none"] /\ sub' = NoSub /\ wire' = <<>>
  /\ UNCHANGED <<replayLimit, log, rowVersion, published, view>>

Disconnected ==
  /\ client' = IF client.status = "open" THEN [client EXCEPT !.status = "down"] ELSE client
  /\ sub' = NoSub /\ wire' = <<>>

Drop ==
  /\ Trouble
  /\ client.status = "open" /\ Disconnected
  /\ UNCHANGED <<replayLimit, log, rowVersion, published, view>>

(* The server restarts: what it had not forwarded is never forwarded.      *)
Crash ==
  /\ Trouble
  /\ Disconnected /\ published' = Len(log)
  /\ UNCHANGED <<replayLimit, log, rowVersion, view>>

-----------------------------------------------------------------------------
ServerStep ==
  Publish \/ ReadRow \/ ReadMessages \/ SendSnapshot \/ Open \/ Attach \/ ReplayPage
  \/ ReplayEnds \/ Deliver
ClientStep == Receive \/ Restart \/ Reconnect

Next ==
  \/ Commit \/ ServerStep \/ Refuse
  \/ ClientStep \/ Retain \/ Dispose \/ Drop \/ Crash

Spec == Init /\ [][Next]_vars

(* Fibers run, sockets deliver or break, and the retry loop never gives up. *)
FairSpec ==
  /\ Spec /\ WF_vars(Receive) /\ WF_vars(Restart) /\ WF_vars(Reconnect)
  /\ WF_vars(Publish) /\ WF_vars(ReadRow) /\ WF_vars(ReadMessages) /\ WF_vars(SendSnapshot)
  /\ WF_vars(Open) /\ WF_vars(Attach) /\ WF_vars(ReplayPage) /\ WF_vars(ReplayEnds)
  /\ WF_vars(Deliver)

-----------------------------------------------------------------------------
(* Type correctness.                                                       *)
Items ==
  [kind : {"snapshot"}, version : 0..MaxVersions, thread : [Versions -> 0..1]]
  \cup [kind : {"event"}, version : Versions] \cup [kind : {"failure"}]

Subs ==
  {NoSub} \cup [step : {"row"}, from : 0..MaxVersions]
  \cup [step : {"messages"}, from : 0..MaxVersions, row : 0..MaxVersions]
  \cup [step : {"rest"}, from : 0..MaxVersions, row : 0..MaxVersions,
        messages : 0..MaxVersions]
  \cup [step : {"open"}, cursor : 0..MaxVersions]
  \cup [step : {"replay", "live"}, cursor : 0..MaxVersions, remaining : Nat,
        attached : BOOLEAN, opened : 0..MaxVersions, outbox : Seq(Versions)]

TypeOK ==
  /\ replayLimit \in ReplayLimits /\ log \in Seq(Kinds \cup {"session"}) /\ Len(log) <= MaxVersions
  /\ published \in 0..Len(log) /\ rowVersion \in 0..Len(log) /\ sub \in Subs /\ wire \in Seq(Items)
  /\ client \in [status : {"none", "open", "down", "restart", "dead"},
                 cursor : 0..MaxVersions, from : 0..MaxVersions]
  /\ view \in [Versions -> Nat]

(* What the client believes it has, it has: every event up to its cursor   *)
(* is in the thread it shows, whatever was torn, lost or retried.          *)
NothingMissing == \A v \in 1..client.cursor : view[v] > 0

(* A snapshot never takes back an event that the view shows.               *)
ViewNeverLoses == [][\A v \in Versions : view[v] > 0 => view'[v] > 0]_view

(* A client that keeps its subscription and meets no error shows, in the   *)
(* end, everything: reconnections and restarts lose nothing for good.  The *)
(* log stops growing, so this says that the last event arrives.            *)
CaughtUp == client.cursor = Len(log) /\ \A v \in 1..Len(log) : view[v] > 0
CatchesUp ==
  replayLimit >= MaxVersions => <>[](client.status \in {"none", "dead"} \/ CaughtUp)

(* V3_CODE_SPEC.md 5.3: "If same (chat_id, seq) arrives twice (reconnect   *)
(* edge cases), second is discarded": no message is applied twice.         *)
AppliedOnce == \A v \in 1..Len(log) : log[v] = "message" => view[v] <= 1
=============================================================================
