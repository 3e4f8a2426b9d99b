---------------------------- MODULE ChatSyncProofs -----------------------------
(***************************************************************************)
(* The client of a chat subscription misses nothing up to its cursor,      *)
(* whatever the number of events, reconnections, restarts and errors.      *)
(***************************************************************************)
EXTENDS ChatSync, TLAPS

Reading == sub.step \in {"row", "messages", "rest"}

(* A thread that a snapshot carries holds all events the client has or     *)
(* shows, all up to the version it claims, and none that is not in the log. *)
Covers(thread, version) ==
  \A v \in Versions :
    /\ v <= version \/ v <= client.cursor \/ view[v] > 0 => thread[v] = 1
    /\ thread[v] > 0 => v <= Len(log)

(* The strengthening: what is read is not older than what was read before, *)
(* a snapshot is the first item of its connection, and nobody has or is    *)
(* sent an event that is not in the log.                                   *)
SubInv ==
  /\ sub.step = "messages" => sub.row <= Len(log)
  /\ sub.step = "rest" => /\ sub.row <= sub.messages /\ sub.messages <= Len(log)
                          /\ client.cursor <= sub.messages
                          /\ \A v \in Versions : view[v] > 0 => v <= sub.messages
  /\ Listening => \A i \in 1..Len(sub.outbox) : sub.outbox[i] <= Len(log)
  /\ Reading => sub.from <= Len(log)
  /\ Listening \/ sub.step = "open" => sub.cursor <= Len(log)

WireInv ==
  /\ Reading => wire = <<>>
  /\ client.status = "down" => sub = NoSub /\ wire = <<>>
  /\ \A i \in 1..Len(wire) :
       /\ wire[i].kind = "snapshot" =>
            i = 1 /\ wire[i].version <= Len(log) /\ Covers(wire[i].thread, wire[i].version)
       /\ wire[i].kind = "event" => wire[i].version <= Len(log)

ShownIsLogged == \A v \in Versions : view[v] > 0 => v <= Len(log)

IInv ==
  /\ TypeOK /\ SubInv /\ WireInv /\ NothingMissing /\ ShownIsLogged
  /\ client.cursor <= Len(log) /\ client.from <= Len(log)

-----------------------------------------------------------------------------
(* What the records of the two unions hold, and which records are in them. *)
ListeningSubs ==
  [step : {"replay", "live"}, cursor : 0..MaxVersions, remaining : Nat,
   attached : BOOLEAN, opened : 0..MaxVersions, outbox : Seq(Versions)]

LEMMA SubFields ==
  ASSUME NEW s \in Subs
  PROVE  /\ s.step \in {"none", "row", "messages", "rest", "open", "replay", "live"}
         /\ s.step = "none" => s = NoSub
         /\ s.step \in {"row", "messages", "rest"} => s.from \in 0..MaxVersions
         /\ s.step \in {"messages", "rest"} => s.row \in 0..MaxVersions
         /\ s.step = "rest" => s.messages \in 0..MaxVersions
         /\ s.step = "open" => s.cursor \in 0..MaxVersions
         /\ s.step \in {"replay", "live"} => s \in ListeningSubs
BY DEF Subs, NoSub, ListeningSubs

LEMMA SubsHold ==
  ASSUME NEW m \in 0..MaxVersions, NEW n \in 0..MaxVersions, NEW k \in 0..MaxVersions
  PROVE  /\ [step |-> "row", from |-> m] \in Subs
         /\ [step |-> "messages", from |-> m, row |-> n] \in Subs
         /\ [step |-> "rest", from |-> m, row |-> n, messages |-> k] \in Subs
         /\ [step |-> "open", cursor |-> m] \in Subs
BY DEF Subs

LEMMA SubsInclude == NoSub \in Subs /\ ListeningSubs \subseteq Subs
BY DEF Subs, ListeningSubs

LEMMA ItemFields ==
  ASSUME NEW item \in Items
  PROVE  /\ item.kind \in {"snapshot", "event", "failure"}
         /\ item.kind = "snapshot" =>
              item.version \in 0..MaxVersions /\ item.thread \in [Versions -> 0..1]
         /\ item.kind = "event" => item.version \in Versions
BY DEF Items

LEMMA Typed ==
  ASSUME TypeOK
  PROVE  /\ log \in Seq(Kinds \cup {"session"})
         /\ Len(log) \in 0..MaxVersions /\ MaxVersions \in Nat
         /\ client.cursor \in 0..MaxVersions /\ client.from \in 0..MaxVersions
         /\ wire \in Seq(Items) /\ Len(wire) \in Nat
         /\ Listening => /\ sub.cursor \in 0..MaxVersions /\ sub.remaining \in Nat
                         /\ sub.outbox \in Seq(Versions)
                         /\ \A i \in 1..Len(sub.outbox) : sub.outbox[i] \in Nat
         /\ \A i \in 1..Len(wire) :
              wire[i].kind \in {"snapshot", "event"} => wire[i].version \in Nat
<1>1. /\ log \in Seq(Kinds \cup {"session"}) /\ Len(log) \in 0..MaxVersions /\ MaxVersions \in Nat
      /\ client.cursor \in 0..MaxVersions /\ client.from \in 0..MaxVersions
      /\ wire \in Seq(Items) /\ Len(wire) \in Nat
  BY LimitsAssumption DEF TypeOK
<1>2. ASSUME Listening
      PROVE  /\ sub.cursor \in 0..MaxVersions /\ sub.remaining \in Nat
             /\ sub.outbox \in Seq(Versions)
             /\ \A i \in 1..Len(sub.outbox) : sub.outbox[i] \in Nat
  <2>1. sub \in ListeningSubs
    BY <1>2, SubFields DEF TypeOK, Listening
  <2>2. sub.outbox \in Seq(Versions)
    BY <2>1 DEF ListeningSubs
  <2>3. \A i \in 1..Len(sub.outbox) : sub.outbox[i] \in Nat
    BY <2>2, LimitsAssumption DEF Versions
  <2> QED
    BY <2>1, <2>2, <2>3 DEF ListeningSubs
<1>3. ASSUME NEW i \in 1..Len(wire)
      PROVE  wire[i].kind \in {"snapshot", "event"} => wire[i].version \in Nat
  <2>1. wire[i] \in Items
    BY <1>1
  <2> QED
    BY <2>1, ItemFields, LimitsAssumption DEF Versions
<1> QED
  BY <1>1, <1>2, <1>3

LEMMA ItemsHold ==
  /\ \A v \in 0..MaxVersions : \A thread \in [Versions -> 0..1] :
       [kind |-> "snapshot", version |-> v, thread |-> thread] \in Items
  /\ \A v \in Versions : Event(v) \in Items
  /\ [kind |-> "failure"] \in Items
BY DEF Items, Event

-----------------------------------------------------------------------------
LEMMA InitIInv == Init => IInv
<1> SUFFICES ASSUME Init PROVE IInv
  OBVIOUS
<1>1. TypeOK
  <2>1. NoSub \in Subs
    BY DEF Subs
  <2> QED
    BY <2>1, LimitsAssumption DEF Init, TypeOK, Versions
<1> QED
  BY <1>1 DEF Init, IInv, SubInv, WireInv, NothingMissing, ShownIsLogged, NoSub, Listening, Reading

LEMMA CommitKeeps == IInv /\ Commit => IInv'
<1> SUFFICES ASSUME IInv, Commit PROVE IInv'
  OBVIOUS
<1>1. PICK kind \in Kinds \cup {"session"} : log' = Append(log, kind)
                            /\ rowVersion' = IF kind = "quiet" THEN rowVersion ELSE Len(log')
  BY LimitsAssumption DEF Commit
<1>2. /\ Len(log) \in Nat /\ Len(log') = Len(log) + 1
      /\ Len(log') <= MaxVersions /\ log' \in Seq(Kinds \cup {"session"})
  BY <1>1, LimitsAssumption DEF IInv, TypeOK, Commit
<1>3. UNCHANGED <<replayLimit, published, sub, wire, client, view>>
  BY DEF Commit
<1>4. TypeOK'
  BY <1>1, <1>2, <1>3 DEF IInv, TypeOK
<1>5. SubInv'
  <2>1. (sub.step \in {"messages", "rest"} => sub.row \in Nat)
        /\ (sub.step = "rest" => sub.messages \in Nat)
        /\ (Reading => sub.from \in Nat) /\ (Listening \/ sub.step = "open" => sub.cursor \in Nat)
    BY Typed, SubFields DEF IInv, TypeOK, Reading
  <2>2. Listening' => \A i \in 1..Len(sub'.outbox) : sub'.outbox[i] <= Len(log')
    <3> SUFFICES ASSUME Listening, NEW i \in 1..Len(sub.outbox)
                 PROVE  sub.outbox[i] <= Len(log')
      BY <1>3 DEF Listening
    <3>1. sub.outbox[i] \in Nat /\ sub.outbox[i] <= Len(log)
      BY Typed DEF IInv, SubInv
    <3> QED
      BY <1>2, <3>1
  <2>3. (sub.step = "rest" => \A v \in Versions : view[v] > 0 => v <= sub.messages)'
    BY <1>3 DEF IInv, SubInv
  <2> QED
    BY <1>2, <1>3, <2>1, <2>2, <2>3 DEF IInv, SubInv, Reading, Listening
<1>6. ASSUME NEW n \in Nat, n <= Len(log) PROVE n <= Len(log')
  BY <1>2, <1>6
<1>7. WireInv'
  <2>1. ASSUME NEW i \in 1..Len(wire), wire[i].kind = "snapshot"
        PROVE  Covers(wire[i].thread, wire[i].version)'
    <3>1. Covers(wire[i].thread, wire[i].version)
      BY <2>1 DEF IInv, WireInv
    <3> QED
      BY <1>3, <1>6, <3>1, LimitsAssumption DEF Covers, Versions
  <2>2. ASSUME NEW i \in 1..Len(wire), wire[i].kind \in {"snapshot", "event"}
        PROVE  wire[i].version <= Len(log')
    BY <1>6, <2>2, Typed DEF IInv, WireInv
  <2> QED
    BY <1>3, <2>1, <2>2 DEF IInv, WireInv, Reading
<1>8. ShownIsLogged'
  BY <1>3, <1>6, LimitsAssumption DEF IInv, ShownIsLogged, Versions
<1> QED
  BY <1>3, <1>4, <1>5, <1>6, <1>7, <1>8, Typed DEF IInv, NothingMissing

LEMMA PublishKeeps == IInv /\ Publish => IInv'
<1> SUFFICES ASSUME IInv, Publish PROVE IInv'
  OBVIOUS
<1>1. UNCHANGED <<replayLimit, log, rowVersion, wire, client, view>>
  BY DEF Publish
<1>2. published' = published + 1 /\ published' \in 1..Len(log) /\ published' \in Versions
  BY Typed DEF IInv, TypeOK, Publish, Versions
<1>3. CASE Hears
  <2>1. sub \in ListeningSubs
    BY <1>3, SubFields DEF IInv, TypeOK, Hears, Listening
  <2>2. sub' = [sub EXCEPT !.outbox = Append(@, published')]
    BY <1>2, <1>3 DEF Publish
  <2>3. sub' \in ListeningSubs /\ sub'.outbox = Append(sub.outbox, published')
        /\ sub'.step = sub.step /\ sub'.cursor = sub.cursor
    <3>1. sub.outbox \in Seq(Versions) /\ Append(sub.outbox, published') \in Seq(Versions)
      BY <1>2, <2>1 DEF ListeningSubs
    <3> QED
      BY <2>1, <2>2, <3>1 DEF ListeningSubs
  <2>4. TypeOK'
    BY <1>1, <1>2, <2>3, SubsInclude DEF IInv, TypeOK
  <2>5. \A i \in 1..Len(sub'.outbox) : sub'.outbox[i] <= Len(log)
    <3>1. sub.outbox \in Seq(Versions) /\ \A i \in 1..Len(sub.outbox) : sub.outbox[i] <= Len(log)
      BY <1>3, Typed DEF IInv, SubInv, Hears
    <3> QED
      BY <1>2, <2>3, <3>1, Typed DEF IInv
  <2>6. SubInv'
    BY <1>1, <1>3, <2>3, <2>5 DEF IInv, SubInv, Reading, Hears, Listening
  <2>7. WireInv'
    BY <1>1, <1>3, <2>3 DEF IInv, WireInv, Covers, Reading, Hears, Listening, NoSub
  <2> QED
    BY <1>1, <2>4, <2>6, <2>7 DEF IInv, NothingMissing, ShownIsLogged
<1>4. CASE ~Hears
  <2>1. sub' = sub
    BY <1>4 DEF Publish
  <2>2. TypeOK'
    BY <1>1, <1>2, <2>1 DEF IInv, TypeOK
  <2>3. SubInv' /\ WireInv'
    BY <1>1, <2>1 DEF IInv, SubInv, WireInv, Covers, Reading, Listening
  <2> QED
    BY <1>1, <2>2, <2>3 DEF IInv, NothingMissing, ShownIsLogged
<1> QED
  BY <1>3, <1>4

-----------------------------------------------------------------------------
(* Steps that only change the server's end: it stays a record of Subs.     *)
LEMMA ServersEndKeeps ==
  ASSUME IInv, UNCHANGED <<replayLimit, log, rowVersion, published, wire, client, view>>,
         sub' \in Subs, SubInv', Reading' => Reading, sub.step # "none"
  PROVE  IInv'
<1>1. TypeOK'
  BY DEF IInv, TypeOK
<1>2. WireInv'
  BY DEF IInv, WireInv, Covers, NoSub
<1> QED
  BY <1>1, <1>2 DEF IInv, NothingMissing, ShownIsLogged

LEMMA ReadRowKeeps == IInv /\ ReadRow => IInv'
<1> SUFFICES ASSUME IInv, ReadRow PROVE IInv'
  OBVIOUS
<1>1. sub' = [step |-> "messages", from |-> sub.from, row |-> rowVersion]
      /\ sub.step = "row" /\ sub.from \in 0..MaxVersions
      /\ rowVersion \in 0..MaxVersions /\ rowVersion <= Len(log)
  BY Typed, SubFields DEF IInv, TypeOK, ReadRow
<1>2. sub' \in Subs
  BY <1>1, SubsHold
<1>3. SubInv' /\ (Reading' => Reading)
  BY <1>1 DEF IInv, SubInv, Reading, Listening, ReadRow
<1> QED
  BY <1>1, <1>2, <1>3, ServersEndKeeps DEF ReadRow

LEMMA ReadMessagesKeeps == IInv /\ ReadMessages => IInv'
<1> SUFFICES ASSUME IInv, ReadMessages PROVE IInv'
  OBVIOUS
<1>1. sub' = [step |-> "rest", from |-> sub.from, row |-> sub.row, messages |-> Len(log)]
      /\ sub.step = "messages" /\ sub.from \in 0..MaxVersions
      /\ sub.row \in 0..MaxVersions /\ Len(log) \in 0..MaxVersions
      /\ sub.row <= Len(log) /\ client.cursor <= Len(log)
  BY Typed, SubFields DEF IInv, TypeOK, SubInv, ReadMessages, Detail
<1>2. sub' \in Subs
  BY <1>1, SubsHold
<1>3. SubInv' /\ (Reading' => Reading)
  BY <1>1 DEF IInv, ShownIsLogged, SubInv, Reading, Listening, ReadMessages
<1> QED
  BY <1>1, <1>2, <1>3, ServersEndKeeps DEF ReadMessages

LEMMA OpenKeeps == IInv /\ Open => IInv'
<1> SUFFICES ASSUME IInv, Open PROVE IInv'
  OBVIOUS
<1>1. sub.step = "open" /\ sub.cursor \in 0..MaxVersions /\ Len(log) \in 0..MaxVersions
      /\ replayLimit \in Nat
  BY Typed, SubFields, LimitsAssumption DEF IInv, TypeOK, Open
<1>2. sub' = [step |-> "replay", cursor |-> sub.cursor, remaining |-> replayLimit,
              attached |-> FALSE, opened |-> Len(log), outbox |-> <<>>]
  BY DEF Open
<1>3. sub' \in ListeningSubs
  BY <1>1, <1>2 DEF ListeningSubs
<1>4. SubInv' /\ (Reading' => Reading)
  BY <1>1, <1>2 DEF IInv, SubInv, Reading, Listening, Open
<1> QED
  BY <1>1, <1>3, <1>4, SubsInclude, Typed, ServersEndKeeps DEF Open, IInv

LEMMA AttachKeeps == IInv /\ Attach => IInv'
<1> SUFFICES ASSUME IInv, Attach PROVE IInv'
  OBVIOUS
<1>1. sub \in ListeningSubs /\ Listening
  BY SubFields DEF IInv, TypeOK, Attach, Listening
<1>2. sub' \in ListeningSubs /\ sub'.outbox = sub.outbox /\ sub'.step = sub.step
  BY <1>1 DEF ListeningSubs, Attach
<1>3. SubInv' /\ (Reading' => Reading)
  BY <1>1, <1>2 DEF IInv, SubInv, Reading, Listening, Attach
<1> QED
  BY <1>1, <1>2, <1>3, SubsInclude, Typed, ServersEndKeeps DEF Attach, IInv, Listening

LEMMA ReplayEndsKeeps == IInv /\ ReplayEnds => IInv'
<1> SUFFICES ASSUME IInv, ReplayEnds PROVE IInv'
  OBVIOUS
<1>1. sub \in ListeningSubs /\ Listening
  BY SubFields DEF IInv, TypeOK, ReplayEnds, Listening
<1>2. sub' \in ListeningSubs /\ sub'.outbox = sub.outbox /\ sub'.step = "live"
  BY <1>1 DEF ListeningSubs, ReplayEnds
<1>3. SubInv' /\ (Reading' => Reading)
  BY <1>1, <1>2 DEF IInv, SubInv, Reading, Listening, ReplayEnds
<1> QED
  BY <1>1, <1>2, <1>3, SubsInclude, Typed, ServersEndKeeps DEF ReplayEnds, IInv, Listening

-----------------------------------------------------------------------------
(* Steps of the server that send: new items follow what waits on the wire. *)
LEMMA SendKeeps ==
  ASSUME IInv, UNCHANGED <<replayLimit, log, rowVersion, published, client, view>>,
         sub' \in Subs, SubInv', ~Reading',
         NEW items \in Seq(Items), wire' = wire \o items, client.status # "down",
         \A i \in 1..Len(items) :
           /\ items[i].kind = "snapshot" =>
                /\ i = 1 /\ wire = <<>> /\ items[i].version <= Len(log)
                /\ Covers(items[i].thread, items[i].version)
           /\ items[i].kind = "event" => items[i].version <= Len(log)
  PROVE  IInv'
<1>1. wire' \in Seq(Items) /\ Len(wire') = Len(wire) + Len(items)
      /\ \A i \in 1..Len(wire') :
           wire'[i] = IF i <= Len(wire) THEN wire[i] ELSE items[i - Len(wire)]
  BY Typed DEF IInv
<1>2. TypeOK'
  BY <1>1 DEF IInv, TypeOK
<1>3. ASSUME NEW i \in 1..Len(wire')
      PROVE  /\ wire'[i].kind = "snapshot" =>
                  /\ i = 1 /\ wire'[i].version <= Len(log)
                  /\ Covers(wire'[i].thread, wire'[i].version)
             /\ wire'[i].kind = "event" => wire'[i].version <= Len(log)
  <2>1. CASE i <= Len(wire)
    BY <1>1, <2>1, Typed DEF IInv, WireInv
  <2>2. CASE i > Len(wire)
    <3>1. i - Len(wire) \in 1..Len(items) /\ wire'[i] = items[i - Len(wire)]
      BY <1>1, <2>2, Typed DEF IInv
    <3> QED
      BY <3>1, <2>2, Typed DEF IInv
  <2> QED
    BY <2>1, <2>2, Typed DEF IInv
<1>4. WireInv'
  BY <1>3 DEF WireInv, Covers
<1> QED
  BY <1>2, <1>4 DEF IInv, NothingMissing, ShownIsLogged

(* A server's end exists only while the client has its stream open.        *)
LEMMA NotDown == IInv /\ sub.step # "none" => client.status # "down"
BY DEF IInv, WireInv, NoSub

LEMMA SendSnapshotKeeps == IInv /\ SendSnapshot => IInv'
<1> SUFFICES ASSUME IInv, SendSnapshot PROVE IInv'
  OBVIOUS
<1> DEFINE thread == Applied(sub.messages, Len(log))
           item == [kind |-> "snapshot", version |-> sub.row, thread |-> thread]
<1>1. /\ sub.step = "rest" /\ sub.row \in 0..MaxVersions /\ sub.from \in 0..MaxVersions
      /\ sub.row <= sub.messages /\ sub.messages <= Len(log) /\ client.cursor <= sub.messages
      /\ sub.messages \in 0..MaxVersions /\ wire = <<>>
  BY SubFields DEF IInv, TypeOK, SubInv, WireInv, Reading, SendSnapshot
<1>2. thread \in [Versions -> 0..1]
  BY DEF Applied
<1>3. item \in Items
  BY <1>1, <1>2, ItemsHold
<1>4. Covers(thread, sub.row) /\ sub.row <= Len(log)
  <2>1. \A v \in Versions : v <= sub.row \/ v <= client.cursor \/ view[v] > 0 =>
                             v <= sub.messages
    BY <1>1, Typed DEF IInv, SubInv, SendSnapshot, Versions
  <2> QED
    BY <1>1, <2>1, Typed DEF IInv, Covers, Applied, Versions
<1>5. wire' = <<>> \o <<item>>
      /\ sub' = [step |-> "open", cursor |-> Larger(sub.from, sub.row)]
  BY <1>1, <1>3 DEF SendSnapshot, SnapshotVersion, Detail
<1>6. sub' \in Subs /\ SubInv' /\ ~Reading'
  <2>1. Larger(sub.from, sub.row) \in 0..MaxVersions /\ Larger(sub.from, sub.row) <= Len(log)
    BY <1>1, <1>4 DEF IInv, SubInv, Reading, Larger
  <2>2. sub' \in Subs
    BY <1>5, <2>1, SubsHold
  <2>3. SubInv' /\ ~Reading'
    BY <1>5, <2>1 DEF SendSnapshot, SubInv, Reading, Listening
  <2> QED
    BY <2>2, <2>3
<1> HIDE DEF item, thread
<1>7. item.kind = "snapshot" /\ item.version = sub.row /\ item.thread = thread
  BY DEF item
<1> DEFINE items == <<item>>
<1>8. items \in Seq(Items) /\ Len(items) = 1 /\ items[1] = item
  BY <1>3
<1>9. \A i \in 1..Len(items) :
        /\ items[i].kind = "snapshot" =>
             /\ i = 1 /\ wire = <<>> /\ items[i].version <= Len(log)
             /\ Covers(items[i].thread, items[i].version)
        /\ items[i].kind = "event" => items[i].version <= Len(log)
  BY <1>1, <1>4, <1>7, <1>8
<1>10. wire' = wire \o items /\ client.status # "down"
  BY <1>1, <1>5, NotDown
<1> HIDE DEF items
<1> QED
  BY <1>1, <1>6, <1>8, <1>9, <1>10, SendKeeps DEF SendSnapshot

LEMMA ReplayPageKeeps == IInv /\ ReplayPage => IInv'
<1> SUFFICES ASSUME IInv, ReplayPage PROVE IInv'
  OBVIOUS
<1> DEFINE size == Smaller(Smaller(sub.remaining, PageSize), Len(log) - sub.cursor)
           items == [i \in 1..size |-> Event(sub.cursor + i)]
<1>1. sub \in ListeningSubs /\ sub.step = "replay" /\ sub.remaining \in Nat
      /\ sub.cursor \in 0..MaxVersions /\ sub.cursor <= Len(log)
  BY SubFields, Typed DEF IInv, TypeOK, SubInv, ReplayPage, Listening
<1>2. size \in Nat /\ size <= sub.remaining /\ sub.cursor + size <= Len(log)
  BY <1>1, Typed, LimitsAssumption DEF IInv, Smaller
<1>3. /\ sub' = [sub EXCEPT !.cursor = @ + size, !.remaining = IF size = 0 THEN 0 ELSE @ - size]
      /\ wire' = wire \o items
  BY DEF ReplayPage
<1> HIDE DEF size
<1>4. sub' \in ListeningSubs /\ sub'.step = "replay" /\ sub'.outbox = sub.outbox
      /\ sub'.cursor = sub.cursor + size
  <2>1. sub.cursor + size \in 0..MaxVersions /\ sub.remaining - size \in Nat
    BY <1>1, <1>2, Typed DEF IInv
  <2> QED
    BY <1>1, <1>3, <2>1 DEF ListeningSubs
<1>5. SubInv' /\ ~Reading'
  BY <1>1, <1>2, <1>4 DEF IInv, SubInv, Reading, Listening, ReplayPage
<1>6. ASSUME NEW i \in 1..size
      PROVE  Event(sub.cursor + i) \in Items /\ sub.cursor + i <= Len(log)
  BY <1>1, <1>2, Typed, ItemsHold DEF IInv, Versions
<1>7. items \in Seq(Items) /\ Len(items) = size
  BY <1>2, <1>6
<1>8. \A i \in 1..Len(items) : items[i].kind = "event" /\ items[i].version <= Len(log)
  BY <1>6, <1>7 DEF Event
<1> HIDE DEF items
<1>9. client.status # "down"
  BY <1>1, NotDown
<1> QED
  BY <1>1, <1>3, <1>4, <1>5, <1>7, <1>8, <1>9, SubsInclude, SendKeeps DEF ReplayPage, Listening

LEMMA DeliverKeeps == IInv /\ Deliver => IInv'
<1> SUFFICES ASSUME IInv, Deliver PROVE IInv'
  OBVIOUS
<1> DEFINE v == Head(sub.outbox)
<1>1. sub \in ListeningSubs /\ sub.step = "live" /\ Listening /\ sub.outbox \in Seq(Versions)
      /\ sub.outbox # <<>>
  BY SubFields, Typed DEF IInv, TypeOK, Deliver, Listening
<1>2. v \in Versions /\ v <= Len(log) /\ Tail(sub.outbox) \in Seq(Versions)
      /\ \A i \in 1..Len(Tail(sub.outbox)) : Tail(sub.outbox)[i] <= Len(log)
  BY <1>1 DEF IInv, SubInv
<1>3. v \in 0..MaxVersions
  BY <1>2 DEF Versions
<1>4. CASE IsNews(v, sub.cursor)
  <2>1. wire' = Append(wire, Event(v)) /\ sub' = [sub EXCEPT !.outbox = Tail(@), !.cursor = v]
    BY <1>4 DEF Deliver
  <2>2. sub' \in ListeningSubs /\ sub'.step = "live" /\ sub'.outbox = Tail(sub.outbox)
        /\ sub'.cursor = v
    BY <1>1, <1>2, <1>3, <2>1 DEF ListeningSubs
  <2>3. SubInv' /\ ~Reading'
    BY <1>1, <1>2, <2>2 DEF IInv, SubInv, Reading, Listening, Deliver
  <2> DEFINE items == <<Event(v)>>
  <2>4. items \in Seq(Items) /\ Len(items) = 1 /\ items[1] = Event(v)
    BY <1>2, ItemsHold
  <2>5. wire' = wire \o items
    BY <2>1, <2>4, Typed DEF IInv
  <2>6. \A i \in 1..Len(items) : items[i].kind = "event" /\ items[i].version <= Len(log)
    BY <1>2, <2>4 DEF Event
  <2> HIDE DEF items
  <2> QED
    BY <1>1, <2>2, <2>3, <2>4, <2>5, <2>6, SubsInclude, NotDown, SendKeeps DEF Deliver
<1>5. CASE ~IsNews(v, sub.cursor)
  <2>1. wire' = wire /\ sub' = [sub EXCEPT !.outbox = Tail(@)]
    BY <1>5 DEF Deliver
  <2>2. sub' \in ListeningSubs /\ sub'.step = "live" /\ sub'.outbox = Tail(sub.outbox)
        /\ sub'.cursor = sub.cursor
    BY <1>1, <1>2, <2>1 DEF ListeningSubs
  <2>3. SubInv' /\ ~Reading'
    BY <1>1, <1>2, <2>2 DEF IInv, SubInv, Reading, Listening, Deliver
  <2> QED
    BY <1>1, <2>1, <2>2, <2>3, SubsInclude, ServersEndKeeps DEF Deliver
<1> QED
  BY <1>4, <1>5

LEMMA RefuseKeeps == IInv /\ Refuse => IInv'
<1> SUFFICES ASSUME IInv, Refuse PROVE IInv'
  OBVIOUS
<1> DEFINE item == [kind |-> "failure"]
           items == <<item>>
<1>1. sub' = NoSub /\ sub' \in Subs /\ SubInv' /\ ~Reading'
  BY SubsInclude DEF Refuse, SubInv, Reading, Listening, NoSub
<1>2. items \in Seq(Items) /\ Len(items) = 1 /\ items[1].kind = "failure"
  BY ItemsHold
<1>3. wire' = wire \o items
  BY <1>2, Typed DEF IInv, Refuse
<1>4. client.status # "down"
  BY NotDown DEF Refuse
<1>5. \A i \in 1..Len(items) : items[i].kind = "failure"
  BY <1>2
<1> HIDE DEF items
<1> QED
  BY <1>1, <1>2, <1>3, <1>4, <1>5, SendKeeps DEF Refuse

-----------------------------------------------------------------------------
(* The client takes the first item of the wire.                            *)
LEMMA TakeItem ==
  ASSUME IInv, wire # <<>>
  PROVE  /\ Head(wire) = wire[1] /\ Head(wire) \in Items
         /\ Tail(wire) \in Seq(Items) /\ Len(Tail(wire)) = Len(wire) - 1
         /\ \A i \in 1..Len(Tail(wire)) : i + 1 \in 1..Len(wire) /\ Tail(wire)[i] = wire[i+1]
BY Typed DEF IInv

LEMMA ReceiveKeeps == IInv /\ Receive => IInv'
<1> SUFFICES ASSUME IInv, Receive PROVE IInv'
  OBVIOUS
<1> DEFINE item == Head(wire)
<1>1. /\ item = wire[1] /\ item \in Items /\ 1 \in 1..Len(wire)
      /\ Tail(wire) \in Seq(Items) /\ Len(Tail(wire)) = Len(wire) - 1
      /\ \A i \in 1..Len(Tail(wire)) : i + 1 \in 1..Len(wire) /\ Tail(wire)[i] = wire[i+1]
  BY TakeItem, Typed DEF Receive, IInv
<1>2. /\ UNCHANGED <<replayLimit, log, rowVersion, published>>
      /\ client.status = "open" /\ wire # <<>> /\ ~Reading
  BY DEF Receive, IInv, WireInv
<1>3. \A i \in 1..Len(Tail(wire)) :
        /\ Tail(wire)[i].kind # "snapshot"
        /\ Tail(wire)[i].kind = "event" => Tail(wire)[i].version <= Len(log)
  BY <1>1, Typed DEF IInv, WireInv
<1>4. /\ item.kind = "snapshot" => item.version <= Len(log) /\ Covers(item.thread, item.version)
      /\ item.kind = "event" => item.version <= Len(log)
  BY <1>1 DEF IInv, WireInv
<1>5. client.cursor \in 0..MaxVersions /\ MaxVersions \in Nat /\ Len(log) \in 0..MaxVersions
      /\ client \in [status : {"none", "open", "down", "restart", "dead"},
                     cursor : 0..MaxVersions, from : 0..MaxVersions]
  BY Typed DEF IInv, TypeOK
<1> HIDE DEF item
<1>6. CASE /\ item.kind = "snapshot"
           /\ client' = [client EXCEPT !.cursor = Larger(@, item.version)]
           /\ view' = item.thread /\ wire' = Tail(wire) /\ UNCHANGED sub
  <2>1. item.version \in 0..MaxVersions /\ item.thread \in [Versions -> 0..1]
    BY <1>1, <1>6, ItemFields
  <2>2. client'.status = "open" /\ client'.cursor = Larger(client.cursor, item.version)
        /\ client'.cursor \in 0..Len(log) /\ client'.from = client.from
        /\ client' \in [status : {"none", "open", "down", "restart", "dead"},
                        cursor : 0..MaxVersions, from : 0..MaxVersions]
    BY <1>2, <1>4, <1>5, <1>6, <2>1 DEF Larger, IInv
  <2>3. TypeOK'
    <3>1. view' \in [Versions -> Nat]
      BY <1>6, <2>1
    <3> QED
      BY <1>1, <1>2, <1>6, <2>2, <3>1 DEF IInv, TypeOK
  <2>4. NothingMissing'
    BY <1>4, <1>5, <1>6, <2>1, <2>2 DEF NothingMissing, Covers, Versions, Larger
  <2>5. SubInv' /\ WireInv'
    BY <1>2, <1>3, <1>6, <2>2 DEF IInv, SubInv, WireInv, Reading, Listening
  <2>6. ShownIsLogged'
    BY <1>2, <1>4, <1>6 DEF Covers, ShownIsLogged
  <2> QED
    BY <1>2, <2>2, <2>3, <2>4, <2>5, <2>6 DEF IInv
<1>7. CASE /\ item.kind = "event" /\ Decide(client.cursor, item.version) = "apply"
           /\ client' = [client EXCEPT !.cursor = item.version]
           /\ view' = [view EXCEPT ![item.version] = @ + 1]
           /\ wire' = Tail(wire) /\ UNCHANGED sub
  <2>1. item.version \in Versions /\ item.version = client.cursor + 1
    BY <1>1, <1>5, <1>7, ItemFields DEF Decide, Versions
  <2>2. client'.status = "open" /\ client'.cursor = item.version
        /\ client'.cursor \in 0..Len(log) /\ client'.from = client.from
        /\ client' \in [status : {"none", "open", "down", "restart", "dead"},
                        cursor : 0..MaxVersions, from : 0..MaxVersions]
    BY SMTT(30), <1>2, <1>4, <1>5, <1>7, <2>1 DEF Versions
  <2>3. view \in [Versions -> Nat] /\ view' \in [Versions -> Nat]
    BY <1>7, <2>1 DEF IInv, TypeOK
  <2>4. TypeOK'
    BY <1>1, <1>2, <1>7, <2>2, <2>3 DEF IInv, TypeOK
  <2>5. NothingMissing'
    <3> SUFFICES ASSUME NEW v \in 1..client'.cursor PROVE view'[v] > 0
      BY DEF NothingMissing
    <3>1. v \in Versions /\ view[v] \in Nat
      BY <1>5, <2>1, <2>2, <2>3 DEF Versions
    <3>2. v = item.version \/ v \in 1..client.cursor
      BY <1>5, <2>1, <2>2
    <3> QED
      BY <1>7, <2>1, <2>3, <3>1, <3>2 DEF IInv, NothingMissing
  <2>6. SubInv' /\ WireInv'
    BY <1>2, <1>3, <1>7, <2>2 DEF IInv, SubInv, WireInv, Reading, Listening
  <2>7. ShownIsLogged'
    BY <1>2, <1>4, <1>7, <2>3 DEF IInv, ShownIsLogged
  <2> QED
    BY <1>2, <2>2, <2>4, <2>5, <2>6, <2>7 DEF IInv
<1>8. CASE /\ item.kind = "event" /\ Decide(client.cursor, item.version) = "ignore"
           /\ wire' = Tail(wire) /\ UNCHANGED <<sub, client, view>>
  <2>1. TypeOK'
    BY <1>1, <1>2, <1>8 DEF IInv, TypeOK
  <2>2. SubInv' /\ WireInv'
    BY <1>2, <1>3, <1>8 DEF IInv, SubInv, WireInv, Reading, Listening
  <2> QED
    BY <1>2, <1>8, <2>1, <2>2 DEF IInv, NothingMissing, ShownIsLogged
<1>9. CASE /\ item.kind = "event" /\ Decide(client.cursor, item.version) = "resubscribe"
           /\ client' = [client EXCEPT !.status = "restart"]
           /\ sub' = NoSub /\ wire' = <<>> /\ UNCHANGED view
  <2>1. client'.status = "restart" /\ client'.cursor = client.cursor
        /\ client' \in [status : {"none", "open", "down", "restart", "dead"},
                        cursor : 0..MaxVersions, from : 0..MaxVersions]
    BY <1>5, <1>9
  <2>2. TypeOK'
    BY <1>2, <1>9, <2>1, SubsInclude DEF IInv, TypeOK
  <2>3. SubInv' /\ WireInv'
    BY <1>9, <2>1 DEF SubInv, WireInv, Reading, Listening, NoSub
  <2> QED
    BY <1>2, <1>9, <2>1, <2>2, <2>3 DEF IInv, NothingMissing, ShownIsLogged
<1>10. CASE /\ item.kind = "failure"
            /\ client' = [client EXCEPT !.status = "dead"]
            /\ wire' = Tail(wire) /\ UNCHANGED <<sub, view>>
  <2>1. client'.status = "dead" /\ client'.cursor = client.cursor
        /\ client' \in [status : {"none", "open", "down", "restart", "dead"},
                        cursor : 0..MaxVersions, from : 0..MaxVersions]
    BY <1>5, <1>10
  <2>2. TypeOK'
    BY <1>1, <1>2, <1>10, <2>1 DEF IInv, TypeOK
  <2>3. SubInv' /\ WireInv'
    BY <1>2, <1>3, <1>10, <2>1 DEF IInv, SubInv, WireInv, Reading, Listening
  <2> QED
    BY <1>2, <1>10, <2>1, <2>2, <2>3 DEF IInv, NothingMissing, ShownIsLogged
<1> QED
  BY <1>6, <1>7, <1>8, <1>9, <1>10 DEF Receive, item

-----------------------------------------------------------------------------
(* A subscription begins with nothing on the wire; any end of one leaves   *)
(* nothing on it.                                                          *)
LEMMA BeginsKeeps ==
  ASSUME IInv, UNCHANGED <<replayLimit, log, rowVersion, published, view>>,
         NEW from \in 0..MaxVersions, sub' = Asked(from), wire' = <<>>,
         from <= Len(log),
         client' \in [status : {"open"}, cursor : 0..client.cursor, from : {from}]
  PROVE  IInv'
<1>1. client.cursor \in 0..MaxVersions /\ MaxVersions \in Nat
  BY Typed DEF IInv
<1>2. sub' \in Subs
  BY SubsHold DEF Asked
<1>3. TypeOK'
  BY <1>1, <1>2 DEF IInv, TypeOK
<1>4. SubInv' /\ WireInv'
  BY DEF Asked, SubInv, WireInv, Reading, Listening
<1> QED
  BY <1>1, <1>3, <1>4, Typed DEF IInv, NothingMissing, ShownIsLogged

LEMMA EndsKeeps ==
  ASSUME IInv, UNCHANGED <<replayLimit, log, rowVersion, view>>, published' \in 0..Len(log),
         sub' = NoSub, wire' = <<>>,
         client' \in [status : {"none", "open", "down", "restart", "dead"},
                      cursor : {client.cursor}, from : {client.from}]
  PROVE  IInv'
<1>1. client.cursor \in 0..MaxVersions
  BY Typed DEF IInv
<1>2. TypeOK'
  BY <1>1, SubsInclude DEF IInv, TypeOK
<1>3. SubInv' /\ WireInv'
  BY DEF NoSub, SubInv, WireInv, Reading, Listening
<1> QED
  BY <1>2, <1>3 DEF IInv, NothingMissing, ShownIsLogged

LEMMA SubscriptionKeeps ==
  IInv /\ (Retain \/ Restart \/ Reconnect \/ Dispose \/ Drop \/ Crash) => IInv'
<1> SUFFICES ASSUME IInv PROVE Retain \/ Restart \/ Reconnect \/ Dispose \/ Drop \/ Crash => IInv'
  OBVIOUS
<1>1. /\ client \in [status : {"none", "open", "down", "restart", "dead"},
                     cursor : 0..MaxVersions, from : 0..MaxVersions]
      /\ published \in 0..Len(log) /\ Len(log) \in Nat /\ MaxVersions \in Nat
  BY Typed DEF IInv, TypeOK
<1>2. ASSUME Retain PROVE IInv'
  BY <1>1, <1>2, BeginsKeeps DEF Retain, Subscribe
<1>3. ASSUME Restart PROVE IInv'
  BY <1>1, <1>3, BeginsKeeps DEF Restart, Subscribe, IInv
<1>4. ASSUME Reconnect PROVE IInv'
  <2>1. client' \in [status : {"open"}, cursor : 0..client.cursor, from : {client.from}]
    BY <1>1, <1>4 DEF Reconnect
  <2>2. wire' = <<>> /\ client.from \in 0..MaxVersions /\ client.from <= Len(log)
    BY <1>1, <1>4 DEF IInv, WireInv, Reconnect
  <2> QED
    BY <1>4, <2>1, <2>2, BeginsKeeps DEF Reconnect
<1>5. ASSUME Dispose PROVE IInv'
  BY <1>1, <1>5, EndsKeeps DEF Dispose
<1>6. ASSUME Disconnected
      PROVE  /\ sub' = NoSub /\ wire' = <<>>
             /\ client' \in [status : {"none", "open", "down", "restart", "dead"},
                             cursor : {client.cursor}, from : {client.from}]
  BY <1>1, <1>6 DEF Disconnected
<1>7. ASSUME Drop PROVE IInv'
  BY <1>1, <1>6, <1>7, EndsKeeps DEF Drop
<1>8. ASSUME Crash PROVE IInv'
  BY <1>1, <1>6, <1>8, EndsKeeps DEF Crash
<1> QED
  BY <1>2, <1>3, <1>4, <1>5, <1>7, <1>8

-----------------------------------------------------------------------------
(* The strengthening is inductive.                                         *)
THEOREM Inductive == Spec => []IInv
<1>1. IInv /\ [Next]_vars => IInv'
  <2> SUFFICES ASSUME IInv, [Next]_vars PROVE IInv'
    OBVIOUS
  <2>1. CASE UNCHANGED vars
    BY <2>1 DEF vars, IInv, TypeOK, SubInv, WireInv, Covers, Reading, Listening,
                NothingMissing, ShownIsLogged
  <2>2. CASE Next
    BY <2>2, CommitKeeps, PublishKeeps, ReadRowKeeps, ReadMessagesKeeps, SendSnapshotKeeps,
       OpenKeeps, AttachKeeps, ReplayPageKeeps, ReplayEndsKeeps, DeliverKeeps, RefuseKeeps,
       ReceiveKeeps, SubscriptionKeeps DEF Next, ServerStep, ClientStep
  <2> QED
    BY <2>1, <2>2
<1> QED
  BY <1>1, InitIInv, PTL DEF Spec

(* The variables keep their types.                                         *)
THEOREM TypeCorrect == Spec => []TypeOK
<1>1. IInv => TypeOK
  BY DEF IInv
<1> QED
  BY <1>1, Inductive, PTL

(* What the client believes it has, it has: whatever is committed while    *)
(* the snapshot is read query by query, forwarded or lost, dropped and     *)
(* retried, the view holds every event up to the client's cursor.          *)
THEOREM ClientMissesNothing == Spec => []NothingMissing
<1>1. IInv => NothingMissing
  BY DEF IInv
<1> QED
  BY <1>1, Inductive, PTL

(* A snapshot never takes back what the client shows, also after the entry *)
(* of the thread was disposed of and made anew with cursor 0.              *)
THEOREM SnapshotTakesNothingBack == Spec => ViewNeverLoses
<1>1. IInv /\ [Next]_vars => [\A v \in Versions : view[v] > 0 => view'[v] > 0]_view
  <2> SUFFICES ASSUME IInv, Next, NEW v \in Versions, view[v] > 0, view' # view
               PROVE  view'[v] > 0
    BY DEF vars
  <2>1. Receive
    BY DEF Next, ServerStep, ClientStep, Commit, Publish, ReadRow, ReadMessages, SendSnapshot,
           Open, Attach, ReplayPage, ReplayEnds, Deliver, Refuse, Retain, Restart, Reconnect,
           Dispose, Drop, Crash
  <2>2. Head(wire) = wire[1] /\ 1 \in 1..Len(wire)
    BY <2>1, TakeItem, Typed DEF Receive, IInv
  <2>3. Head(wire).kind = "snapshot" => Head(wire).thread[v] = 1
    BY <2>2 DEF IInv, WireInv, Covers
  <2>4. view \in [Versions -> Nat]
    BY DEF IInv, TypeOK
  <2>5. CASE view' = Head(wire).thread /\ Head(wire).kind = "snapshot"
    BY <2>3, <2>5
  <2>6. CASE view' = [view EXCEPT ![Head(wire).version] = @ + 1]
    BY <2>4, <2>6
  <2> QED
    BY <2>1, <2>5, <2>6 DEF Receive
<1> QED
  BY <1>1, Inductive, PTL DEF Spec, ViewNeverLoses
=============================================================================
