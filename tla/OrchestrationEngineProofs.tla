----------------------- MODULE OrchestrationEngineProofs -----------------------
(***************************************************************************)
(* Theorems about the orchestration engine, for every set of commands,     *)
(* projects and threads, every initial log, and every bound.               *)
(***************************************************************************)
EXTENDS OrchestrationEngine, FiniteSetTheorems, SequenceTheorems, TLAPS

-----------------------------------------------------------------------------
(* What the operators the engine is built from return: the reads of the    *)
(* event store, the next version of a stream, the planned events of a      *)
(* command and the rows it inserts.                                        *)
(* A nonempty set of naturals has a least member.                          *)
LEMMA LeastNatural ==
  ASSUME NEW S \in SUBSET Nat, S # {}
  PROVE  \E n \in S : \A m \in S : n <= m
<1>1. PICK n \in S : \A m \in S : ~(<<m, n>> \in OpToRel(<, Nat))
  BY NatLessThanWellFounded, WFMin
<1>2. \A m \in S : ~(m < n)
  BY <1>1 DEF OpToRel
<1> QED BY <1>2

(* Min picks it.                                                           *)
LEMMA MinOfNaturals ==
  ASSUME NEW S \in SUBSET Nat, S # {}
  PROVE  Min(S) \in S
BY LeastNatural DEF Min

(* A nonempty set of naturals with an upper bound has a greatest member.   *)
LEMMA MaxOfBoundedNaturals ==
  ASSUME NEW S \in SUBSET Nat, S # {}, NEW b \in Nat, \A n \in S : n <= b
  PROVE  Max(S) \in S /\ \A n \in S : n <= Max(S)
<1> DEFINE Bounds == {k \in Nat : \A n \in S : n <= k}
<1>1. PICK k \in Bounds : \A j \in Bounds : k <= j
  <2>1. b \in Bounds /\ Bounds \in SUBSET Nat
    OBVIOUS
  <2> QED BY <2>1, LeastNatural
<1>2. k \in S
  <2> SUFFICES ASSUME k \notin S PROVE FALSE
    OBVIOUS
  <2>1. \A n \in S : n <= k - 1 /\ k - 1 \in Nat
    OBVIOUS
  <2>2. k - 1 \in Bounds
    BY <2>1
  <2> QED BY <1>1, <2>2
<1> QED BY <1>2 DEF Max

(* The versions of a sequence of stored events are bounded.                *)
LEMMA VersionsBounded ==
  ASSUME NEW events \in Seq(StoredEvent)
  PROVE  \E b \in Nat : \A i \in DOMAIN events : events[i].version <= b
<1> DEFINE Bounded(n) == \E b \in Nat : \A i \in 1..n : events[i].version <= b
           Unbounded == {n \in 0..Len(events) : ~Bounded(n)}
<1>0. DOMAIN events = 1..Len(events) /\ Len(events) \in Nat
      /\ \A i \in 1..Len(events) : events[i].version \in Nat
  <2>1. \A i \in 1..Len(events) : events[i] \in StoredEvent
    OBVIOUS
  <2> QED BY <2>1 DEF StoredEvent
<1>1. Bounded(0)
  <2>1. \A i \in 1..0 : events[i].version <= 0
    OBVIOUS
  <2> QED BY <2>1
<1>2. ASSUME NEW n \in 1..Len(events), Bounded(n - 1) PROVE Bounded(n)
  <2>1. PICK b \in Nat : \A i \in 1..(n - 1) : events[i].version <= b
    BY <1>2
  <2>2. b + events[n].version \in Nat /\ b <= b + events[n].version
        /\ events[n].version <= b + events[n].version
    <3>1. events[n].version \in Nat
      BY <1>0
    <3> HIDE DEF Bounded
    <3> QED BY <3>1
  <2>3. ASSUME NEW i \in 1..n PROVE events[i].version <= b + events[n].version
    <3>1. events[i].version \in Nat /\ events[n].version \in Nat
      BY <1>0
    <3>2. CASE i = n
      BY <2>2, <3>2
    <3>3. CASE i \in 1..(n - 1)
      BY <2>1, <3>1, <3>3
    <3> QED BY <3>2, <3>3
  <2> QED BY <2>2, <2>3
<1>3. Bounded(Len(events))
  <2> SUFFICES ASSUME ~Bounded(Len(events)) PROVE FALSE
    OBVIOUS
  <2> HIDE DEF Bounded
  <2>1. Unbounded \in SUBSET Nat /\ Unbounded # {}
    BY <1>0
  <2>2. PICK n \in Unbounded : \A m \in Unbounded : n <= m
    BY <2>1, LeastNatural
  <2>3. n \in 0..Len(events) /\ ~Bounded(n)
    BY <2>2
  <2>4. n \in 1..Len(events) /\ n - 1 \in 0..Len(events) /\ ~(n <= n - 1)
    BY <1>0, <1>1, <2>3
  <2>5. Bounded(n - 1)
    BY <2>2, <2>4
  <2> QED BY <1>2, <2>3, <2>4, <2>5
<1> QED BY <1>0, <1>3
-----------------------------------------------------------------------------
(* The event store.                                                        *)
LEMMA NextVersionType ==
  ASSUME NEW events \in Seq(StoredEvent), NEW stream
  PROVE  NextVersion(events, stream) \in Nat
<1> DEFINE versions == {events[i].version : i \in {j \in DOMAIN events : events[j].stream = stream}}
<1>1. versions \in SUBSET Nat
  <2>1. \A i \in DOMAIN events : events[i] \in StoredEvent
    OBVIOUS
  <2> QED BY <2>1 DEF StoredEvent
<1>2. PICK b \in Nat : \A n \in versions : n <= b
  BY VersionsBounded
<1>3. CASE versions = {}
  BY <1>3 DEF NextVersion
<1>4. CASE versions # {}
  <2>1. Max(versions) \in Nat
    BY <1>1, <1>2, <1>4, MaxOfBoundedNaturals
  <2>2. NextVersion(events, stream) = Max(versions) + 1
    BY <1>4 DEF NextVersion
  <2> QED BY <2>1, <2>2
<1> QED BY <1>3, <1>4

LEMMA SubSeqType ==
  ASSUME NEW S, NEW s \in Seq(S), NEW m \in 1..Len(s) + 1, NEW n \in 0..Len(s)
  PROVE  SubSeq(s, m, n) \in Seq(S)
OBVIOUS

LEMMA EventsAfterType ==
  ASSUME NEW events \in Seq(StoredEvent), NEW from
  PROVE  EventsAfter(events, from) \in Seq(StoredEvent)
<1> DEFINE later == {i \in DOMAIN events : events[i].sequence > from}
<1>1. CASE later = {}
  BY <1>1 DEF EventsAfter
<1>2. CASE later # {}
  <2>1. later \in SUBSET Nat /\ later \subseteq 1..Len(events) /\ Len(events) \in Nat
    OBVIOUS
  <2>2. Min(later) \in 1..Len(events)
    BY <1>2, <2>1, MinOfNaturals
  <2>3. SubSeq(events, Min(later), Len(events)) \in Seq(StoredEvent)
    <3> DEFINE m == Min(later)
    <3>1. m \in 1..Len(events) + 1 /\ Len(events) \in 0..Len(events)
      <4> HIDE DEF later
      <4> QED BY <2>1, <2>2
    <3> HIDE DEF m
    <3>2. SubSeq(events, m, Len(events)) \in Seq(StoredEvent)
      BY <3>1, SubSeqType
    <3> QED BY <3>2 DEF m
  <2> QED BY <1>2, <2>3 DEF EventsAfter
<1> QED BY <1>1, <1>2

LEMMA ReadFromSequenceType ==
  ASSUME log \in Seq(StoredEvent), NEW from
  PROVE  ReadFromSequence(from) \in Seq(StoredEvent)
<1> DEFINE found == EventsAfter(log, from)
<1>1. found \in Seq(StoredEvent)
  BY EventsAfterType
<1> HIDE DEF found
<1>2. CASE Len(found) > ReadLimit
  <2>0. Len(found) \in Nat
    BY <1>1
  <2>1. ReadLimit \in 0..Len(found) /\ 1 \in 1..Len(found) + 1
    BY <2>0, <1>2, ReadLimitAssumption
  <2>2. SubSeq(found, 1, ReadLimit) \in Seq(StoredEvent)
    BY <1>1, <2>1, SubSeqType
  <2> QED BY <1>2, <2>2 DEF ReadFromSequence, found
<1>3. CASE ~(Len(found) > ReadLimit)
  BY <1>1, <1>3 DEF ReadFromSequence, found
<1> QED BY <1>2, <1>3

(* A read that returns something ends with an event of the log.            *)
LEMMA LastSequenceType ==
  ASSUME NEW events \in Seq(StoredEvent)
  PROVE  LastSequence(events) \in Nat
<1>1. CASE events = <<>>
  BY <1>1 DEF LastSequence
<1>2. CASE events # <<>>
  <2>1. events[Len(events)] \in StoredEvent
    BY <1>2
  <2> QED BY <1>2, <2>1 DEF LastSequence, Last, StoredEvent
<1> QED BY <1>1, <1>2

-----------------------------------------------------------------------------
(* What a command plans: typed, and never nothing.                         *)
LEMMA CommandFields ==
  ASSUME NEW cmd \in Commands
  PROVE  /\ cmd.id \in CommandIds /\ cmd.stream \in Projects \cup Threads
         /\ cmd.arg \in Args /\ cmd.source \in Args /\ None \in Args
         /\ cmd.type = "thread.turn.start" => cmd.arg.id \in Args
         /\ cmd.type = "chat.import" =>
              cmd.arg \in Seq(Range(cmd.arg)) /\ Range(cmd.arg) \subseteq Args
<1>1. PICK id \in CommandIds, r \in Requests :
        cmd = [id |-> id, type |-> r.type, stream |-> r.stream, arg |-> r.arg, source |-> r.source]
  BY DEF Commands, CommandFor
<1>2. cmd.id = id /\ cmd.type = r.type /\ cmd.stream = r.stream /\ cmd.arg = r.arg
      /\ cmd.source = r.source
  BY <1>1
<1>3. cmd.arg \in Args /\ cmd.source \in Args /\ None \in Args
  BY <1>2 DEF Args
<1>4. r.type = "thread.turn.start" => r.arg.id \in Args
  BY DEF Args
<1>5. r.type = "chat.import" => Range(r.arg) \subseteq Args
  BY DEF Args
<1> QED BY <1>2, <1>3, <1>4, <1>5, RequestsAssumption

LEMMA PlannedType ==
  ASSUME NEW stream \in Projects \cup Threads, NEW type \in EventTypes, NEW arg \in Args
  PROVE  Planned(stream, type, arg) \in PlannedEvent
BY DEF Planned, PlannedEvent

(* A forced deletion lists every active thread of the project once.        *)
LEMMA ListOfThreads ==
  ASSUME NEW S \in SUBSET Threads
  PROVE  SetToSeq(S) \in Seq(S)
<1>1. IsFiniteSet(S)
  BY NamesAssumption, FS_Subset
<1>2. Cardinality(S) \in Nat /\ ExistsBijection(1..Cardinality(S), S)
  BY <1>1, FS_CardinalityType
<1>3. PICK f \in [1..Cardinality(S) -> S] : IsInjective(f)
  BY <1>2 DEF ExistsBijection, Bijection, Injection, Surjection, IsInjective
<1>4. SetToSeq(S) \in [1..Cardinality(S) -> S]
  BY <1>3 DEF SetToSeq
<1> QED BY <1>2, <1>4

(* The deletion of a project with its threads is a sequence of planned     *)
(* events.                                                                 *)
LEMMA PlanProjectDeleteType ==
  ASSUME NEW model, NEW project \in Projects \cup Threads
  PROVE  /\ PlanProjectDelete(model, project) \in Seq(PlannedEvent)
         /\ Len(PlanProjectDelete(model, project)) > 0
<1> DEFINE doomed == SetToSeq(ActiveThreads(model, project))
           deletions == [i \in DOMAIN doomed |-> Planned(doomed[i], "thread.deleted", None)]
           last == <<Planned(project, "project.deleted", None)>>
<1>1. doomed \in Seq(Threads)
  <2>1. ActiveThreads(model, project) \in SUBSET Threads
    BY DEF ActiveThreads
  <2>2. doomed \in Seq(ActiveThreads(model, project))
    BY <2>1, ListOfThreads
  <2> HIDE DEF doomed
  <2> QED BY <2>1, <2>2
<1> HIDE DEF doomed
<1>2. None \in Args /\ "thread.deleted" \in EventTypes /\ "project.deleted" \in EventTypes
  BY DEF Args, EventTypes
<1>3. DOMAIN doomed = 1..Len(doomed) /\ Len(doomed) \in Nat
  BY <1>1
<1>4. deletions \in Seq(PlannedEvent)
  <2>1. \A i \in 1..Len(doomed) : Planned(doomed[i], "thread.deleted", None) \in PlannedEvent
    BY <1>1, <1>2, PlannedType
  <2> QED BY <1>3, <2>1
<1>5. last \in Seq(PlannedEvent) /\ Len(last) = 1
  BY <1>2, PlannedType
<1> HIDE DEF deletions, last
<1>6. deletions \o last \in Seq(PlannedEvent) /\ Len(deletions \o last) > 0
  BY <1>4, <1>5
<1> QED BY <1>6 DEF PlanProjectDelete, doomed, deletions, last

LEMMA PlanImportType ==
  ASSUME NEW cmd \in Commands, cmd.type = "chat.import"
  PROVE  LET plan == <<Planned(cmd.stream, "thread.created", cmd.source)>>
                       \o [i \in DOMAIN cmd.arg |->
                             Planned(cmd.stream, "thread.message-sent", cmd.arg[i])]
         IN  plan \in Seq(PlannedEvent) /\ Len(plan) > 0
<1> DEFINE first == <<Planned(cmd.stream, "thread.created", cmd.source)>>
           messages == [i \in DOMAIN cmd.arg |->
                         Planned(cmd.stream, "thread.message-sent", cmd.arg[i])]
           arg == cmd.arg
<1>1. "thread.created" \in EventTypes /\ "thread.message-sent" \in EventTypes
  BY DEF EventTypes
<1>2. arg \in Seq(Range(arg)) /\ Range(arg) \subseteq Args
      /\ cmd.stream \in Projects \cup Threads /\ cmd.source \in Args
  BY CommandFields
<1>3. first \in Seq(PlannedEvent) /\ Len(first) = 1
  BY <1>1, <1>2, PlannedType
<1> DEFINE R == Range(arg)
<1>4. arg \in Seq(R) /\ R \subseteq Args
  BY <1>2
<1> HIDE DEF arg, R
<1>5. DOMAIN arg = 1..Len(arg) /\ Len(arg) \in Nat /\ \A i \in 1..Len(arg) : arg[i] \in Args
  BY <1>4
<1>6. messages \in Seq(PlannedEvent)
  <2>1. messages = [i \in 1..Len(arg) |->
                     Planned(cmd.stream, "thread.message-sent", arg[i])]
    BY <1>5 DEF arg
  <2>2. \A i \in 1..Len(arg) : Planned(cmd.stream, "thread.message-sent", arg[i]) \in PlannedEvent
    BY <1>1, <1>2, <1>5, PlannedType
  <2>3. messages \in [1..Len(arg) -> PlannedEvent]
    BY <2>1, <2>2
  <2> HIDE DEF messages
  <2> QED BY <1>5, <2>3
<1> HIDE DEF first, messages
<1>7. first \o messages \in Seq(PlannedEvent)
  BY <1>3, <1>6
<1>8. Len(first \o messages) > 0
  <2>1. Len(messages) \in Nat
    BY <1>6
  <2>2. Len(first \o messages) = Len(first) + Len(messages)
    BY <1>3, <1>6, ConcatProperties
  <2> QED BY <1>3, <2>1, <2>2
<1> QED BY <1>7, <1>8 DEF first, messages, arg

(* Every admitted command that is not a fork plans at least one event.     *)
LEMMA PlanType ==
  ASSUME NEW model, NEW cmd \in Commands, Admits(model, cmd), cmd.type # "chat.fork"
  PROVE  Plan(model, cmd) \in Seq(PlannedEvent) /\ Len(Plan(model, cmd)) > 0
<1> DEFINE type == cmd.type
           P(t, a) == Planned(cmd.stream, t, a)
<1>1. /\ cmd.stream \in Projects \cup Threads /\ cmd.arg \in Args
      /\ cmd.source \in Args /\ None \in Args
      /\ type = "thread.turn.start" => cmd.arg.id \in Args
  BY CommandFields
<1>2. \A t \in EventTypes, a \in Args : P(t, a) \in PlannedEvent
  BY <1>1, PlannedType
<1> HIDE DEF P
<1>3. ASSUME NEW e \in PlannedEvent PROVE <<e>> \in Seq(PlannedEvent) /\ Len(<<e>>) > 0
  OBVIOUS
<1>4. ASSUME NEW e \in PlannedEvent, NEW f \in PlannedEvent
      PROVE  <<e, f>> \in Seq(PlannedEvent) /\ Len(<<e, f>>) > 0
  OBVIOUS
<1>5. ASSUME NEW t \in EventTypes, NEW a \in Args, Plan(model, cmd) = <<P(t, a)>>
      PROVE  Plan(model, cmd) \in Seq(PlannedEvent) /\ Len(Plan(model, cmd)) > 0
  BY <1>2, <1>3, <1>5
<1>6. ASSUME NEW t \in EventTypes, NEW a \in Args, NEW u \in EventTypes, NEW b \in Args,
             Plan(model, cmd) = <<P(t, a), P(u, b)>>
      PROVE  Plan(model, cmd) \in Seq(PlannedEvent) /\ Len(Plan(model, cmd)) > 0
  BY <1>2, <1>4, <1>6
<1>7. /\ {"project.created", "project.meta-updated", "thread.created", "thread.archived",
          "thread.unarchived", "thread.message-sent", "thread.turn-start-requested",
          "thread.activity-appended"} \subseteq EventTypes
      /\ \A t \in DOMAIN ThreadEventOf : ThreadEventOf[t] \in EventTypes
      /\ \A t \in DOMAIN OrchestratorEventOf : OrchestratorEventOf[t] \in EventTypes
  BY DEF EventTypes
<1>a. CASE type = "project.create"
  <2>1. Plan(model, cmd) = <<P("project.created", None)>>
    BY <1>a DEF Plan, P, ThreadEventOf, OrchestratorEventOf
  <2> QED BY <1>1, <1>5, <1>7, <2>1
<1>b. CASE type = "project.meta.update"
  <2>1. Plan(model, cmd) = <<P("project.meta-updated", None)>>
    BY <1>b DEF Plan, P, ThreadEventOf, OrchestratorEventOf
  <2> QED BY <1>1, <1>5, <1>7, <2>1
<1>c. CASE type = "project.delete"
  <2>1. Plan(model, cmd) = PlanProjectDelete(model, cmd.stream)
    BY <1>c DEF Plan, ThreadEventOf, OrchestratorEventOf
  <2> QED BY <1>1, <2>1, PlanProjectDeleteType
<1>d. CASE type = "thread.create"
  <2>1. Plan(model, cmd) = <<P("thread.created", cmd.arg)>>
    BY <1>d DEF Plan, P, ThreadEventOf, OrchestratorEventOf
  <2> QED BY <1>1, <1>5, <1>7, <2>1
<1>e. CASE type = "thread.archive"
  <2>1. Plan(model, cmd) = <<P("thread.archived", None)>>
    BY <1>e DEF Plan, P, ThreadEventOf, OrchestratorEventOf
  <2> QED BY <1>1, <1>5, <1>7, <2>1
<1>f. CASE type = "thread.unarchive"
  <2>1. Plan(model, cmd) = <<P("thread.unarchived", None)>>
    BY <1>f DEF Plan, P, ThreadEventOf, OrchestratorEventOf
  <2> QED BY <1>1, <1>5, <1>7, <2>1
<1>g. CASE type = "thread.turn.start"
  <2>1. Plan(model, cmd) =
          <<P("thread.message-sent", cmd.arg), P("thread.turn-start-requested", cmd.arg.id)>>
    BY <1>g DEF Plan, P, ThreadEventOf, OrchestratorEventOf
  <2> QED BY <1>g, <1>1, <1>6, <1>7, <2>1
<1>h. CASE type \in DOMAIN ThreadEventOf
  <2>1. Plan(model, cmd) = <<P(ThreadEventOf[type], cmd.arg)>>
    BY <1>h DEF Plan, P, ThreadEventOf, OrchestratorEventOf
  <2> QED BY <1>h, <1>1, <1>5, <1>7, <2>1
<1>i. CASE type \in DOMAIN OrchestratorEventOf
  <2>1. Plan(model, cmd) =
          <<P(OrchestratorEventOf[type], None), P("thread.activity-appended", cmd.arg)>>
    BY <1>i DEF Plan, P, ThreadEventOf, OrchestratorEventOf
  <2> QED BY <1>i, <1>1, <1>6, <1>7, <2>1
<1>j. CASE type = "chat.import"
  <2>1. Plan(model, cmd) = <<Planned(cmd.stream, "thread.created", cmd.source)>>
                       \o [k \in DOMAIN cmd.arg |->
                             Planned(cmd.stream, "thread.message-sent", cmd.arg[k])]
    BY <1>j DEF Plan, ThreadEventOf, OrchestratorEventOf
  <2> QED BY <1>j, <2>1, PlanImportType
<1> QED BY <1>a, <1>b, <1>c, <1>d, <1>e, <1>f, <1>g, <1>h, <1>i, <1>j DEF Admits

(* The rows of a fork: typed, and at least its thread.forked.              *)
LEMMA ForkRowsType ==
  ASSUME log \in Seq(StoredEvent), NEW cmd \in Commands
  PROVE  ForkRows(cmd) \in SUBSET RowToInsert /\ ForkRows(cmd) # {}
<1> DEFINE copied == {log[i] : i \in {j \in DOMAIN log : log[j].stream = cmd.source}}
           arg(e) == IF e.type = "thread.created" /\ cmd.arg # None THEN cmd.arg ELSE e.arg
           versions == {e.version : e \in copied} \cup {0}
           marker == Max(versions) + 1
           copies == {[event |-> Planned(cmd.stream, e.type, arg(e)), version |-> e.version,
                       rank |-> e.version] : e \in copied}
           mark == [event |-> Planned(cmd.stream, "thread.forked", cmd.source),
                    version |-> marker, rank |-> marker]
<1>1. /\ cmd.stream \in Projects \cup Threads /\ cmd.arg \in Args /\ cmd.source \in Args
      /\ "thread.forked" \in EventTypes
  BY CommandFields DEF EventTypes
<1>2. copied \in SUBSET StoredEvent
  <2>1. \A i \in DOMAIN log : log[i] \in StoredEvent
    OBVIOUS
  <2> QED BY <2>1
<1>3. marker \in Nat
  <2>1. versions \in SUBSET Nat /\ versions # {}
    BY <1>2 DEF StoredEvent
  <2>2. PICK b \in Nat : \A i \in DOMAIN log : log[i].version <= b
    BY VersionsBounded
  <2>3. \A n \in versions : n <= b
    BY <2>2
  <2>4. Max(versions) \in Nat
    <3> HIDE DEF versions
    <3> QED BY <2>1, <2>3, MaxOfBoundedNaturals
  <2> QED BY <2>4
<1> HIDE DEF copied, marker
<1>4. mark \in RowToInsert
  <2>1. Planned(cmd.stream, "thread.forked", cmd.source) \in PlannedEvent
    BY <1>1, PlannedType
  <2> QED BY <1>3, <2>1 DEF RowToInsert
<1>5. ASSUME NEW e \in copied
      PROVE  [event |-> Planned(cmd.stream, e.type, arg(e)), version |-> e.version,
              rank |-> e.version] \in RowToInsert
  <2>1. e.version \in Nat /\ e.type \in EventTypes /\ arg(e) \in Args
    BY <1>1, <1>2, <1>5 DEF StoredEvent
  <2> HIDE DEF arg
  <2>2. Planned(cmd.stream, e.type, arg(e)) \in PlannedEvent
    BY <1>1, <2>1, PlannedType
  <2> QED BY <2>1, <2>2 DEF RowToInsert
<1>6. copies \cup {mark} \in SUBSET RowToInsert /\ copies \cup {mark} # {}
  <2>1. copies \in SUBSET RowToInsert
    BY <1>5
  <2> HIDE DEF copies, mark
  <2> QED BY <1>4, <2>1
<1>7. ForkRows(cmd) = copies \cup {mark}
  BY DEF ForkRows, copied, marker
<1> QED BY <1>6, <1>7

(* An accepted command has rows to insert.                                 *)
LEMMA RowsToInsertType ==
  ASSUME log \in Seq(StoredEvent), NEW cmd \in Commands, Acceptable(cmd)
  PROVE  RowsToInsert(cmd) \in SUBSET RowToInsert /\ RowsToInsert(cmd) # {}
<1>1. CASE cmd.type = "chat.fork"
  BY <1>1, ForkRowsType DEF RowsToInsert
<1>2. CASE cmd.type # "chat.fork"
  <2> DEFINE planned == Plan(readModel, cmd)
  <2>1. planned \in Seq(PlannedEvent) /\ Len(planned) > 0
    BY <1>2, PlanType DEF Acceptable
  <2>2. RowsToInsert(cmd) =
          {[event |-> planned[i], version |-> None, rank |-> i] : i \in DOMAIN planned}
    BY <1>2 DEF RowsToInsert
  <2> HIDE DEF planned
  <2>3. DOMAIN planned = 1..Len(planned) /\ Len(planned) \in Nat
        /\ \A i \in 1..Len(planned) : planned[i] \in PlannedEvent
    BY <2>1
  <2>4. 1 \in DOMAIN planned
    BY <2>1, <2>3
  <2>5. \A i \in DOMAIN planned :
          [event |-> planned[i], version |-> None, rank |-> i] \in RowToInsert
    BY <2>3 DEF RowToInsert
  <2> QED BY <2>2, <2>4, <2>5
<1> QED BY <1>1, <1>2

LEMMA InsertVersionType ==
  ASSUME log \in Seq(StoredEvent), saved \in Seq(StoredEvent), NEW row \in RowToInsert
  PROVE  InsertVersion(row) \in Nat
<1>1. CASE row.version = None
  <2>1. log \o saved \in Seq(StoredEvent)
    BY ConcatProperties
  <2> QED BY <1>1, <2>1, NextVersionType DEF InsertVersion
<1>2. CASE row.version # None
  BY <1>2 DEF InsertVersion, RowToInsert
<1> QED BY <1>1, <1>2

-----------------------------------------------------------------------------

USE DEF durable, boot, memory, work, outbox, clients, counters, RejectsForGood

(* What the worker knows in each phase: the command it has in hand, the    *)
(* events it inserted for it, and the verdict its id can have by then.     *)
Working ==
  /\ phase \in {"append", "recover", "publish", "answer"} => current \in Commands
  /\ saved # <<>> => phase = "append" \/ (phase = "publish" /\ outcome = "ok")
  /\ \A i \in DOMAIN saved : saved[i].cmd = current.id
  /\ phase = "append" =>
       /\ outcome = "ok" /\ receipts[current.id].status = "none"
       /\ todo # {} \/ saved # <<>>
  /\ phase = "recover" => outcome \in {"rejected", "failed"}
  /\ phase = "publish" => outcome \in {"ok", "rejected", "failed"}
  /\ phase = "answer" => outcome = "rejected" /\ receipts[current.id].status # "accepted"
  /\ phase \in {"recover", "publish"} /\ outcome = "rejected" =>
       receipts[current.id].status = "none"
  /\ phase = "publish" /\ outcome = "ok" =>
       /\ saved # <<>>
       /\ receipts[current.id] = [status |-> "accepted", seq |-> Last(saved).sequence]
       /\ \E i \in DOMAIN log : log[i].cmd = current.id /\ log[i].sequence = Last(saved).sequence

-----------------------------------------------------------------------------
(* The last of some stored events has a sequence number.                   *)
LEMMA LastStored ==
  ASSUME NEW events \in Seq(StoredEvent), events # <<>>
  PROVE  /\ Last(events) \in StoredEvent /\ Last(events).sequence \in Nat
         /\ Last(events) = events[Len(events)] /\ Len(events) \in DOMAIN events
         /\ Len(events) \in Nat \ {0}
<1>1. Len(events) \in Nat \ {0} /\ Len(events) \in DOMAIN events
      /\ events[Len(events)] \in StoredEvent
  OBVIOUS
<1>2. events[Len(events)].sequence \in Nat
  BY <1>1 DEF StoredEvent
<1> QED BY <1>1, <1>2 DEF Last

(* Every initial state is well typed.                                      *)
LEMMA InitTyped == Init => TypeOK
<1> SUFFICES ASSUME Init PROVE TypeOK
  OBVIOUS
<1>1. log \in Seq(StoredEvent) /\ nextSequence \in Nat
  <2>1. LastSequence(InitialLog) \in Nat
    BY InitialLogAssumption, LastSequenceType
  <2> QED BY <2>1, InitialLogAssumption DEF Init
<1>2. receipts \in [CommandIds -> Receipt] /\ answer \in [CommandIds -> Answer]
      /\ issued \in [CommandIds -> Requests \cup {None}]
  BY DEF Init, Receipt, Answer
<1>3. applied \in [ProjectorSet -> Nat]
  <2>1. \A i \in DOMAIN InitialLog : InitialLog[i] \in StoredEvent
    BY InitialLogAssumption
  <2>2. {0} \cup {InitialLog[i].sequence : i \in DOMAIN InitialLog} \subseteq Nat
    BY <2>1 DEF StoredEvent
  <2> QED BY <2>2, InitialLogAssumption DEF Init
<1>4. projector \in DOMAIN Projectors
  BY DEF Init, Projectors
<1>5. queue \in Seq(Commands) /\ current \in Commands \cup {NoCommand}
      /\ replay \in Seq(StoredEvent) /\ saved \in Seq(StoredEvent)
      /\ toPublish \in Seq(StoredEvent) /\ published \in Seq(Nat)
      /\ todo \in SUBSET RowToInsert
  BY DEF Init
<1> QED BY <1>1, <1>2, <1>3, <1>4, <1>5 DEF Init, TypeOK

(* The required projectors are projectors, so a snapshot has a sequence.   *)
LEMMA SnapshotSequenceType ==
  ASSUME applied \in [ProjectorSet -> Nat]
  PROVE  Min({applied[p] : p \in RequiredSnapshotProjectors}) \in Nat
<1>1. RequiredSnapshotProjectors \subseteq ProjectorSet /\ RequiredSnapshotProjectors # {}
  BY DEF RequiredSnapshotProjectors, ProjectorSet, Projectors, Range
<1>2. {applied[p] : p \in RequiredSnapshotProjectors} \in SUBSET Nat
      /\ {applied[p] : p \in RequiredSnapshotProjectors} # {}
  BY <1>1
<1> QED BY <1>2, MinOfNaturals

LEMMA StartupTyped ==
  ASSUME TypeOK, Startup
  PROVE  TypeOK'
<1> USE DEF TypeOK
<1>0. \A from : ReadFromSequence(from) \in Seq(StoredEvent)
  BY ReadFromSequenceType
<1>1. CASE StartServer
  BY <1>0, <1>1 DEF StartServer, Backlog, Projectors
<1>2. CASE BootstrapEvent
  <2>1. Head(replay) \in StoredEvent /\ Tail(replay) \in Seq(StoredEvent)
    BY <1>2, HeadTailProperties DEF BootstrapEvent
  <2>2. Head(replay).sequence \in Nat
    BY <2>1 DEF StoredEvent
  <2>3. applied' \in [ProjectorSet -> Nat]
    BY <1>2, <2>2 DEF BootstrapEvent
  <2> QED BY <1>2, <2>1, <2>3 DEF BootstrapEvent
<1>3. CASE BootstrapNext
  <2>1. projector' \in DOMAIN Projectors
    BY <1>3 DEF BootstrapNext, Projectors
  <2> QED BY <1>0, <1>3, <2>1 DEF BootstrapNext, Backlog
<1>4. CASE LoadSnapshot
  BY <1>4, SnapshotSequenceType DEF LoadSnapshot
<1> QED BY <1>1, <1>2, <1>3, <1>4 DEF Startup

LEMMA ClientTyped ==
  ASSUME TypeOK, Client
  PROVE  TypeOK'
<1> USE DEF TypeOK
<1>1. PICK id \in CommandIds : Redispatch(id) \/ \E r \in Requests : Dispatch(id, r)
  BY DEF Client
<1>2. issued' \in [CommandIds -> Requests \cup {None}] /\ issued'[id] \in Requests
  BY <1>1 DEF Redispatch, Dispatch
<1>3. Enqueue(id)
  BY <1>1 DEF Redispatch, Dispatch
<1>4. CommandFor(id, issued'[id]) \in Commands
  BY <1>2 DEF Commands
<1>5. queue' \in Seq(Commands)
  BY <1>3, <1>4, AppendProperties DEF Enqueue
<1>6. answer' \in [CommandIds -> Answer]
  BY <1>3 DEF Enqueue, Answer
<1> QED BY <1>2, <1>3, <1>5, <1>6 DEF Enqueue

(* The head of the queue is a command.                                     *)
LEMMA QueueTyped ==
  ASSUME queue \in Seq(Commands), queue # <<>>
  PROVE  Head(queue) \in Commands /\ Tail(queue) \in Seq(Commands)
         /\ Head(queue).id \in CommandIds
<1>1. Head(queue) \in Commands /\ Tail(queue) \in Seq(Commands)
  BY HeadTailProperties
<1> QED BY <1>1, CommandFields

(* What Commit stores is typed, and so is the receipt it writes.           *)
LEMMA CommitTyped ==
  ASSUME TypeOK, Working, Commit
  PROVE  /\ log' \in Seq(StoredEvent) /\ applied' \in [ProjectorSet -> Nat]
         /\ receipts' \in [CommandIds -> Receipt]
         /\ saved # <<>> /\ Last(saved).sequence \in Nat
<1>1. saved # <<>>
  BY DEF Working, Commit
<1>2. Last(saved).sequence \in Nat
  BY <1>1, LastStored DEF TypeOK
<1>3. log' \in Seq(StoredEvent)
  BY ConcatProperties DEF Commit, TypeOK
<1>4. [status |-> "accepted", seq |-> Last(saved).sequence] \in Receipt
  BY <1>2 DEF Receipt
<1>5. receipts' \in [CommandIds -> Receipt]
  BY <1>4 DEF Commit, TypeOK
<1> QED BY <1>1, <1>2, <1>3, <1>5 DEF Commit

(* A rollback leaves the counter somewhere sensible.                       *)
LEMMA RollbackTyped ==
  ASSUME TypeOK
  PROVE  SequenceAfterRollback \in Nat
BY LastSequenceType DEF SequenceAfterRollback, TypeOK

LEMMA AppendTyped ==
  ASSUME TypeOK, AppendEvent
  PROVE  saved' \in Seq(StoredEvent) /\ saved' # <<>>
         /\ \E e \in StoredEvent : e.cmd = current.id /\ saved' = Append(saved, e)
<1>1. PICK row \in todo :
        saved' = Append(saved, [sequence |-> nextSequence, version |-> InsertVersion(row),
                                stream |-> row.event.stream, type |-> row.event.type,
                                arg |-> row.event.arg, cmd |-> current.id])
  BY DEF AppendEvent
<1> DEFINE e == [sequence |-> nextSequence, version |-> InsertVersion(row),
                 stream |-> row.event.stream, type |-> row.event.type,
                 arg |-> row.event.arg, cmd |-> current.id]
<1>2. row \in RowToInsert /\ row.event \in PlannedEvent
  BY DEF TypeOK, RowToInsert
<1>3. InsertVersion(row) \in Nat
  BY <1>2, InsertVersionType DEF TypeOK
<1>4. current.id \in CommandIds \cup {None}
  BY CommandFields DEF TypeOK, NoCommand
<1>5. e \in StoredEvent
  <2>1. nextSequence \in Nat
    BY DEF TypeOK
  <2>2. row.event.stream \in Projects \cup Threads /\ row.event.type \in EventTypes
        /\ row.event.arg \in Args
    BY <1>2 DEF PlannedEvent
  <2> QED BY <1>3, <1>4, <2>1, <2>2 DEF StoredEvent
<1>6. saved' = Append(saved, e) /\ e.cmd = current.id
  BY <1>1
<1>7. saved \in Seq(StoredEvent)
  BY DEF TypeOK
<1> HIDE DEF e
<1>8. saved' \in Seq(StoredEvent) /\ saved' # <<>>
  BY <1>5, <1>6, <1>7, AppendProperties
<1>9. \E x \in StoredEvent : x.cmd = current.id /\ saved' = Append(saved, x)
  BY <1>5, <1>6
<1> QED BY <1>8, <1>9

LEMMA ProcessTyped ==
  ASSUME TypeOK, Working, Process
  PROVE  TypeOK'
<1> USE DEF TypeOK
<1>1. CASE ReplayReceipt
  <2>1. Head(queue).id \in CommandIds /\ Tail(queue) \in Seq(Commands)
    BY <1>1, QueueTyped DEF ReplayReceipt
  <2>2. receipts[Head(queue).id].seq \in Nat
    BY <2>1 DEF Receipt
  <2>3. answer' \in [CommandIds -> Answer]
    <3>1. PICK kind \in {"ok", "rejected"}, n \in Nat :
            answer' = [answer EXCEPT ![Head(queue).id] = [kind |-> kind, seq |-> n]]
      BY <1>1, <2>2 DEF ReplayReceipt, Replied
    <3>2. [kind |-> kind, seq |-> n] \in Answer
      BY <3>1 DEF Answer
    <3> QED BY <3>1, <3>2
  <2> QED BY <1>1, <2>1, <2>3 DEF ReplayReceipt
<1>2. CASE BeginTransaction
  <2>1. Head(queue) \in Commands /\ Tail(queue) \in Seq(Commands)
    BY <1>2, QueueTyped DEF BeginTransaction, Take
  <2>2. todo' \in SUBSET RowToInsert
    <3>1. Acceptable(Head(queue)) /\ todo' = RowsToInsert(Head(queue))
      BY <1>2 DEF BeginTransaction
    <3> QED BY <2>1, <3>1, RowsToInsertType
  <2> QED BY <1>2, <2>1, <2>2 DEF BeginTransaction, Take
<1>3. CASE BreakInvariant
  <2>1. Head(queue) \in Commands /\ Tail(queue) \in Seq(Commands)
    BY <1>3, QueueTyped DEF BreakInvariant, Take
  <2> QED BY <1>3, <2>1 DEF BreakInvariant, Take
<1>4. CASE AppendEvent
  <2>1. saved' \in Seq(StoredEvent)
    BY <1>4, AppendTyped
  <2>2. todo' \in SUBSET RowToInsert
    BY <1>4 DEF AppendEvent
  <2> QED BY <1>4, <2>1, <2>2 DEF AppendEvent
<1>5. CASE ViolateUnique
  BY <1>5, RollbackTyped DEF ViolateUnique, Rollback
<1>6. CASE CommitAcknowledged
  <2>1. /\ log' \in Seq(StoredEvent) /\ applied' \in [ProjectorSet -> Nat]
        /\ receipts' \in [CommandIds -> Receipt] /\ Last(saved).sequence \in Nat
    BY <1>6, CommitTyped DEF CommitAcknowledged
  <2> QED BY <1>6, <2>1 DEF CommitAcknowledged, Commit
<1>7. CASE Reconcile
  <2> DEFINE found == ReadFromSequence(startSequence)
  <2>1. found \in Seq(StoredEvent)
    BY ReadFromSequenceType
  <2> HIDE DEF found
  <2>2. toPublish' \in Seq(StoredEvent) /\ snapshotSequence' \in Nat
    BY <1>7, <2>1, LastStored DEF Reconcile, found
  <2> QED BY <1>7, <2>2 DEF Reconcile
<1>8. CASE PublishEvent
  <2>1. Head(toPublish) \in StoredEvent /\ Tail(toPublish) \in Seq(StoredEvent)
    BY <1>8, HeadTailProperties DEF PublishEvent
  <2>2. Head(toPublish).sequence \in Nat
    BY <2>1 DEF StoredEvent
  <2>3. published' \in Seq(Nat)
    BY <1>8, <2>2, AppendProperties DEF PublishEvent
  <2> QED BY <1>8, <2>1, <2>3 DEF PublishEvent
<1>9. CASE RecordRejection
  <2>1. receipts' \in [CommandIds -> Receipt]
    <3>1. [status |-> "rejected", seq |-> snapshotSequence] \in Receipt
      BY DEF Receipt
    <3> QED BY <1>9, <3>1 DEF RecordRejection
  <2> QED BY <1>9, <2>1 DEF RecordRejection
<1>10. CASE AnswerClient
  <2>1. outcome = "ok" => Last(saved).sequence \in Nat
    BY <1>10, LastStored DEF AnswerClient, Working
  <2>2. answer' \in [CommandIds -> Answer]
    <3>1. PICK n \in Nat : answer' = [answer EXCEPT ![current.id] = [kind |-> outcome, seq |-> n]]
      BY <1>10, <2>1 DEF AnswerClient, Replied
    <3>2. [kind |-> outcome, seq |-> n] \in Answer
      BY <3>1 DEF Answer
    <3> QED BY <3>1, <3>2
  <2> QED BY <1>10, <2>2 DEF AnswerClient
<1> QED BY <1>1, <1>2, <1>3, <1>4, <1>5, <1>6, <1>7, <1>8, <1>9, <1>10 DEF Process

LEMMA FailureTyped ==
  ASSUME TypeOK, Working, StorageFailure
  PROVE  TypeOK'
<1> USE DEF TypeOK
<1>1. CASE FailLookup
  <2>1. Head(queue) \in Commands /\ Tail(queue) \in Seq(Commands)
    BY <1>1, QueueTyped DEF FailLookup, Take
  <2> QED BY <1>1, <2>1 DEF FailLookup, Take
<1>2. CASE FailTransaction
  BY <1>2, RollbackTyped DEF FailTransaction, Rollback
<1>3. CASE CommitUnacknowledged
  <2>1. /\ log' \in Seq(StoredEvent) /\ applied' \in [ProjectorSet -> Nat]
        /\ receipts' \in [CommandIds -> Receipt]
    BY <1>3, CommitTyped DEF CommitUnacknowledged
  <2> QED BY <1>3, <2>1 DEF CommitUnacknowledged, Commit
<1>4. CASE FailReconcile
  BY <1>4 DEF FailReconcile
<1> QED BY <1>1, <1>2, <1>3, <1>4 DEF StorageFailure

LEMMA CrashTyped ==
  ASSUME TypeOK, Crash
  PROVE  TypeOK'
<1> USE DEF TypeOK
<1>1. nextSequence' \in Nat
  BY RollbackTyped DEF Crash
<1>2. answer' \in [CommandIds -> Answer]
  BY DEF Crash, Answer
<1>3. projector' \in DOMAIN Projectors
  BY DEF Crash, Projectors
<1>4. /\ queue' \in Seq(Commands) /\ replay' \in Seq(StoredEvent) /\ saved' \in Seq(StoredEvent)
      /\ toPublish' \in Seq(StoredEvent) /\ published' \in Seq(Nat)
      /\ todo' \in SUBSET RowToInsert
  BY DEF Crash
<1>5. /\ log' \in Seq(StoredEvent) /\ receipts' \in [CommandIds -> Receipt]
      /\ applied' \in [ProjectorSet -> Nat] /\ issued' \in [CommandIds -> Requests \cup {None}]
      /\ failures' \in Nat /\ runs' \in Nat
  BY DEF Crash
<1>6. /\ phase' = "down" /\ snapshotSequence' = 0 /\ startSequence' = 0 /\ runStart' = 0
      /\ current' = NoCommand /\ outcome' = "none"
      /\ unreconciled' = FALSE /\ truncated' = truncated
  BY DEF Crash
<1> QED BY <1>1, <1>2, <1>3, <1>4, <1>5, <1>6

-----------------------------------------------------------------------------
(* The worker's knowledge is kept: one step per action that works on the   *)
(* command, the others leave it alone.                                     *)
LEMMA CommitWorking ==
  ASSUME TypeOK, Working, Commit
  PROVE  /\ current \in Commands /\ saved # <<>> /\ receipts[current.id].status = "none"
         /\ receipts'[current.id] = [status |-> "accepted", seq |-> Last(saved).sequence]
         /\ \E i \in DOMAIN log' :
              log'[i].cmd = current.id /\ log'[i].sequence = Last(saved).sequence
<1>1. current \in Commands /\ saved # <<>> /\ receipts[current.id].status = "none"
  BY DEF Working, Commit
<1>2. current.id \in CommandIds
  BY <1>1, CommandFields
<1>3. receipts'[current.id] = [status |-> "accepted", seq |-> Last(saved).sequence]
  BY <1>2 DEF TypeOK, Commit
<1> DEFINE n == Len(log) + Len(saved)
<1>4. /\ log \in Seq(StoredEvent) /\ saved \in Seq(StoredEvent) /\ log' = log \o saved
  BY DEF TypeOK, Commit
<1>5. Len(log) \in Nat /\ Len(saved) \in Nat \ {0} /\ Last(saved) = saved[Len(saved)]
      /\ Len(saved) \in DOMAIN saved
  BY <1>1, <1>4, LastStored
<1>6. n \in DOMAIN log' /\ log'[n] = saved[Len(saved)]
  <2>1. Len(log') = n /\ log' \in Seq(StoredEvent)
        /\ log'[n] = IF n <= Len(log) THEN log[n] ELSE saved[n - Len(log)]
    BY <1>4, <1>5, ConcatProperties
  <2> QED BY <1>5, <2>1
<1>7. saved[Len(saved)].cmd = current.id
  BY <1>5 DEF Working
<1> QED BY <1>1, <1>3, <1>5, <1>6, <1>7

LEMMA WorkingKept ==
  ASSUME TypeOK, Working, [Next]_vars
  PROVE  Working'
<1> USE DEF Working
<1>1. CASE Startup
  BY <1>1 DEF Startup, StartServer, BootstrapEvent, BootstrapNext, LoadSnapshot
<1>2. CASE Client
  <2>1. PICK id \in CommandIds : Enqueue(id)
    BY <1>2 DEF Client, Redispatch, Dispatch
  <2> QED BY <2>1 DEF Enqueue
<1>3. CASE ReplayReceipt
  BY <1>3 DEF ReplayReceipt
<1>4. CASE BeginTransaction
  <2>1. Head(queue) \in Commands
    BY <1>4, QueueTyped DEF BeginTransaction, Take, TypeOK
  <2>2. todo' # {}
    <3>1. Acceptable(Head(queue)) /\ todo' = RowsToInsert(Head(queue))
      BY <1>4 DEF BeginTransaction
    <3> QED BY <2>1, <3>1, RowsToInsertType DEF TypeOK
  <2> QED BY <1>4, <2>1, <2>2 DEF BeginTransaction, Take, Fresh
<1>5. CASE BreakInvariant
  <2>1. Head(queue) \in Commands
    BY <1>5, QueueTyped DEF BreakInvariant, Take, TypeOK
  <2> QED BY <1>5, <2>1 DEF BreakInvariant, Take, Fresh
<1>6. CASE FailLookup
  <2>1. Head(queue) \in Commands
    BY <1>6, QueueTyped DEF FailLookup, Take, TypeOK
  <2> QED BY <1>6, <2>1 DEF FailLookup, Take
<1>7. CASE AppendEvent
  <2>1. PICK e \in StoredEvent : e.cmd = current.id /\ saved' = Append(saved, e)
    BY <1>7, AppendTyped
  <2>2. saved' # <<>>
    BY <1>7, AppendTyped
  <2>3. \A i \in DOMAIN saved' : saved'[i].cmd = current.id
    BY <2>1, AppendProperties DEF TypeOK
  <2> QED BY <1>7, <2>2, <2>3 DEF AppendEvent
<1>8. CASE ViolateUnique \/ FailTransaction
  BY <1>8 DEF ViolateUnique, FailTransaction, Rollback
<1>9. CASE CommitAcknowledged
  <2>1. Commit
    BY <1>9 DEF CommitAcknowledged
  <2> QED BY <1>9, <2>1, CommitWorking DEF CommitAcknowledged, Commit
<1>10. CASE CommitUnacknowledged
  BY <1>10 DEF CommitUnacknowledged, Commit
<1>11. CASE Reconcile \/ FailReconcile \/ PublishEvent
  BY <1>11 DEF Reconcile, FailReconcile, PublishEvent
<1>12. CASE RecordRejection
  <2>1. current.id \in CommandIds
    BY <1>12, CommandFields DEF RecordRejection
  <2> QED BY <1>12, <2>1 DEF RecordRejection, TypeOK
<1>13. CASE AnswerClient
  BY <1>13 DEF AnswerClient
<1>14. CASE Crash
  BY <1>14 DEF Crash
<1>15. CASE UNCHANGED vars
  BY <1>15 DEF vars
<1> QED BY <1>1, <1>2, <1>3, <1>4, <1>5, <1>6, <1>7, <1>8, <1>9, <1>10, <1>11, <1>12,
           <1>13, <1>14, <1>15 DEF Next, Process, StorageFailure

LEMMA InitWorking == Init => Working
BY DEF Init, Working

LEMMA StepTyped ==
  ASSUME TypeOK, Working, [Next]_vars
  PROVE  TypeOK'
<1>1. CASE UNCHANGED vars
  BY <1>1 DEF vars, TypeOK
<1> QED BY <1>1, StartupTyped, ProcessTyped, FailureTyped, ClientTyped, CrashTyped DEF Next

LEMMA Reachable == Spec => [](TypeOK /\ Working)
<1>1. Init => TypeOK /\ Working
  BY InitTyped, InitWorking
<1>2. TypeOK /\ Working /\ [Next]_vars => (TypeOK /\ Working)'
  BY StepTyped, WorkingKept
<1> QED BY <1>1, <1>2, PTL DEF Spec

(* Every reachable state is well typed: no operation of the engine, no     *)
(* failure and no restart leaves it with a value of the wrong shape.       *)
THEOREM TypeCorrect == Spec => []TypeOK
BY Reachable, PTL

-----------------------------------------------------------------------------
(* Only Commit and RecordRejection touch the log or a receipt, and both    *)
(* find the receipt of the current command blank.                          *)
Unrecorded(id) == receipts[id].status = "none"

LEMMA LogAndReceipts ==
  ASSUME TypeOK, Working, [Next]_vars
  PROVE  \/ log' = log /\ receipts' = receipts
         \/ Commit
         \/ /\ log' = log /\ current \in Commands /\ Unrecorded(current.id)
            /\ receipts' = [receipts EXCEPT ![current.id] =
                              [status |-> "rejected", seq |-> snapshotSequence]]
<1>1. CASE Startup
  BY <1>1 DEF Startup, StartServer, BootstrapEvent, BootstrapNext, LoadSnapshot
<1>2. CASE Client
  BY <1>2 DEF Client, Redispatch, Dispatch, Enqueue
<1>3. CASE ReplayReceipt \/ BeginTransaction \/ BreakInvariant \/ FailLookup
  BY <1>3 DEF ReplayReceipt, BeginTransaction, BreakInvariant, FailLookup, Take
<1>4. CASE AppendEvent \/ ViolateUnique \/ FailTransaction
  BY <1>4 DEF AppendEvent, ViolateUnique, FailTransaction, Rollback
<1>5. CASE CommitAcknowledged \/ CommitUnacknowledged
  BY <1>5 DEF CommitAcknowledged, CommitUnacknowledged
<1>6. CASE Reconcile \/ FailReconcile \/ PublishEvent \/ AnswerClient \/ Crash
  BY <1>6 DEF Reconcile, FailReconcile, PublishEvent, AnswerClient, Crash
<1>7. CASE RecordRejection
  BY <1>7 DEF RecordRejection, Working, Unrecorded
<1>8. CASE UNCHANGED vars
  BY <1>8 DEF vars
<1> QED BY <1>1, <1>2, <1>3, <1>4, <1>5, <1>6, <1>7, <1>8 DEF Next, Process, StorageFailure

(* A receipt, once written, stays as it is.                                *)
LEMMA ReceiptsKept ==
  ASSUME TypeOK, Working, [Next]_vars
  PROVE  \A id \in CommandIds : receipts[id].status # "none" => receipts'[id] = receipts[id]
<1>1. CASE Commit
  BY <1>1, CommitWorking DEF Commit, TypeOK
<1>2. CASE ~Commit
  BY <1>2, LogAndReceipts DEF TypeOK, Unrecorded
<1> QED BY <1>1, <1>2

(* A verdict on a command id is final, whatever is dispatched, fails or    *)
(* restarts afterwards: the receipt lookup of processStandardEnvelope and  *)
(* processForkEnvelope answers every retry alike.                          *)
THEOREM ReceiptsAreFinal == Spec => ReceiptsFinal
<1>1. TypeOK /\ Working /\ [Next]_vars
        => [\A id \in CommandIds :
              receipts[id].status # "none" => receipts'[id] = receipts[id]]_vars
  BY ReceiptsKept
<1> QED BY <1>1, Reachable, PTL DEF Spec, ReceiptsFinal

(* How Commit extends the log.                                             *)
LEMMA CommitExtendsLog ==
  ASSUME TypeOK, Working, Commit
  PROVE  /\ Len(log) \in Nat /\ Len(saved) \in Nat \ {0}
         /\ DOMAIN log = 1..Len(log) /\ DOMAIN log' = 1..(Len(log) + Len(saved))
         /\ Len(log') = Len(log) + Len(saved)
         /\ \A i \in 1..Len(log) : log'[i] = log[i]
         /\ \A i \in Len(log) + 1 .. Len(log) + Len(saved) : log'[i].cmd = current.id
         /\ log'[Len(log) + Len(saved)].sequence = Last(saved).sequence
<1>1. /\ log \in Seq(StoredEvent) /\ saved \in Seq(StoredEvent) /\ log' = log \o saved
      /\ saved # <<>>
  BY CommitWorking DEF TypeOK, Commit
<1>2. /\ Len(log) \in Nat /\ Len(saved) \in Nat \ {0} /\ Last(saved) = saved[Len(saved)]
      /\ DOMAIN log = 1..Len(log) /\ DOMAIN saved = 1..Len(saved)
  BY <1>1, LastStored
<1>3. /\ log' \in Seq(StoredEvent) /\ Len(log') = Len(log) + Len(saved)
      /\ \A i \in 1 .. Len(log) + Len(saved) :
           log'[i] = IF i <= Len(log) THEN log[i] ELSE saved[i - Len(log)]
  BY <1>1, ConcatProperties
<1>4. DOMAIN log' = 1..(Len(log) + Len(saved))
  BY <1>3
<1>5. \A i \in 1..Len(log) : log'[i] = log[i]
  BY <1>2, <1>3
<1>6. \A i \in Len(log) + 1 .. Len(log) + Len(saved) : log'[i].cmd = current.id
  <2>1. TAKE i \in Len(log) + 1 .. Len(log) + Len(saved)
  <2>2. i - Len(log) \in DOMAIN saved /\ log'[i] = saved[i - Len(log)]
    BY <1>2, <1>3
  <2> QED BY <2>2 DEF Working
<1>7. log'[Len(log) + Len(saved)] = saved[Len(saved)]
  BY <1>2, <1>3
<1> QED BY <1>2, <1>3, <1>4, <1>5, <1>6, <1>7

LEMMA ExactlyOnceKept ==
  ASSUME TypeOK, Working, ExactlyOnce, [Next]_vars
  PROVE  ExactlyOnce'
<1> USE DEF ExactlyOnce
<1>1. CASE log' = log /\ receipts' = receipts
  BY <1>1
<1>2. CASE Commit
  <2> SUFFICES ASSUME NEW id \in CommandIds
               PROVE  IF receipts'[id].status = "accepted"
                      THEN \E first, last \in DOMAIN log' :
                             /\ first <= last /\ log'[last].sequence = receipts'[id].seq
                             /\ \A i \in DOMAIN log' :
                                  log'[i].cmd = id <=> first <= i /\ i <= last
                      ELSE \A i \in DOMAIN log' : log'[i].cmd # id
    OBVIOUS
  <2>1. /\ Len(log) \in Nat /\ Len(saved) \in Nat \ {0}
        /\ DOMAIN log = 1..Len(log) /\ DOMAIN log' = 1..(Len(log) + Len(saved))
        /\ \A i \in 1..Len(log) : log'[i] = log[i]
        /\ \A i \in Len(log) + 1 .. Len(log) + Len(saved) : log'[i].cmd = current.id
        /\ log'[Len(log) + Len(saved)].sequence = Last(saved).sequence
    BY <1>2, CommitExtendsLog
  <2>2. /\ receipts[current.id].status = "none" /\ current.id \in CommandIds
        /\ receipts'[current.id] = [status |-> "accepted", seq |-> Last(saved).sequence]
    BY <1>2, CommitWorking, CommandFields
  <2>3. CASE id = current.id
    <3>1. \A i \in DOMAIN log : log[i].cmd # id
      BY <2>2, <2>3
    <3>2. Len(log) + 1 \in DOMAIN log' /\ Len(log) + Len(saved) \in DOMAIN log'
          /\ Len(log) + 1 <= Len(log) + Len(saved)
      BY <2>1
    <3>3. \A i \in DOMAIN log' :
            log'[i].cmd = id <=> Len(log) + 1 <= i /\ i <= Len(log) + Len(saved)
      BY <2>1, <2>3, <3>1
    <3> QED BY <2>1, <2>2, <2>3, <3>2, <3>3
  <2>4. CASE id # current.id
    <3>1. receipts'[id] = receipts[id]
      BY <1>2, <2>4 DEF Commit, TypeOK
    <3>2. \A i \in DOMAIN log' : log'[i].cmd = id => i \in DOMAIN log /\ log[i].cmd = id
      BY <2>1, <2>4
    <3>3. CASE receipts[id].status = "accepted"
      <4>1. PICK first, last \in DOMAIN log :
              /\ first <= last /\ log[last].sequence = receipts[id].seq
              /\ \A i \in DOMAIN log : log[i].cmd = id <=> first <= i /\ i <= last
        BY <3>3
      <4>2. first \in DOMAIN log' /\ last \in DOMAIN log' /\ log'[last] = log[last]
        BY <2>1, <4>1
      <4>3. \A i \in DOMAIN log' : log'[i].cmd = id <=> first <= i /\ i <= last
        BY <2>1, <3>2, <4>1
      <4> QED BY <3>1, <3>3, <4>1, <4>2, <4>3
    <3>4. CASE receipts[id].status # "accepted"
      BY <2>1, <3>1, <3>2, <3>4
    <3> QED BY <3>3, <3>4
  <2> QED BY <2>3, <2>4
<1>3. ASSUME log' = log, current \in Commands, Unrecorded(current.id),
             receipts' = [receipts EXCEPT ![current.id] =
                            [status |-> "rejected", seq |-> snapshotSequence]]
      PROVE  ExactlyOnce'
  <2>1. \A id \in CommandIds : receipts'[id] = receipts[id]
          \/ (receipts[id].status = "none" /\ receipts'[id].status = "rejected")
    <3>1. TAKE id \in CommandIds
    <3>2. receipts \in [CommandIds -> Receipt]
      BY DEF TypeOK
    <3>3. CASE id = current.id
      <4>1. receipts'[id] = [status |-> "rejected", seq |-> snapshotSequence]
        BY <1>3, <3>2, <3>3
      <4> QED BY <1>3, <3>3, <4>1 DEF Unrecorded
    <3>4. CASE id # current.id
      BY <1>3, <3>2, <3>4
    <3> QED BY <3>3, <3>4
  <2>2. log' = log
    BY <1>3
  <2>3. ASSUME NEW id \in CommandIds, receipts'[id].status = "accepted"
        PROVE  \E first, last \in DOMAIN log' :
                 /\ first <= last /\ log'[last].sequence = receipts'[id].seq
                 /\ \A i \in DOMAIN log' : log'[i].cmd = id <=> first <= i /\ i <= last
    <3>1. receipts'[id] = receipts[id]
      BY <2>1, <2>3
    <3> QED BY <2>2, <2>3, <3>1
  <2>4. ASSUME NEW id \in CommandIds, receipts'[id].status # "accepted"
        PROVE  \A i \in DOMAIN log' : log'[i].cmd # id
    <3>1. receipts[id].status # "accepted"
      BY <2>1, <2>4
    <3> QED BY <2>2, <3>1
  <2> QED BY <2>3, <2>4
<1> QED BY <1>1, <1>2, <1>3, LogAndReceipts

(* A command takes effect at most once and wholly, although clients retry, *)
(* the transaction can fail at every step, a commit can succeed unseen and *)
(* the server can crash anywhere: receipt and events share a transaction,  *)
(* and a fresh command is one whose id has no receipt.                     *)
THEOREM CommandsTakeEffectOnce == Spec => []ExactlyOnce
<1>1. Init => ExactlyOnce
  BY NamesAssumption, InitialLogAssumption DEF Init, ExactlyOnce
<1>2. TypeOK /\ Working /\ ExactlyOnce /\ [Next]_vars => ExactlyOnce'
  BY ExactlyOnceKept
<1> QED BY <1>1, <1>2, Reachable, PTL DEF Spec

-----------------------------------------------------------------------------
(* The four ways in which answers change.                                  *)
AnswersSame == answer' = answer
AnswersLost == answer' = [id \in CommandIds |->
                            IF answer[id].kind = "pending" THEN [kind |-> "lost", seq |-> 0]
                            ELSE answer[id]]
AnswersOk(id) == /\ receipts[id].status = "accepted"
                 /\ answer' = [answer EXCEPT ![id] = [kind |-> "ok", seq |-> receipts[id].seq]]
AnswersOther(id) ==
  \E kind \in {"pending", "rejected", "failed"} :
     /\ kind = "rejected" => receipts[id].status # "accepted"
     /\ answer' = [answer EXCEPT ![id] = [kind |-> kind, seq |-> 0]]

LEMMA AnswersChange ==
  ASSUME TypeOK, Working, [Next]_vars
  PROVE  \/ AnswersSame
         \/ /\ log' = log /\ receipts' = receipts
            /\ AnswersLost \/ \E id \in CommandIds : AnswersOk(id) \/ AnswersOther(id)
<1>1. CASE Startup
  BY <1>1 DEF Startup, StartServer, BootstrapEvent, BootstrapNext, LoadSnapshot, AnswersSame
<1>2. CASE Client
  <2>1. PICK id \in CommandIds : Enqueue(id)
    BY <1>2 DEF Client, Redispatch, Dispatch
  <2>2. log' = log /\ receipts' = receipts /\ AnswersOther(id)
    BY <2>1 DEF Enqueue, AnswersOther
  <2> QED BY <2>2
<1>3. CASE ReplayReceipt
  <2>1. Head(queue).id \in CommandIds
    BY <1>3, QueueTyped DEF ReplayReceipt, TypeOK
  <2>2. log' = log /\ receipts' = receipts
        /\ (AnswersOk(Head(queue).id) \/ AnswersOther(Head(queue).id))
    BY <1>3 DEF ReplayReceipt, Replied, AnswersOk, AnswersOther
  <2> QED BY <2>1, <2>2
<1>4. CASE BeginTransaction \/ BreakInvariant \/ FailLookup
  BY <1>4 DEF BeginTransaction, BreakInvariant, FailLookup, Take, AnswersSame
<1>5. CASE AppendEvent \/ ViolateUnique \/ FailTransaction
  BY <1>5 DEF AppendEvent, ViolateUnique, FailTransaction, Rollback, AnswersSame
<1>6. CASE CommitAcknowledged \/ CommitUnacknowledged
  BY <1>6 DEF CommitAcknowledged, CommitUnacknowledged, Commit, AnswersSame
<1>7. CASE Reconcile \/ FailReconcile \/ PublishEvent \/ RecordRejection
  BY <1>7 DEF Reconcile, FailReconcile, PublishEvent, RecordRejection, AnswersSame
<1>8. CASE AnswerClient
  <2>1. current.id \in CommandIds /\ log' = log /\ receipts' = receipts
    BY <1>8, CommandFields DEF AnswerClient, Working
  <2>2. CASE outcome = "ok"
    <3>1. phase = "publish" /\ receipts[current.id] =
            [status |-> "accepted", seq |-> Last(saved).sequence]
      BY <1>8, <2>2 DEF AnswerClient, Working
    <3>2. AnswersOk(current.id)
      BY <1>8, <2>2, <3>1 DEF AnswerClient, Replied, AnswersOk
    <3> QED BY <2>1, <3>2
  <2>3. CASE outcome # "ok"
    <3>1. outcome \in {"rejected", "failed"}
          /\ (outcome = "rejected" => receipts[current.id].status # "accepted")
      BY <1>8, <2>3 DEF AnswerClient, Working
    <3>2. AnswersOther(current.id)
      BY <1>8, <2>3, <3>1 DEF AnswerClient, Replied, AnswersOther
    <3> QED BY <2>1, <3>2
  <2> QED BY <2>2, <2>3
<1>9. CASE Crash
  BY <1>9 DEF Crash, AnswersLost
<1>10. CASE UNCHANGED vars
  BY <1>10 DEF vars, AnswersSame
<1> QED BY <1>1, <1>2, <1>3, <1>4, <1>5, <1>6, <1>7, <1>8, <1>9, <1>10
        DEF Next, Process, StorageFailure

(* The log only grows.                                                     *)
LEMMA LogGrows ==
  ASSUME TypeOK, Working, [Next]_vars, NEW i \in DOMAIN log
  PROVE  i \in DOMAIN log' /\ log'[i] = log[i]
<1>1. CASE Commit
  BY <1>1, CommitExtendsLog
<1>2. CASE ~Commit
  BY <1>2, LogAndReceipts
<1> QED BY <1>1, <1>2

LEMMA OkMeansStoredKept ==
  ASSUME TypeOK, Working, ExactlyOnce, OkMeansStored, [Next]_vars
  PROVE  OkMeansStored'
<1> SUFFICES ASSUME NEW id \in CommandIds, answer'[id].kind = "ok"
             PROVE  /\ receipts'[id] = [status |-> "accepted", seq |-> answer'[id].seq]
                    /\ \E i \in DOMAIN log' :
                         log'[i].cmd = id /\ log'[i].sequence = answer'[id].seq
  BY DEF OkMeansStored
<1>1. CASE answer'[id] = answer[id]
  <2>1. /\ receipts[id] = [status |-> "accepted", seq |-> answer[id].seq]
        /\ \E i \in DOMAIN log : log[i].cmd = id /\ log[i].sequence = answer[id].seq
    BY <1>1 DEF OkMeansStored
  <2>2. receipts'[id] = receipts[id]
    BY <2>1, ReceiptsKept
  <2> QED BY <1>1, <2>1, <2>2, LogGrows
<1>2. CASE answer'[id] # answer[id]
  <2>1. AnswersOk(id) /\ log' = log /\ receipts' = receipts
    <3>1. ~AnswersSame /\ ~AnswersLost
      BY <1>2 DEF AnswersSame, AnswersLost
    <3>2. PICK other \in CommandIds : AnswersOk(other) \/ AnswersOther(other)
      BY <3>1, AnswersChange
    <3>3. answer \in [CommandIds -> Answer]
      BY DEF TypeOK
    <3>4. other = id
      BY <1>2, <3>2, <3>3 DEF AnswersOk, AnswersOther
    <3>5. ~AnswersOther(id)
      BY <3>3 DEF AnswersOther
    <3> QED BY <3>1, <3>2, <3>4, <3>5, AnswersChange
  <2>2. receipts[id].status = "accepted" /\ answer'[id].seq = receipts[id].seq
    BY <2>1 DEF AnswersOk, TypeOK
  <2>3. \E i \in DOMAIN log : log[i].cmd = id /\ log[i].sequence = receipts[id].seq
    <3>1. PICK first, last \in DOMAIN log :
            /\ first <= last /\ log[last].sequence = receipts[id].seq
            /\ \A i \in DOMAIN log : log[i].cmd = id <=> first <= i /\ i <= last
      BY <2>2 DEF ExactlyOnce
    <3>2. last <= last
      BY DEF TypeOK
    <3> QED BY <3>1, <3>2
  <2>4. receipts[id] = [status |-> "accepted", seq |-> answer'[id].seq]
    BY <2>2 DEF TypeOK, Receipt
  <2> QED BY <2>1, <2>2, <2>3, <2>4
<1> QED BY <1>1, <1>2

(* A client that is told that its command went through can rely on it: the *)
(* event with the sequence number it is told is in the log and stays       *)
(* there, and its receipt carries that number, also when the answer comes  *)
(* from a receipt of an earlier dispatch.                                  *)
THEOREM OkIsStored == Spec => []OkMeansStored
<1>1. Init => OkMeansStored
  BY DEF Init, OkMeansStored
<1>2. TypeOK /\ Working /\ ExactlyOnce /\ OkMeansStored /\ [Next]_vars => OkMeansStored'
  BY OkMeansStoredKept
<1> QED BY <1>1, <1>2, Reachable, CommandsTakeEffectOnce, PTL DEF Spec

-----------------------------------------------------------------------------
(* The engine implements the abstract command log: commits are Accept,     *)
(* recorded rejections Reject, every answer is a Tell, a crash disconnects *)
(* the clients and every other step stutters.                              *)
entriesOf == [i \in DOMAIN log |-> log[i].cmd]
verdictOf == [id \in CommandIds |-> receipts[id].status]
toldOf    == [id \in CommandIds |-> answer[id].kind]

LEMMA InitRefines == Init => Promise!Init
BY DEF Init, Promise!Init

LEMMA CommitRefines ==
  ASSUME TypeOK, Working, Commit, NEW id \in CommandIds, id = current.id
  PROVE  Promise!Accept(id)
<1>1. /\ Len(log) \in Nat /\ Len(saved) \in Nat \ {0}
      /\ DOMAIN log = 1..Len(log) /\ DOMAIN log' = 1..(Len(log) + Len(saved))
      /\ \A i \in 1..Len(log) : log'[i] = log[i]
      /\ \A i \in Len(log) + 1 .. Len(log) + Len(saved) : log'[i].cmd = current.id
  BY CommitExtendsLog
<1>2. /\ Unrecorded(current.id) /\ current.id \in CommandIds
      /\ receipts' = [receipts EXCEPT ![current.id] =
                        [status |-> "accepted", seq |-> Last(saved).sequence]]
      /\ toldOf' = toldOf
  BY CommitWorking, CommandFields DEF Commit, Unrecorded, toldOf
<1>3. verdictOf[current.id] = "none" /\ verdictOf' = [verdictOf EXCEPT ![current.id] = "accepted"]
  BY <1>2 DEF verdictOf, Unrecorded, TypeOK
<1>4. Len(entriesOf) = Len(log) /\ Len(entriesOf') = Len(log) + Len(saved)
      /\ entriesOf \in Seq(CommandIds \cup {None})
  <2>1. \A i \in 1..Len(log) : log[i].cmd \in CommandIds \cup {None}
    <3>1. \A i \in DOMAIN log : log[i] \in StoredEvent
      BY DEF TypeOK
    <3> QED BY <1>1, <3>1 DEF StoredEvent
  <2>2. entriesOf = [i \in 1..Len(log) |-> log[i].cmd]
        /\ entriesOf' = [i \in 1..(Len(log) + Len(saved)) |-> log'[i].cmd]
    BY <1>1 DEF entriesOf
  <2>3. Len(entriesOf) = Len(log) /\ entriesOf \in Seq(CommandIds \cup {None})
    BY <1>1, <2>1, <2>2
  <2>4. Len(log) + Len(saved) \in Nat
    BY <1>1
  <2>5. Len(entriesOf') = Len(log) + Len(saved)
    BY <2>2, <2>4
  <2> QED BY <2>3, <2>5
<1>5. SubSeq(entriesOf', 1, Len(entriesOf)) = entriesOf
  <2>1. \A i \in 1..Len(log) : entriesOf'[i] = entriesOf[i]
        /\ entriesOf'[i] \in CommandIds \cup {None}
    BY <1>1, <1>4 DEF entriesOf
  <2> DEFINE s == SubSeq(entriesOf', 1, Len(log))
  <2>2. s \in Seq(CommandIds \cup {None}) /\ Len(s) = Len(log)
        /\ \A i \in 1..Len(log) : s[i] = entriesOf'[i]
    BY <1>1, <2>1, SubSeqProperties
  <2> HIDE DEF s
  <2>3. s = entriesOf
    BY <1>1, <1>4, <2>1, <2>2
  <2> QED BY <1>4, <2>3 DEF s
<1>6. \A i \in Len(entriesOf) + 1 .. Len(entriesOf') : entriesOf'[i] = current.id
  BY <1>1, <1>4 DEF entriesOf
<1> QED BY <1>1, <1>2, <1>3, <1>4, <1>5, <1>6
        DEF Promise!Accept, entriesOf, verdictOf, toldOf

(* Every other step answers a client, records a rejection or stutters.     *)
LEMMA AnswerRefines ==
  ASSUME TypeOK, ~AnswersSame, log' = log, receipts' = receipts,
         AnswersLost \/ \E id \in CommandIds : AnswersOk(id) \/ AnswersOther(id)
  PROVE  Promise!Next
<1>1. entriesOf' = entriesOf /\ verdictOf' = verdictOf
  BY DEF entriesOf, verdictOf
<1>2. answer \in [CommandIds -> Answer]
  BY DEF TypeOK
<1>3. CASE AnswersLost
  <2>1. toldOf' = [id \in CommandIds |-> IF toldOf[id] = "pending" THEN "lost" ELSE toldOf[id]]
    BY <1>3 DEF AnswersLost, toldOf
  <2>2. Promise!Disconnect
    BY <1>1, <2>1 DEF Promise!Disconnect, entriesOf, verdictOf, toldOf
  <2> QED BY <2>2 DEF Promise!Next
<1>4. CASE \E id \in CommandIds : AnswersOk(id) \/ AnswersOther(id)
  <2>1. PICK id \in CommandIds : AnswersOk(id) \/ AnswersOther(id)
    BY <1>4
  <2>2. CASE AnswersOk(id)
    <3>1. toldOf' = [toldOf EXCEPT ![id] = "ok"] /\ verdictOf[id] = "accepted"
      BY <1>2, <2>2 DEF AnswersOk, toldOf, verdictOf
    <3> QED BY <1>1, <3>1 DEF Promise!Tell, Promise!Next, entriesOf, verdictOf, toldOf
  <2>3. CASE AnswersOther(id)
    <3>1. PICK kind \in {"pending", "rejected", "failed"} :
            /\ kind = "rejected" => receipts[id].status # "accepted"
            /\ answer' = [answer EXCEPT ![id] = [kind |-> kind, seq |-> 0]]
      BY <2>3 DEF AnswersOther
    <3>2. toldOf' = [toldOf EXCEPT ![id] = kind]
          /\ (kind = "rejected" => verdictOf[id] # "accepted")
      BY <1>2, <3>1 DEF toldOf, verdictOf
    <3>3. Promise!Tell(id)
      BY <1>1, <3>1, <3>2 DEF Promise!Tell, entriesOf, verdictOf, toldOf
    <3> QED BY <3>3 DEF Promise!Next
  <2> QED BY <2>1, <2>2, <2>3
<1> QED BY <1>3, <1>4

LEMMA NextRefines ==
  ASSUME TypeOK, Working, [Next]_vars
  PROVE  [Promise!Next]_<<entriesOf, verdictOf, toldOf>>
<1>1. CASE Commit
  <2>1. PICK id \in CommandIds : id = current.id
    BY <1>1, CommitWorking, CommandFields
  <2>2. Promise!Accept(id)
    BY <1>1, <2>1, CommitRefines
  <2> QED BY <2>2 DEF Promise!Next
<1>2. CASE ~AnswersSame
  <2>1. /\ log' = log /\ receipts' = receipts
        /\ AnswersLost \/ \E id \in CommandIds : AnswersOk(id) \/ AnswersOther(id)
    BY <1>2, AnswersChange
  <2> QED BY <1>2, <2>1, AnswerRefines
<1>3. CASE AnswersSame /\ log' = log /\ receipts' = receipts
  <2>1. entriesOf' = entriesOf /\ verdictOf' = verdictOf /\ toldOf' = toldOf
    BY <1>3 DEF AnswersSame, entriesOf, verdictOf, toldOf
  <2> QED BY <2>1
<1>4. ASSUME AnswersSame, log' = log, current \in Commands, Unrecorded(current.id),
             receipts' = [receipts EXCEPT ![current.id] =
                            [status |-> "rejected", seq |-> snapshotSequence]]
      PROVE  Promise!Next
  <2>1. PICK id \in CommandIds : id = current.id
    BY <1>4, CommandFields
  <2>2. verdictOf[id] = "none" /\ verdictOf' = [verdictOf EXCEPT ![id] = "rejected"]
    BY <1>4, <2>1 DEF TypeOK, verdictOf, Unrecorded
  <2>3. entriesOf' = entriesOf /\ toldOf' = toldOf
    BY <1>4 DEF AnswersSame, entriesOf, toldOf
  <2>4. Promise!Reject(id)
    BY <2>2, <2>3 DEF Promise!Reject, entriesOf, verdictOf, toldOf
  <2> QED BY <2>4 DEF Promise!Next
<1> QED BY <1>1, <1>2, <1>3, <1>4, LogAndReceipts

(* Whatever the worker, the database and the clients do, what is in the    *)
(* log, what the receipts say and what the clients are told is a behaviour *)
(* of the abstract command log: one verdict per command id, one block of   *)
(* entries per accepted command, and no "ok" before the verdict.           *)
THEOREM EngineImplementsCommandLog == Spec => ImplementsCommandLog
<1>1. Init => Promise!Init
  BY InitRefines
<1>2. TypeOK /\ Working /\ [Next]_vars => [Promise!Next]_<<entriesOf, verdictOf, toldOf>>
  BY NextRefines
<1> QED BY <1>1, <1>2, Reachable, PTL
        DEF Spec, ImplementsCommandLog, Promise!Spec, entriesOf, verdictOf, toldOf

-----------------------------------------------------------------------------
(* What lies between two positions of a log: the events n + 1 .. m.        *)
Slice(events, n, m) == SubSeq(events, n + 1, m)

(* The sequence number of the n-th event; a cursor at 0 has seen none.     *)
SeqAt(events, n) == IF n = 0 THEN 0 ELSE events[n].sequence

LEMMA SliceFields ==
  ASSUME NEW events \in Seq(StoredEvent), NEW n \in Nat, NEW m \in Nat,
         n <= m, m <= Len(events)
  PROVE  /\ Slice(events, n, m) \in Seq(StoredEvent)
         /\ Len(Slice(events, n, m)) = m - n
         /\ DOMAIN Slice(events, n, m) = 1..m - n
         /\ \A i \in 1..m - n : Slice(events, n, m)[i] = events[n + i]
<1>1. n + 1 \in 1..Len(events) + 1 /\ m \in n..Len(events) /\ Len(events) \in Nat
  OBVIOUS
<1>2. \A i \in n + 1..m : events[i] \in StoredEvent
  OBVIOUS
<1>3. SubSeq(events, n + 1, m) \in Seq(StoredEvent)
  BY <1>1, SubSeqType
<1>4. Len(SubSeq(events, n + 1, m)) = m - n
  BY <1>1
<1>5. \A i \in 1..m - n : SubSeq(events, n + 1, m)[i] = events[n + i]
  BY <1>1
<1> QED BY <1>3, <1>4, <1>5 DEF Slice

LEMMA SliceEmpty ==
  ASSUME NEW events \in Seq(StoredEvent), NEW n \in Nat, NEW m \in Nat,
         n <= m, m <= Len(events)
  PROVE  Slice(events, n, m) = <<>> <=> n = m
<1> DEFINE s == Slice(events, n, m)
<1>1. s \in Seq(StoredEvent) /\ Len(s) = m - n
  BY SliceFields
<1> HIDE DEF s
<1>2. s = <<>> <=> n = m
  BY <1>1
<1> QED BY <1>2 DEF s

LEMMA SliceHeadTail ==
  ASSUME NEW events \in Seq(StoredEvent), NEW n \in Nat, NEW m \in Nat,
         n < m, m <= Len(events)
  PROVE  /\ Head(Slice(events, n, m)) = events[n + 1]
         /\ Tail(Slice(events, n, m)) = Slice(events, n + 1, m)
<1>1. n + 1 \in 1..Len(events) /\ m \in n + 1..Len(events)
  OBVIOUS
<1> QED BY <1>1, HeadTailOfSubSeq DEF Slice

(* Appending to a log leaves its slices alone.                             *)
LEMMA SliceOfExtension ==
  ASSUME NEW events \in Seq(StoredEvent), NEW more \in Seq(StoredEvent),
         NEW n \in Nat, NEW m \in Nat, n <= m, m <= Len(events)
  PROVE  Slice(events \o more, n, m) = Slice(events, n, m)
<1> DEFINE whole == events \o more
<1>0. /\ whole \in Seq(StoredEvent) /\ Len(whole) = Len(events) + Len(more)
      /\ Len(events) \in Nat /\ Len(more) \in Nat
      /\ \A i \in 1..Len(events) : whole[i] = events[i]
  BY ConcatProperties
<1> HIDE DEF whole
<1> DEFINE s == Slice(events, n, m)
           t == Slice(whole, n, m)
<1>1. s \in Seq(StoredEvent) /\ Len(s) = m - n /\ \A i \in 1..m - n : s[i] = events[n + i]
  BY SliceFields
<1>2. t \in Seq(StoredEvent) /\ Len(t) = m - n /\ \A i \in 1..m - n : t[i] = whole[n + i]
  <2>1. m <= Len(whole)
    BY <1>0
  <2> QED BY Zenon, <1>0, <2>1, SliceFields
<1> HIDE DEF s, t
<1>3. Len(s) = Len(t) /\ \A i \in 1..Len(s) : s[i] = t[i]
  <2>1. \A i \in 1..m - n : n + i \in 1..Len(events)
    BY <1>0
  <2> QED BY <1>0, <1>1, <1>2, <2>1
<1>4. s = t
  BY <1>1, <1>2, <1>3, SeqEqual
<1> QED BY <1>4 DEF s, t, whole

LEMMA SliceOfMore ==
  ASSUME NEW events \in Seq(StoredEvent), NEW more \in Seq(StoredEvent)
  PROVE  Slice(events \o more, Len(events), Len(events) + Len(more)) = more
<1> DEFINE whole == events \o more
           n == Len(events)
           m == Len(events) + Len(more)
<1>0. /\ whole \in Seq(StoredEvent) /\ Len(whole) = m
      /\ n \in Nat /\ m \in Nat /\ n <= m /\ m - n = Len(more)
      /\ \A i \in 1..Len(more) : whole[n + i] = more[i]
  BY ConcatProperties
<1> HIDE DEF whole, n, m
<1> DEFINE t == Slice(whole, n, m)
<1>1. t \in Seq(StoredEvent) /\ Len(t) = m - n /\ \A i \in 1..m - n : t[i] = whole[n + i]
  <2>1. m <= Len(whole)
    BY <1>0
  <2> QED BY Zenon, <1>0, <2>1, SliceFields
<1> HIDE DEF t
<1>2. Len(t) = Len(more) /\ \A i \in 1..Len(t) : t[i] = more[i]
  BY <1>0, <1>1
<1>3. t = more
  BY <1>1, <1>2, SeqEqual
<1> QED BY <1>3 DEF t, whole, m, n

-----------------------------------------------------------------------------
(* Cursors on a log in sequence order.                                     *)
LEMMA SeqAtOrder ==
  ASSUME NEW events \in Seq(StoredEvent), InSequence(events),
         NEW n \in 0..Len(events)
  PROVE  /\ SeqAt(events, n) \in Nat
         /\ \A m \in 0..Len(events) : m < n => SeqAt(events, m) < SeqAt(events, n)
         /\ \A m \in 0..Len(events) : SeqAt(events, m) = SeqAt(events, n) => m = n
<1>1. \A i \in 1..Len(events) : events[i].sequence \in Nat /\ events[i].sequence > 0
  <2>1. \A i \in 1..Len(events) : events[i] \in StoredEvent
    OBVIOUS
  <2> QED BY <2>1 DEF StoredEvent, InSequence
<1>2. \A i, j \in 1..Len(events) : i < j => events[i].sequence < events[j].sequence
  BY DEF InSequence
<1> QED BY <1>1, <1>2 DEF SeqAt

LEMMA LastIsSeqAt ==
  ASSUME NEW events \in Seq(StoredEvent)
  PROVE  LastSequence(events) = SeqAt(events, Len(events))
BY DEF LastSequence, SeqAt, Last

(* What is stored after a cursor is a slice of the log.                    *)
LEMMA EventsAfterCursor ==
  ASSUME NEW events \in Seq(StoredEvent), InSequence(events), NEW n \in 0..Len(events)
  PROVE  EventsAfter(events, SeqAt(events, n)) = Slice(events, n, Len(events))
<1> DEFINE later == {i \in DOMAIN events : events[i].sequence > SeqAt(events, n)}
<1>0. /\ Len(events) \in Nat /\ DOMAIN events = 1..Len(events)
      /\ n \in Nat /\ n <= Len(events)
  OBVIOUS
<1>1. later = n + 1..Len(events)
  <2>1. \A i \in 1..Len(events) : events[i].sequence = SeqAt(events, i)
    BY DEF SeqAt
  <2>2. ASSUME NEW i \in 1..Len(events)
        PROVE  events[i].sequence > SeqAt(events, n) <=> i >= n + 1
    <3>1. i \in 0..Len(events) /\ i \in Nat
      BY <1>0
    <3>2. SeqAt(events, i) \in Nat /\ SeqAt(events, n) \in Nat
      BY <3>1, SeqAtOrder
    <3>3. i < n => SeqAt(events, i) < SeqAt(events, n)
      BY <3>1, SeqAtOrder
    <3>4. n < i => SeqAt(events, n) < SeqAt(events, i)
      BY <3>1, SeqAtOrder
    <3> QED BY <1>0, <2>1, <3>1, <3>2, <3>3, <3>4
  <2> QED BY <1>0, <2>2
<1>2. CASE n = Len(events)
  <2>1. later = {}
    BY <1>0, <1>1, <1>2
  <2>2. EventsAfter(events, SeqAt(events, n)) = <<>>
    BY <2>1 DEF EventsAfter
  <2> QED BY <1>0, <1>2, <2>2, SliceEmpty
<1>3. CASE n < Len(events)
  <2>1. n + 1 \in later /\ later \in SUBSET Nat /\ later # {}
    BY <1>0, <1>1, <1>3
  <2>2. \A i \in later : n + 1 <= i
    BY <1>1
  <2> DEFINE least == Min(later)
  <2>3. least \in later /\ \A i \in later : least <= i
    <3> HIDE DEF later
    <3> QED BY <2>1, LeastNatural DEF Min
  <2> HIDE DEF least
  <2>4. least = n + 1
    BY <1>0, <1>1, <2>1, <2>2, <2>3
  <2>5. EventsAfter(events, SeqAt(events, n)) = SubSeq(events, least, Len(events))
    BY <2>1 DEF EventsAfter, least
  <2> QED BY Zenon, <2>4, <2>5 DEF Slice
<1> HIDE DEF later
<1>4. n = Len(events) \/ n < Len(events)
  <2>1. \A i, k \in Nat : i <= k => i = k \/ i < k
    OBVIOUS
  <2> QED BY Zenon, <1>0, <2>1
<1> QED BY Zenon, <1>2, <1>3, <1>4

(* A read from a cursor returns the log's next events, all of them unless  *)
(* the limit cut it off.                                                   *)
LEMMA ReadFromCursor ==
  ASSUME log \in Seq(StoredEvent), InSequence(log), NEW n \in 0..Len(log)
  PROVE  \E m \in n..Len(log) :
           /\ ReadFromSequence(SeqAt(log, n)) = Slice(log, n, m)
           /\ ~CutOff(SeqAt(log, n)) <=> m = Len(log)
<1> DEFINE found == EventsAfter(log, SeqAt(log, n))
<1>0. n \in Nat /\ Len(log) \in Nat /\ n <= Len(log)
  OBVIOUS
<1>1. found = Slice(log, n, Len(log))
  BY EventsAfterCursor
<1>2. /\ found \in Seq(StoredEvent) /\ Len(found) = Len(log) - n
      /\ \A i \in 1..Len(log) - n : found[i] = log[n + i]
  <2>1. Len(log) <= Len(log)
    BY <1>0
  <2> HIDE DEF found
  <2> QED BY <1>0, <1>1, <2>1, SliceFields
<1> HIDE DEF found
<1>3. CASE Len(found) > ReadLimit
  <2> DEFINE m == n + ReadLimit
             read == Slice(log, n, m)
  <2>1. m \in Nat /\ n <= m /\ m < Len(log) /\ m \in n..Len(log)
    BY <1>0, <1>2, <1>3, ReadLimitAssumption
  <2>2. /\ read \in Seq(StoredEvent) /\ Len(read) = ReadLimit
        /\ \A i \in 1..ReadLimit : read[i] = log[n + i]
    <3>1. m - n = ReadLimit
      BY <1>0, ReadLimitAssumption
    <3>2. m <= Len(log)
      BY <1>0, <2>1
    <3> HIDE DEF m
    <3> QED BY <1>0, <2>1, <3>1, <3>2, SliceFields
  <2> HIDE DEF read
  <2>3. SubSeq(found, 1, ReadLimit) = read
    <3>1. ReadLimit \in 0..Len(found) /\ 1 \in 1..Len(found) + 1
      BY <1>2, <1>3, ReadLimitAssumption
    <3>2. SubSeq(found, 1, ReadLimit) \in Seq(StoredEvent)
          /\ Len(SubSeq(found, 1, ReadLimit)) = ReadLimit
          /\ \A i \in 1..ReadLimit : SubSeq(found, 1, ReadLimit)[i] = found[i]
      BY <1>2, <3>1
    <3>3. \A i \in 1..ReadLimit : found[i] = log[n + i]
      BY <1>2, <1>3, ReadLimitAssumption
    <3> DEFINE start == SubSeq(found, 1, ReadLimit)
    <3> HIDE DEF start
    <3>4. Len(start) = Len(read) /\ \A i \in 1..Len(start) : start[i] = read[i]
      BY <2>2, <3>2, <3>3 DEF start
    <3>5. start = read
      BY <2>2, <3>2, <3>4, SeqEqual DEF start
    <3> QED BY <3>5 DEF start
  <2>4. ReadFromSequence(SeqAt(log, n)) = read
    BY <1>3, <2>3 DEF ReadFromSequence, found
  <2>5. read # found
    BY <1>2, <1>3, <2>2, ReadLimitAssumption
  <2>6. CutOff(SeqAt(log, n))
    BY <2>4, <2>5 DEF CutOff, found
  <2> QED BY <1>0, <2>1, <2>4, <2>6 DEF read
<1>4. CASE ~(Len(found) > ReadLimit)
  <2>1. ReadFromSequence(SeqAt(log, n)) = found
    BY <1>4 DEF ReadFromSequence, found
  <2>2. ~CutOff(SeqAt(log, n))
    BY <2>1 DEF CutOff, found
  <2> QED BY <1>0, <1>1, <2>1, <2>2
<1> QED BY <1>3, <1>4

-----------------------------------------------------------------------------
(* The log is in sequence order, open transaction included, and the next   *)
(* number is beyond it.                                                    *)
Visible == log \o (IF phase = "append" THEN saved ELSE <<>>)
Below(events, n) ==
  InSequence(events) /\ n \in Nat \ {0} /\ \A i \in DOMAIN events : events[i].sequence < n
Ordered == Below(Visible, nextSequence)

LEMMA BelowAppend ==
  ASSUME NEW events \in Seq(StoredEvent), NEW n, Below(events, n),
         NEW e \in StoredEvent, e.sequence = n
  PROVE  Below(Append(events, e), n + 1)
<1> DEFINE whole == Append(events, e)
<1>1. /\ Len(events) \in Nat /\ DOMAIN events = 1..Len(events)
      /\ DOMAIN whole = 1..Len(events) + 1 /\ whole[Len(events) + 1] = e
      /\ \A i \in 1..Len(events) : whole[i] = events[i]
  OBVIOUS
<1>2. \A i \in 1..Len(events) : events[i].sequence \in Nat
  <2>1. \A i \in 1..Len(events) : events[i] \in StoredEvent
    OBVIOUS
  <2> QED BY <2>1 DEF StoredEvent
<1> HIDE DEF whole
<1>3. n \in Nat \ {0} /\ InSequence(events) /\ \A i \in 1..Len(events) : events[i].sequence < n
  BY <1>1 DEF Below
<1>4. \A i \in DOMAIN whole : whole[i].sequence < n + 1 /\ whole[i].sequence > 0
  <2>1. TAKE i \in DOMAIN whole
  <2>2. CASE i = Len(events) + 1
    BY <1>1, <1>3, <2>2
  <2>3. CASE i \in 1..Len(events)
    BY <1>1, <1>2, <1>3, <2>3 DEF InSequence
  <2> QED BY <1>1, <2>2, <2>3
<1>5. ASSUME NEW i \in DOMAIN whole, NEW j \in DOMAIN whole, i < j
      PROVE  whole[i].sequence < whole[j].sequence
  <2>1. i \in 1..Len(events) /\ whole[i] = events[i]
    BY <1>1, <1>5
  <2>2. CASE j = Len(events) + 1
    BY <1>1, <1>3, <2>1, <2>2
  <2>3. CASE j \in 1..Len(events)
    BY <1>1, <1>3, <1>5, <2>1, <2>3 DEF InSequence
  <2> QED BY <1>1, <2>2, <2>3
<1> QED BY <1>3, <1>4, <1>5 DEF Below, InSequence, whole

LEMMA BelowPrefix ==
  ASSUME NEW events \in Seq(StoredEvent), NEW more \in Seq(StoredEvent), NEW n,
         Below(events \o more, n)
  PROVE  Below(events, n)
<1> DEFINE whole == events \o more
<1>1. /\ Len(events) \in Nat /\ DOMAIN events = 1..Len(events)
      /\ DOMAIN events \subseteq DOMAIN whole
      /\ \A i \in DOMAIN events : whole[i] = events[i]
  BY ConcatProperties
<1>2. Below(whole, n)
  OBVIOUS
<1> HIDE DEF whole
<1>3. \A i, j \in DOMAIN events : i < j => events[i].sequence < events[j].sequence
  BY <1>1, <1>2 DEF Below, InSequence
<1> QED BY <1>1, <1>2, <1>3 DEF Below, InSequence

LEMMA BelowNext ==
  ASSUME NEW events \in Seq(StoredEvent), InSequence(events)
  PROVE  Below(events, LastSequence(events) + 1)
<1>1. LastSequence(events) \in Nat
  BY LastSequenceType
<1>2. ASSUME NEW i \in DOMAIN events PROVE events[i].sequence < LastSequence(events) + 1
  <2>1. i \in 0..Len(events) /\ Len(events) \in 0..Len(events) /\ i \in Nat /\ Len(events) \in Nat
        /\ i # 0 /\ (i < Len(events) \/ i = Len(events))
    OBVIOUS
  <2>2. SeqAt(events, i) \in Nat /\ (i < Len(events) => SeqAt(events, i) < LastSequence(events))
    <3>1. SeqAt(events, i) \in Nat
      BY <2>1, SeqAtOrder
    <3>2. i < Len(events) => SeqAt(events, i) < SeqAt(events, Len(events))
      BY <2>1, SeqAtOrder
    <3> QED BY Zenon, <3>1, <3>2, LastIsSeqAt
  <2>3. i = Len(events) => SeqAt(events, i) = LastSequence(events)
    BY Zenon, LastIsSeqAt
  <2>4. events[i].sequence = SeqAt(events, i)
    BY <2>1 DEF SeqAt
  <2> QED BY <1>1, <2>1, <2>2, <2>3, <2>4
<1> QED BY <1>1, <1>2 DEF Below

LEMMA VisibleLog ==
  ASSUME TypeOK, Ordered
  PROVE  /\ log \in Seq(StoredEvent) /\ saved \in Seq(StoredEvent)
         /\ phase # "append" => Visible = log
         /\ phase = "append" => Visible = log \o saved
         /\ InSequence(log) /\ Below(log, nextSequence)
         /\ Below(log, SequenceAfterRollback)
<1>1. log \in Seq(StoredEvent) /\ saved \in Seq(StoredEvent)
  BY DEF TypeOK
<1>2. log \o <<>> = log
  BY <1>1, ConcatEmptySeq
<1>3. /\ phase # "append" => Visible = log
      /\ phase = "append" => Visible = log \o saved
  BY <1>2 DEF Visible
<1>4. Below(log, nextSequence)
  <2>1. CASE phase = "append"
    BY <1>1, <1>3, <2>1, BelowPrefix DEF Ordered
  <2>2. CASE phase # "append"
    BY <1>3, <2>2 DEF Ordered
  <2> QED BY <2>1, <2>2
<1>5. InSequence(log)
  BY <1>4 DEF Below
<1>6. Below(log, SequenceAfterRollback)
  BY <1>1, <1>4, <1>5, BelowNext DEF SequenceAfterRollback
<1> QED BY <1>1, <1>3, <1>4, <1>5, <1>6

LEMMA OrderedInit == Init => Ordered
<1> SUFFICES ASSUME Init PROVE Ordered
  OBVIOUS
<1>1. InitialLog \in Seq(StoredEvent) /\ InSequence(InitialLog)
  BY InitialLogAssumption
<1>2. Visible = InitialLog
  BY <1>1, ConcatEmptySeq DEF Init, Visible
<1> QED BY <1>1, <1>2, BelowNext DEF Init, Ordered

LEMMA OrderedKept ==
  ASSUME TypeOK, Working, Ordered, [Next]_vars
  PROVE  Ordered'
<1>0. TypeOK'
  BY StepTyped
<1>1. log' \o <<>> = log'
  BY <1>0, ConcatEmptySeq DEF TypeOK
<1>2. ASSUME phase' # "append", log' = log, nextSequence' \in {nextSequence, SequenceAfterRollback}
      PROVE  Ordered'
  <2>1. Visible' = log
    BY <1>1, <1>2 DEF Visible
  <2> QED BY <1>2, <2>1, VisibleLog DEF Ordered
<1>3. CASE Startup
  BY <1>2, <1>3 DEF Startup, StartServer, BootstrapEvent, BootstrapNext, LoadSnapshot
<1>4. CASE Client \/ ReplayReceipt \/ PublishEvent \/ UNCHANGED vars
  <2>1. phase' = phase /\ log' = log /\ nextSequence' = nextSequence /\ saved' = saved
    BY <1>4 DEF Client, Redispatch, Dispatch, Enqueue, ReplayReceipt, PublishEvent, vars
  <2> QED BY <2>1 DEF Ordered, Visible
<1>5. CASE BeginTransaction
  <2>1. log' = log /\ nextSequence' = nextSequence /\ saved' = <<>>
    BY <1>5 DEF BeginTransaction, Take
  <2>2. Visible' = log
    BY <1>1, <2>1 DEF Visible
  <2> QED BY <2>1, <2>2, VisibleLog DEF Ordered
<1>6. CASE BreakInvariant \/ FailLookup
  BY <1>2, <1>6 DEF BreakInvariant, FailLookup, Take
<1>7. CASE AppendEvent
  <2>1. PICK e \in StoredEvent : e.sequence = nextSequence /\ saved' = Append(saved, e)
    BY <1>7, AppendTyped DEF AppendEvent
  <2>2. phase = "append" /\ phase' = "append" /\ log' = log /\ nextSequence' = nextSequence + 1
    BY <1>7 DEF AppendEvent
  <2>3. Visible = log \o saved /\ Visible' = log \o Append(saved, e)
    BY <2>1, <2>2 DEF Visible
  <2>4. log \o Append(saved, e) = Append(log \o saved, e) /\ log \o saved \in Seq(StoredEvent)
    <3>1. log \in Seq(StoredEvent) /\ saved \in Seq(StoredEvent)
      BY DEF TypeOK
    <3> QED BY <3>1
  <2>5. Below(Append(Visible, e), nextSequence + 1)
    BY <2>1, <2>3, <2>4, BelowAppend DEF Ordered
  <2> QED BY <2>2, <2>3, <2>4, <2>5 DEF Ordered
<1>8. CASE ViolateUnique \/ FailTransaction
  BY <1>2, <1>8 DEF ViolateUnique, FailTransaction, Rollback
<1>9. CASE CommitAcknowledged \/ CommitUnacknowledged
  <2>1. phase = "append" /\ phase' # "append" /\ log' = log \o saved
        /\ nextSequence' = nextSequence
    BY <1>9 DEF CommitAcknowledged, CommitUnacknowledged, Commit
  <2>2. Visible' = Visible
    BY <1>1, <2>1 DEF Visible
  <2> QED BY <2>1, <2>2 DEF Ordered
<1>10. CASE Reconcile \/ FailReconcile \/ RecordRejection
  BY <1>2, <1>10 DEF Reconcile, FailReconcile, RecordRejection
<1>11. CASE AnswerClient
  BY <1>2, <1>11 DEF AnswerClient
<1>12. CASE Crash
  BY <1>2, <1>12 DEF Crash
<1> QED BY <1>3, <1>4, <1>5, <1>6, <1>7, <1>8, <1>9, <1>10, <1>11, <1>12
        DEF Next, Process, StorageFailure

-----------------------------------------------------------------------------
(* Every cursor of a projector points at an event of the log.              *)
CursorsOnLog == \A p \in ProjectorSet : \E n \in 0..Len(log) : applied[p] = SeqAt(log, n)

(* During the bootstrap the projector at hand has a slice of the log left  *)
(* to apply, the rest of it unless a read was cut off, and those before it *)
(* have applied everything.                                                *)
ReplaysFrom(n, m) ==
  /\ n <= m /\ m <= Len(log)
  /\ applied[Projectors[projector]] = SeqAt(log, n)
  /\ replay = Slice(log, n, m)
  /\ ~truncated => m = Len(log)
Replaying ==
  phase = "bootstrap" =>
    /\ \E n, m \in Nat : ReplaysFrom(n, m)
    /\ ~truncated => \A q \in 1..projector - 1 : applied[Projectors[q]] = LastSequence(log)
AllApplied ==
  Running /\ ~truncated => \A p \in ProjectorSet : applied[p] = LastSequence(log)

Cursors == Ordered /\ CursorsOnLog /\ Replaying /\ AllApplied

LEMMA ProjectorNames ==
  /\ Len(Projectors) = 9 /\ DOMAIN Projectors = 1..9
  /\ \A p \in ProjectorSet : \E q \in 1..9 : p = Projectors[q]
  /\ \A q \in 1..9 : Projectors[q] \in ProjectorSet
  /\ \A q, r \in 1..9 : Projectors[q] = Projectors[r] => q = r
<1>1. Len(Projectors) = 9 /\ DOMAIN Projectors = 1..9
  BY DEF Projectors
<1>2. ProjectorSet = {Projectors[q] : q \in 1..9}
  BY <1>1 DEF ProjectorSet, Range
<1>3. \A q, r \in 1..9 : Projectors[q] = Projectors[r] => q = r
  BY DEF Projectors
<1> QED BY <1>1, <1>2, <1>3

(* A commit moves the last position of the log.                            *)
LEMMA CommitLast ==
  ASSUME TypeOK, Working, Ordered, Commit
  PROVE  /\ Last(saved).sequence = LastSequence(log')
         /\ log' \in Seq(StoredEvent) /\ log' = log \o saved
         /\ saved \in Seq(StoredEvent) /\ Len(saved) \in Nat \ {0}
         /\ Len(log') = Len(log) + Len(saved) /\ InSequence(log')
<1>1. /\ log \in Seq(StoredEvent) /\ saved \in Seq(StoredEvent) /\ saved # <<>>
      /\ log' = log \o saved
  BY CommitTyped DEF TypeOK, Commit
<1>2. /\ Len(log) \in Nat /\ Len(saved) \in Nat \ {0} /\ log' \in Seq(StoredEvent)
      /\ Len(log') = Len(log) + Len(saved)
  BY <1>1, ConcatProperties
<1>3. log'[Len(log')] = saved[Len(saved)]
  BY <1>1, <1>2, CommitExtendsLog, ConcatProperties
<1>4. LastSequence(log') = log'[Len(log')].sequence
  BY <1>2 DEF LastSequence, Last
<1>5. InSequence(log')
  BY <1>1 DEF Ordered, Visible, Below, Commit
<1> QED BY <1>1, <1>2, <1>3, <1>4, <1>5 DEF Last

LEMMA CursorsInit == Init => Cursors
<1> SUFFICES ASSUME Init PROVE Cursors
  OBVIOUS
<1>1. ASSUME NEW p \in ProjectorSet
      PROVE  \E n \in 0..Len(InitialLog) : InitialApplied[p] = SeqAt(InitialLog, n)
  <2>1. InitialLog \in Seq(StoredEvent)
        /\ InitialApplied[p] \in {0} \cup {InitialLog[i].sequence : i \in DOMAIN InitialLog}
    BY InitialLogAssumption
  <2>2. CASE InitialApplied[p] = 0
    BY <2>1, <2>2 DEF SeqAt
  <2>3. ASSUME NEW i \in DOMAIN InitialLog, InitialApplied[p] = InitialLog[i].sequence
        PROVE  \E n \in 0..Len(InitialLog) : InitialApplied[p] = SeqAt(InitialLog, n)
    <3>1. i \in 0..Len(InitialLog) /\ i # 0
      BY <2>1
    <3> QED BY <2>3, <3>1 DEF SeqAt
  <2> QED BY <2>1, <2>2, <2>3
<1>2. CursorsOnLog
  BY <1>1 DEF Init, CursorsOnLog
<1> QED BY <1>2, OrderedInit DEF Init, Cursors, Replaying, AllApplied, Running

(* The read that starts the replay of a projector.                         *)
LEMMA BacklogIsSlice ==
  ASSUME TypeOK, Ordered, CursorsOnLog, NEW q \in 1..9
  PROVE  \E n, m \in Nat :
           /\ n <= m /\ m <= Len(log) /\ applied[Projectors[q]] = SeqAt(log, n)
           /\ Backlog(q) = Slice(log, n, m)
           /\ ~CutOff(applied[Projectors[q]]) => m = Len(log)
<1>1. PICK n \in 0..Len(log) : applied[Projectors[q]] = SeqAt(log, n)
  BY ProjectorNames DEF CursorsOnLog
<1>2. log \in Seq(StoredEvent) /\ InSequence(log) /\ Len(log) \in Nat
  BY VisibleLog
<1>3. PICK m \in n..Len(log) :
        /\ ReadFromSequence(SeqAt(log, n)) = Slice(log, n, m)
        /\ ~CutOff(SeqAt(log, n)) <=> m = Len(log)
  BY <1>2, ReadFromCursor
<1>4. n \in Nat /\ m \in Nat /\ n <= m /\ m <= Len(log)
  BY <1>2
<1>5. Backlog(q) = ReadFromSequence(applied[Projectors[q]])
  BY DEF Backlog
<1> QED BY <1>1, <1>3, <1>4, <1>5

LEMMA StartupCursors ==
  ASSUME TypeOK, Cursors, Startup
  PROVE  CursorsOnLog' /\ Replaying' /\ AllApplied'
<1> USE DEF Cursors
<1>0. log' = log
  BY DEF Startup, StartServer, BootstrapEvent, BootstrapNext, LoadSnapshot
<1>1. CASE StartServer
  <2>0. 1 \in 1..9
    OBVIOUS
  <2>1. PICK n, m \in Nat :
          /\ n <= m /\ m <= Len(log) /\ applied[Projectors[1]] = SeqAt(log, n)
          /\ Backlog(1) = Slice(log, n, m)
          /\ ~CutOff(applied[Projectors[1]]) => m = Len(log)
    BY Zenon, <2>0, BacklogIsSlice
  <2>2. /\ applied' = applied /\ projector' = 1 /\ replay' = Backlog(1)
        /\ truncated' = (truncated \/ CutOff(applied[Projectors[1]]))
        /\ phase' = "bootstrap"
    BY <1>1 DEF StartServer
  <2>3. ReplaysFrom(n, m)'
    BY <1>0, <2>1, <2>2 DEF ReplaysFrom
  <2>4. \A q \in 1..projector' - 1 : FALSE
    BY <2>2
  <2> QED BY <1>0, <2>2, <2>3, <2>4 DEF CursorsOnLog, Replaying, AllApplied, Running
<1>2. CASE BootstrapEvent
  <2>1. PICK n, m \in Nat : ReplaysFrom(n, m)
    BY <1>2 DEF BootstrapEvent, Replaying
  <2>2. log \in Seq(StoredEvent) /\ InSequence(log) /\ Len(log) \in Nat
    BY VisibleLog
  <2>3. n < m /\ Head(replay) = log[n + 1] /\ Tail(replay) = Slice(log, n + 1, m)
    <3>1. replay # <<>>
      BY <1>2 DEF BootstrapEvent
    <3>2. n # m
      BY <2>1, <2>2, <3>1, SliceEmpty DEF ReplaysFrom
    <3>3. n < m /\ m <= Len(log)
      BY <2>1, <3>2 DEF ReplaysFrom
    <3> QED BY <2>1, <2>2, <3>3, SliceHeadTail DEF ReplaysFrom
  <2>4. /\ applied' = [applied EXCEPT ![Projectors[projector]] = SeqAt(log, n + 1)]
        /\ replay' = Slice(log, n + 1, m) /\ projector' = projector /\ truncated' = truncated
        /\ phase' = "bootstrap" /\ phase = "bootstrap"
    <3>1. n + 1 # 0
      OBVIOUS
    <3>2. Head(replay).sequence = SeqAt(log, n + 1)
      BY <2>3, <3>1 DEF SeqAt
    <3> QED BY Zenon, <1>2, <2>3, <3>2 DEF BootstrapEvent
  <2>5. projector \in 1..9 /\ applied \in [ProjectorSet -> Nat]
        /\ Projectors[projector] \in ProjectorSet
    BY ProjectorNames DEF TypeOK
  <2>6. n + 1 \in 0..Len(log) /\ n + 1 \in Nat /\ n + 1 <= m /\ m <= Len(log)
    BY <2>1, <2>2, <2>3 DEF ReplaysFrom
  <2>7. applied'[Projectors[projector]] = SeqAt(log, n + 1)
        /\ \A p \in ProjectorSet \ {Projectors[projector]} : applied'[p] = applied[p]
    BY <2>4, <2>5
  <2>8. CursorsOnLog'
    BY <1>0, <2>6, <2>7 DEF CursorsOnLog
  <2>9. ReplaysFrom(n + 1, m)'
    BY <1>0, <2>1, <2>4, <2>6, <2>7 DEF ReplaysFrom
  <2>10. ~truncated => \A q \in 1..projector - 1 : applied'[Projectors[q]] = LastSequence(log)
    <3>1. \A q \in 1..projector - 1 :
            Projectors[q] \in ProjectorSet \ {Projectors[projector]}
      <4>1. \A q \in 1..projector - 1 : q \in 1..9 /\ q # projector
        BY <2>5
      <4> QED BY <2>5, <4>1, ProjectorNames
    <3>2. ~truncated => \A q \in 1..projector - 1 : applied[Projectors[q]] = LastSequence(log)
      BY <2>4 DEF Replaying
    <3> QED BY <2>7, <3>1, <3>2
  <2> QED BY <1>0, <2>4, <2>6, <2>8, <2>9, <2>10 DEF Replaying, AllApplied, Running
<1>3. CASE BootstrapNext
  <2>0. /\ projector \in 1..9 /\ projector + 1 \in 1..9 /\ phase = "bootstrap"
        /\ phase' = "bootstrap" /\ replay = <<>> /\ applied' = applied
        /\ projector' = projector + 1 /\ replay' = Backlog(projector + 1)
        /\ truncated' = (truncated \/ CutOff(applied[Projectors[projector + 1]]))
    <3>1. projector \in 1..9 /\ projector < 9
      BY Zenon, <1>3, ProjectorNames DEF BootstrapNext, TypeOK
    <3>2. projector + 1 \in 1..9
      BY <3>1
    <3> QED BY Zenon, <1>3, <3>1, <3>2 DEF BootstrapNext
  <2>1. PICK n, m \in Nat :
          /\ n <= m /\ m <= Len(log) /\ applied[Projectors[projector + 1]] = SeqAt(log, n)
          /\ Backlog(projector + 1) = Slice(log, n, m)
          /\ ~CutOff(applied[Projectors[projector + 1]]) => m = Len(log)
    BY <2>0, BacklogIsSlice
  <2>2. ReplaysFrom(n, m)'
    BY <1>0, <2>0, <2>1 DEF ReplaysFrom
  <2>3. ~truncated => applied[Projectors[projector]] = LastSequence(log)
    <3>1. PICK k, l \in Nat : ReplaysFrom(k, l)
      BY <2>0 DEF Replaying
    <3>2. log \in Seq(StoredEvent)
      BY VisibleLog
    <3>3. k = l
      <4>1. Slice(log, k, l) = <<>> /\ k <= l /\ l <= Len(log)
        BY Zenon, <2>0, <3>1 DEF ReplaysFrom
      <4> QED BY Zenon, <3>2, <4>1, SliceEmpty
    <3> QED BY <3>1, <3>2, <3>3, LastIsSeqAt DEF ReplaysFrom
  <2>4. ~truncated => \A q \in 1..projector + 1 - 1 : applied[Projectors[q]] = LastSequence(log)
    <3>1. ~truncated => \A q \in 1..projector - 1 : applied[Projectors[q]] = LastSequence(log)
      BY <2>0 DEF Replaying
    <3>2. \A q \in 1..projector + 1 - 1 : q = projector \/ q \in 1..projector - 1
      BY <2>0
    <3> QED BY <2>3, <3>1, <3>2
  <2>5. CursorsOnLog' /\ AllApplied'
    BY Zenon, <1>0, <2>0 DEF CursorsOnLog, AllApplied, Running
  <2>6. Replaying'
    <3>1. ~truncated' => ~truncated
      BY <2>0
    <3>2. ~truncated' =>
            \A q \in 1..projector' - 1 : applied'[Projectors[q]] = LastSequence(log')
      BY <1>0, <2>0, <2>4, <3>1
    <3> QED BY <2>2, <3>2 DEF Replaying
  <2> QED BY <2>5, <2>6
<1>4. CASE LoadSnapshot
  <2>0. /\ projector = 9 /\ phase = "bootstrap" /\ phase' = "idle" /\ replay = <<>>
        /\ applied' = applied /\ truncated' = truncated
    BY <1>4, ProjectorNames DEF LoadSnapshot
  <2>1. ~truncated => applied[Projectors[9]] = LastSequence(log)
    <3>1. PICK k, l \in Nat : ReplaysFrom(k, l)
      BY <2>0 DEF Replaying
    <3>2. log \in Seq(StoredEvent)
      BY VisibleLog
    <3>3. k = l
      <4>1. Slice(log, k, l) = <<>> /\ k <= l /\ l <= Len(log)
        BY Zenon, <2>0, <3>1 DEF ReplaysFrom
      <4> QED BY Zenon, <3>2, <4>1, SliceEmpty
    <3> QED BY <2>0, <3>1, <3>2, <3>3, LastIsSeqAt DEF ReplaysFrom
  <2>2. ~truncated => \A q \in 1..9 : applied[Projectors[q]] = LastSequence(log)
    <3>1. ~truncated => \A q \in 1..8 : applied[Projectors[q]] = LastSequence(log)
      BY <2>0 DEF Replaying
    <3> QED BY <2>1, <3>1
  <2>3. ~truncated => \A p \in ProjectorSet : applied[p] = LastSequence(log)
    BY <2>2, ProjectorNames
  <2> QED BY <1>0, <2>0, <2>3 DEF CursorsOnLog, Replaying, AllApplied
<1> QED BY <1>1, <1>2, <1>3, <1>4 DEF Startup

LEMMA CursorsKept ==
  ASSUME TypeOK, Working, Cursors, [Next]_vars
  PROVE  Cursors'
<1>1. Ordered'
  BY OrderedKept DEF Cursors
<1>2. CASE Startup
  BY <1>1, <1>2, StartupCursors DEF Cursors
<1>3. CASE CommitAcknowledged \/ CommitUnacknowledged
  <2>1. Commit /\ phase' \notin {"down", "bootstrap"}
    BY <1>3 DEF CommitAcknowledged, CommitUnacknowledged
  <2>2. \A p \in ProjectorSet : applied'[p] = LastSequence(log')
    BY <2>1, CommitLast DEF Cursors, Commit
  <2>3. LastSequence(log') = SeqAt(log', Len(log')) /\ Len(log') \in 0..Len(log')
    BY <2>1, CommitLast, LastIsSeqAt DEF Cursors
  <2>4. CursorsOnLog'
    BY <2>2, <2>3 DEF CursorsOnLog
  <2> QED BY <1>1, <2>1, <2>2, <2>4 DEF Cursors, Replaying, AllApplied
<1>4. ASSUME log' = log, applied' = applied, truncated' = truncated,
             \/ phase' = "down"
             \/ phase \notin {"down", "bootstrap"} /\ phase' # "bootstrap"
             \/ phase' = phase /\ replay' = replay /\ projector' = projector
      PROVE  Cursors'
  <2>1. CursorsOnLog' /\ Replaying' /\ AllApplied'
    BY <1>4 DEF Cursors, CursorsOnLog, Replaying, ReplaysFrom, AllApplied, Running
  <2> QED BY <1>1, <2>1 DEF Cursors
<1>5. CASE Client \/ ReplayReceipt \/ PublishEvent \/ UNCHANGED vars
  BY <1>4, <1>5 DEF Client, Redispatch, Dispatch, Enqueue, ReplayReceipt, PublishEvent, vars
<1>6. CASE BeginTransaction \/ BreakInvariant \/ FailLookup
  BY <1>4, <1>6 DEF BeginTransaction, BreakInvariant, FailLookup, Take
<1>7. CASE AppendEvent \/ ViolateUnique \/ FailTransaction
  BY <1>4, <1>7 DEF AppendEvent, ViolateUnique, FailTransaction, Rollback
<1>8. CASE Reconcile \/ FailReconcile \/ RecordRejection
  BY <1>4, <1>8 DEF Reconcile, FailReconcile, RecordRejection
<1>9. CASE AnswerClient
  BY <1>4, <1>9 DEF AnswerClient
<1>10. CASE Crash
  BY <1>4, <1>10 DEF Crash
<1> QED BY <1>2, <1>3, <1>5, <1>6, <1>7, <1>8, <1>9, <1>10
        DEF Next, Process, StorageFailure

LEMMA CursorsReachable == Spec => [](TypeOK /\ Working /\ Cursors)
<1>1. TypeOK /\ Working /\ Cursors /\ [Next]_vars => Cursors'
  BY CursorsKept
<1> QED BY <1>1, CursorsInit, Reachable, PTL DEF Spec

(* However far each projector had come when the server went down, once it  *)
(* runs again every one of them has applied the whole log, for every log   *)
(* and every read limit, as long as no backlog exceeded the limit.         *)
THEOREM EveryProjectorCatchesUp == Spec => []BootstrapCatchesUp
<1>1. Cursors => BootstrapCatchesUp
  BY DEF Cursors, AllApplied, Running, BootstrapCatchesUp
<1> QED BY <1>1, CursorsReachable, PTL

-----------------------------------------------------------------------------
(* What has been published since the server loaded its snapshot after the  *)
(* r-th event, and what is still to be published, are the next events of   *)
(* the log.  Together they reach its end, where the read model is, except  *)
(* between a failure and the read that reconciles it.                      *)
SentTo(r) == r + Len(published)
DueTo(r) == SentTo(r) + Len(toPublish)
Delivering(r) ==
  /\ runStart = SeqAt(log, r) /\ DueTo(r) <= Len(log)
  /\ \A i \in DOMAIN published : published[i] = log[r + i].sequence
  /\ toPublish = Slice(log, SentTo(r), DueTo(r))
  /\ phase # "publish" => toPublish = <<>>
  /\ phase = "recover" => snapshotSequence = SeqAt(log, SentTo(r))
  /\ phase # "recover" => DueTo(r) = Len(log) /\ snapshotSequence = SeqAt(log, DueTo(r))
  /\ phase \in {"append", "recover"} => startSequence = snapshotSequence
Delivery ==
  /\ Running /\ ~unreconciled /\ ~truncated => \E r \in Nat : Delivering(r)
  /\ ~Running => published = <<>> /\ toPublish = <<>> /\ ~unreconciled

LEMMA DeliveringFields ==
  ASSUME TypeOK, NEW r \in Nat, Delivering(r)
  PROVE  /\ SentTo(r) \in Nat /\ DueTo(r) \in Nat /\ Len(toPublish) \in Nat
         /\ r <= SentTo(r) /\ SentTo(r) <= DueTo(r) /\ DueTo(r) <= Len(log)
         /\ Len(log) \in Nat /\ Len(published) \in Nat
         /\ toPublish = <<>> => DueTo(r) = SentTo(r)
         /\ DOMAIN published = 1..Len(published)
<1>1. Len(published) \in Nat /\ Len(toPublish) \in Nat /\ Len(log) \in Nat
      /\ DOMAIN published = 1..Len(published)
  BY DEF TypeOK
<1>2. toPublish = <<>> => Len(toPublish) = 0
  OBVIOUS
<1> QED BY <1>1, <1>2 DEF Delivering, SentTo, DueTo

LEMMA DeliveryLoad ==
  ASSUME TypeOK, Cursors, Cursors', Delivery, LoadSnapshot, ~truncated'
  PROVE  \E r \in Nat : Delivering(r)'
<1>1. /\ published' = <<>> /\ toPublish' = <<>> /\ log' = log /\ phase' = "idle"
      /\ applied' = applied /\ runStart' = snapshotSequence'
      /\ snapshotSequence' = Min({applied[p] : p \in RequiredSnapshotProjectors})
  BY DEF LoadSnapshot, Delivery, Running
<1>2. log \in Seq(StoredEvent) /\ Len(log) \in Nat
  BY DEF TypeOK
<1>3. {applied[p] : p \in RequiredSnapshotProjectors} = {LastSequence(log)}
  <2>1. RequiredSnapshotProjectors \subseteq ProjectorSet /\ RequiredSnapshotProjectors # {}
    BY DEF RequiredSnapshotProjectors, ProjectorSet, Projectors, Range
  <2>2. \A p \in ProjectorSet : applied[p] = LastSequence(log)
    BY <1>1 DEF Cursors, AllApplied, Running
  <2> QED BY <2>1, <2>2
<1>4. Min({LastSequence(log)}) = LastSequence(log)
  <2>1. LastSequence(log) \in Nat
    BY <1>2, LastSequenceType
  <2>2. {LastSequence(log)} \in SUBSET Nat /\ {LastSequence(log)} # {}
    BY <2>1
  <2> QED BY <2>2, MinOfNaturals
<1>5. snapshotSequence' = SeqAt(log, Len(log))
  BY Zenon, <1>1, <1>2, <1>3, <1>4, LastIsSeqAt
<1>6. Slice(log, Len(log), Len(log)) = <<>>
  BY <1>2, SliceEmpty
<1>7. SentTo(Len(log))' = Len(log) /\ DueTo(Len(log))' = Len(log)
  BY <1>1, <1>2 DEF SentTo, DueTo
<1> DEFINE n == Len(log)
<1>8. PICK r \in Nat : r = n
  BY <1>2
<1>9. Delivering(r)'
  BY <1>1, <1>2, <1>5, <1>6, <1>7, <1>8 DEF Delivering, SentTo, DueTo
<1> QED BY <1>9

(* One lemma per way in which a running server moves on.                   *)
LEMMA DeliveryUnmoved ==
  ASSUME TypeOK, NEW r \in Nat, Delivering(r),
         log' = log, runStart' = runStart, published' = published, toPublish' = toPublish,
         snapshotSequence' = snapshotSequence,
         \/ phase' = phase /\ startSequence' = startSequence
         \/ phase = "idle" /\ phase' \in {"append", "recover"}
            /\ startSequence' = snapshotSequence
         \/ phase = "append" /\ phase' = "recover" /\ startSequence' = startSequence
         \/ toPublish = <<>> /\ phase \in {"publish", "answer"} /\ phase' \in {"answer", "idle"}
  PROVE  Delivering(r)'
<1>1. SentTo(r)' = SentTo(r) /\ DueTo(r)' = DueTo(r)
  BY DEF SentTo, DueTo
<1>2. toPublish = <<>> => DueTo(r) = SentTo(r)
  BY DeliveringFields
<1>3. phase \in {"idle", "append", "answer"} => toPublish = <<>>
  BY DEF Delivering
<1> QED BY <1>1, <1>2, <1>3 DEF Delivering

LEMMA DeliveryCommit ==
  ASSUME TypeOK, Working, Ordered, NEW r \in Nat, Delivering(r), Commit,
         runStart' = runStart, published' = published,
         \/ /\ phase' = "publish" /\ toPublish' = saved
            /\ snapshotSequence' = Last(saved).sequence
         \/ /\ phase' = "recover" /\ toPublish' = toPublish
            /\ snapshotSequence' = snapshotSequence
  PROVE  Delivering(r)'
<1>1. /\ log \in Seq(StoredEvent) /\ saved \in Seq(StoredEvent)
      /\ log' \in Seq(StoredEvent) /\ log' = log \o saved
      /\ Len(saved) \in Nat \ {0} /\ Len(log) \in Nat
      /\ Len(log') = Len(log) + Len(saved)
      /\ Last(saved).sequence = SeqAt(log', Len(log'))
  BY SMTT(30), CommitLast, LastIsSeqAt DEF TypeOK
<1>2. /\ phase = "append" /\ startSequence' = startSequence /\ toPublish = <<>>
      /\ startSequence = snapshotSequence /\ snapshotSequence = SeqAt(log, DueTo(r))
      /\ DueTo(r) = Len(log) /\ SentTo(r) = DueTo(r)
  BY DeliveringFields DEF Commit, Delivering
<1>3. \A n \in 0..Len(log) : SeqAt(log', n) = SeqAt(log, n)
  <2>1. \A n \in 1..Len(log) : log'[n] = log[n]
    BY <1>1, ConcatProperties
  <2> QED BY <1>1, <2>1 DEF SeqAt
<1>4. runStart' = SeqAt(log', r)
  <2>1. r \in 0..Len(log)
    BY <1>2, DeliveringFields
  <2> QED BY <1>3, <2>1 DEF Delivering
<1>5. \A i \in DOMAIN published' : published'[i] = log'[r + i].sequence
  <2>1. \A i \in DOMAIN published : r + i \in 1..Len(log)
    BY DeliveringFields, <1>2 DEF SentTo
  <2>2. \A n \in 1..Len(log) : log'[n] = log[n]
    BY <1>1, ConcatProperties
  <2> QED BY <2>1, <2>2 DEF Delivering
<1>6. SentTo(r)' = Len(log)
  BY <1>2 DEF SentTo
<1>7. CASE phase' = "publish" /\ toPublish' = saved /\ snapshotSequence' = Last(saved).sequence
  <2>1. DueTo(r)' = Len(log')
    BY <1>1, <1>6, <1>7 DEF DueTo
  <2>2. toPublish' = Slice(log', Len(log), Len(log'))
    BY <1>1, <1>7, SliceOfMore
  <2>3. /\ DueTo(r)' <= Len(log') /\ toPublish' = Slice(log', SentTo(r)', DueTo(r)')
        /\ snapshotSequence' = SeqAt(log', DueTo(r)') /\ phase' = "publish"
    BY <1>1, <1>6, <1>7, <2>1, <2>2
  <2> QED BY Zenon, <1>4, <1>5, <2>1, <2>3 DEF Delivering
<1>8. CASE phase' = "recover" /\ toPublish' = toPublish /\ snapshotSequence' = snapshotSequence
  <2>1. DueTo(r)' = Len(log)
    BY <1>1, <1>2, <1>6, <1>8 DEF DueTo
  <2>2. Slice(log', Len(log), Len(log)) = <<>>
    <3>1. Len(log) <= Len(log) /\ Len(log) <= Len(log')
      BY <1>1
    <3>2. PICK events \in Seq(StoredEvent) : events = log'
      BY <1>1
    <3>3. PICK n \in Nat : n = Len(log)
      BY <1>1
    <3>4. Slice(events, n, n) = <<>>
      BY <3>1, <3>2, <3>3, SliceEmpty
    <3> QED BY <3>2, <3>3, <3>4
  <2>3. SeqAt(log', Len(log)) = SeqAt(log, Len(log))
    BY <1>1, <1>3
  <2>4. /\ DueTo(r)' <= Len(log') /\ toPublish' = Slice(log', SentTo(r)', DueTo(r)')
        /\ toPublish' = <<>> /\ startSequence' = snapshotSequence'
        /\ snapshotSequence' = SeqAt(log', SentTo(r)') /\ phase' = "recover"
    BY <1>1, <1>2, <1>6, <1>8, <2>1, <2>2, <2>3
  <2> QED BY Zenon, <1>4, <1>5, <2>4 DEF Delivering
<1> QED BY <1>7, <1>8

LEMMA DeliveryReconcile ==
  ASSUME TypeOK, Ordered, NEW r \in Nat, Delivering(r), ~unreconciled',
         Reconcile \/ FailReconcile
  PROVE  Delivering(r)'
<1> DEFINE n == SentTo(r)
<1>1. log \in Seq(StoredEvent) /\ InSequence(log) /\ Len(log) \in Nat
  BY VisibleLog
<1>2. /\ phase = "recover" /\ phase' = "publish" /\ log' = log /\ runStart' = runStart
      /\ published' = published /\ startSequence' = startSequence
  BY DEF Reconcile, FailReconcile
<1>3. /\ toPublish = <<>> /\ DueTo(r) = n /\ startSequence = SeqAt(log, n)
      /\ snapshotSequence = SeqAt(log, n) /\ n \in 0..Len(log) /\ n \in Nat
  BY <1>1, <1>2, DeliveringFields DEF Delivering
<1>4. SentTo(r)' = n
  BY <1>2 DEF SentTo
<1> HIDE DEF n
<1>5. CASE Reconcile
  <2>1. PICK m \in n..Len(log) :
          /\ ReadFromSequence(SeqAt(log, n)) = Slice(log, n, m)
          /\ ~CutOff(SeqAt(log, n)) <=> m = Len(log)
    BY Zenon, <1>1, <1>3, ReadFromCursor
  <2>2. ReadFromSequence(startSequence) = Slice(log, n, Len(log))
    BY <1>3, <1>5, <2>1 DEF Reconcile
  <2> DEFINE found == Slice(log, n, Len(log))
  <2>3. n <= Len(log) /\ Len(log) <= Len(log)
    BY <1>1, <1>3
  <2>4. /\ found \in Seq(StoredEvent) /\ Len(found) = Len(log) - n
        /\ \A i \in 1..Len(log) - n : found[i] = log[n + i]
    BY Zenon, <1>1, <1>3, <2>3, SliceFields
  <2> HIDE DEF found
  <2>5. CASE found # <<>>
    <3>1. toPublish' = found /\ snapshotSequence' = Last(found).sequence
      BY Zenon, <1>5, <2>2, <2>5 DEF Reconcile, found
    <3>2. DueTo(r)' = Len(log)
      BY <1>1, <1>3, <1>4, <2>4, <3>1 DEF DueTo
    <3>3. Last(found).sequence = SeqAt(log, Len(log))
      <4>1. Len(found) \in 1..Len(log) - n /\ n + Len(found) = Len(log) /\ Len(log) # 0
        BY <1>1, <1>3, <2>4, <2>5
      <4>2. found[Len(found)] = log[Len(log)]
        BY <2>4, <4>1
      <4> QED BY <4>1, <4>2 DEF Last, SeqAt
    <3> QED BY <1>2, <1>4, <3>1, <3>2, <3>3 DEF Delivering, found
  <2>6. CASE found = <<>>
    <3>1. toPublish' = <<>> /\ snapshotSequence' = snapshotSequence
      BY Zenon, <1>3, <1>5, <2>2, <2>6 DEF Reconcile, found
    <3>2. n = Len(log)
      BY <1>1, <1>3, <2>4, <2>6
    <3>3. DueTo(r)' = n
      BY <1>3, <1>4, <3>1 DEF DueTo
    <3>4. toPublish' = Slice(log, n, n)
      BY <2>6, <3>1, <3>2 DEF found
    <3> QED BY <1>2, <1>3, <1>4, <3>1, <3>2, <3>3, <3>4 DEF Delivering
  <2> QED BY <2>5, <2>6
<1>6. CASE FailReconcile
  <2>1. ~(LastSequence(log) > startSequence) /\ toPublish' = toPublish
        /\ snapshotSequence' = snapshotSequence
    BY <1>6 DEF FailReconcile
  <2>2. n = Len(log)
    <3>1. Len(log) \in 0..Len(log)
      BY <1>1
    <3>2. n < Len(log) => SeqAt(log, n) < SeqAt(log, Len(log))
      BY Zenon, <1>1, <1>3, <3>1, SeqAtOrder
    <3>3. SeqAt(log, n) \in Nat /\ SeqAt(log, Len(log)) \in Nat
          /\ LastSequence(log) = SeqAt(log, Len(log))
      BY Zenon, <1>1, <1>3, <3>1, SeqAtOrder, LastIsSeqAt
    <3> QED BY <1>1, <1>3, <2>1, <3>2, <3>3
  <2>3. DueTo(r)' = n
    BY <1>3, <1>4, <2>1 DEF DueTo
  <2>4. toPublish = Slice(log, n, n)
    BY <1>3 DEF Delivering, n
  <2> QED BY <1>2, <1>3, <1>4, <2>1, <2>2, <2>3, <2>4 DEF Delivering
<1> QED BY <1>5, <1>6

LEMMA DeliveryPublish ==
  ASSUME TypeOK, NEW r \in Nat, Delivering(r), PublishEvent
  PROVE  Delivering(r)'
<1> DEFINE n == SentTo(r)
           m == DueTo(r)
<1>1. log \in Seq(StoredEvent) /\ Len(log) \in Nat /\ published \in Seq(Nat)
      /\ toPublish \in Seq(StoredEvent)
  BY DEF TypeOK
<1>2. /\ phase = "publish" /\ phase' = "publish" /\ log' = log /\ runStart' = runStart
      /\ snapshotSequence' = snapshotSequence /\ toPublish # <<>>
      /\ published' = Append(published, Head(toPublish).sequence)
      /\ toPublish' = Tail(toPublish)
  BY DEF PublishEvent
<1>3. /\ n \in Nat /\ m \in Nat /\ n <= m /\ m <= Len(log) /\ n = r + Len(published)
      /\ Len(published) \in Nat /\ DOMAIN published = 1..Len(published)
  BY DeliveringFields DEF SentTo
<1>4. toPublish = Slice(log, n, m) /\ m = n + Len(toPublish)
  BY DEF Delivering, DueTo
<1> HIDE DEF n, m
<1>5. n < m
  BY <1>1, <1>2, <1>3, <1>4
<1>6. Head(toPublish) = log[n + 1] /\ Tail(toPublish) = Slice(log, n + 1, m)
  BY ZenonT(30), <1>1, <1>3, <1>4, <1>5, SliceHeadTail
<1>7. Len(published') = Len(published) + 1 /\ DOMAIN published' = 1..Len(published) + 1
      /\ published'[Len(published) + 1] = log[n + 1].sequence
      /\ \A i \in 1..Len(published) : published'[i] = published[i]
  BY <1>1, <1>2, <1>6
<1>8. SentTo(r)' = n + 1
  BY <1>3, <1>7 DEF SentTo
<1>9. DueTo(r)' = m
  <2>1. Len(toPublish') = Len(toPublish) - 1 /\ Len(toPublish) \in Nat
    BY <1>1, <1>2
  <2> QED BY <1>3, <1>4, <1>8, <2>1 DEF DueTo
<1>10. \A i \in DOMAIN published' : published'[i] = log[r + i].sequence
  <2>1. TAKE i \in DOMAIN published'
  <2>2. CASE i = Len(published) + 1
    <3>1. r + i = n + 1
      BY <1>3, <2>2
    <3> QED BY <1>7, <2>2, <3>1
  <2>3. CASE i \in 1..Len(published)
    BY <1>3, <1>7, <2>3 DEF Delivering
  <2> QED BY <1>3, <1>7, <2>2, <2>3
<1>11. DueTo(r)' <= Len(log') /\ toPublish' = Slice(log', SentTo(r)', DueTo(r)')
       /\ runStart' = SeqAt(log', r)
  BY <1>2, <1>3, <1>6, <1>8, <1>9 DEF Delivering
<1>12. DueTo(r)' = Len(log') /\ snapshotSequence' = SeqAt(log', DueTo(r)')
  BY <1>2, <1>9 DEF Delivering, m
<1> QED BY <1>2, <1>10, <1>11, <1>12 DEF Delivering

(* Nothing but a crash forgets that a read came short.                     *)
LEMMA HistoryKept ==
  ASSUME [Next]_vars, ~Crash
  PROVE  (truncated => truncated') /\ (unreconciled => unreconciled')
<1>1. CASE Startup
  <2>1. CASE StartServer
    BY Zenon, <2>1 DEF StartServer
  <2>2. CASE BootstrapNext
    BY Zenon, <2>2 DEF BootstrapNext
  <2>3. CASE BootstrapEvent \/ LoadSnapshot
    BY <2>3 DEF BootstrapEvent, LoadSnapshot
  <2> QED BY <1>1, <2>1, <2>2, <2>3 DEF Startup
<1>2. CASE Client \/ ReplayReceipt
  BY <1>2 DEF Client, Redispatch, Dispatch, Enqueue, ReplayReceipt
<1>3. CASE BeginTransaction \/ BreakInvariant \/ FailLookup
  BY <1>3 DEF BeginTransaction, BreakInvariant, FailLookup, Take
<1>4. CASE AppendEvent \/ ViolateUnique \/ FailTransaction
  BY <1>4 DEF AppendEvent, ViolateUnique, FailTransaction, Rollback
<1>5. CASE CommitAcknowledged \/ CommitUnacknowledged
  BY <1>5 DEF CommitAcknowledged, CommitUnacknowledged, Commit
<1>6. CASE Reconcile \/ FailReconcile
  <2>1. CASE Reconcile
    BY Zenon, <2>1 DEF Reconcile
  <2>2. CASE FailReconcile
    BY Zenon, <2>2 DEF FailReconcile
  <2> QED BY <1>6, <2>1, <2>2
<1>7. CASE PublishEvent \/ RecordRejection \/ AnswerClient
  BY <1>7 DEF PublishEvent, RecordRejection, AnswerClient
<1>8. CASE UNCHANGED vars
  BY <1>8 DEF vars
<1> QED BY <1>1, <1>2, <1>3, <1>4, <1>5, <1>6, <1>7, <1>8 DEF Next, Process, StorageFailure

LEMMA DeliveryKept ==
  ASSUME TypeOK, Working, Cursors, Delivery, [Next]_vars
  PROVE  Delivery'
<1>0. Cursors'
  BY CursorsKept
<1>1. CASE StartServer \/ BootstrapEvent \/ BootstrapNext
  BY <1>1 DEF StartServer, BootstrapEvent, BootstrapNext, Delivery, Running
<1>2. CASE LoadSnapshot
  <2>1. ~truncated' => \E r \in Nat : Delivering(r)'
    BY <1>0, <1>2, DeliveryLoad
  <2>2. Running'
    BY <1>2 DEF LoadSnapshot, Running
  <2> QED BY <2>1, <2>2 DEF Delivery
<1>3. CASE Crash
  BY <1>3 DEF Crash, Delivery, Running
<1>4. CASE Running /\ Running'
  <2>1. SUFFICES ASSUME ~unreconciled', ~truncated' PROVE \E r \in Nat : Delivering(r)'
    BY <1>4 DEF Delivery
  <2>2. SUFFICES ASSUME NEW r \in Nat, Delivering(r), ~unreconciled, ~truncated
                 PROVE  Delivering(r)'
    <3>1. ~unreconciled /\ ~truncated
      BY <1>4, <2>1, HistoryKept DEF Crash, Running
    <3> QED BY <1>4, <3>1 DEF Delivery
  <2>3. CASE Client \/ ReplayReceipt \/ AppendEvent \/ UNCHANGED vars
    <3>1. /\ log' = log /\ runStart' = runStart /\ published' = published
          /\ toPublish' = toPublish /\ snapshotSequence' = snapshotSequence
          /\ phase' = phase /\ startSequence' = startSequence
      BY <2>3 DEF Client, Redispatch, Dispatch, Enqueue, ReplayReceipt, AppendEvent, vars
    <3> QED BY <2>2, <3>1, DeliveryUnmoved
  <2>4. CASE BeginTransaction \/ BreakInvariant \/ FailLookup
    <3>1. /\ log' = log /\ runStart' = runStart /\ published' = published
          /\ toPublish' = toPublish /\ snapshotSequence' = snapshotSequence
          /\ phase = "idle" /\ phase' \in {"append", "recover"}
          /\ startSequence' = snapshotSequence
      BY <2>4 DEF BeginTransaction, BreakInvariant, FailLookup, Take
    <3> QED BY <2>2, <3>1, DeliveryUnmoved
  <2>5. CASE ViolateUnique \/ FailTransaction
    <3>1. /\ log' = log /\ runStart' = runStart /\ published' = published
          /\ toPublish' = toPublish /\ snapshotSequence' = snapshotSequence
          /\ phase = "append" /\ phase' = "recover" /\ startSequence' = startSequence
      BY <2>5 DEF ViolateUnique, FailTransaction, Rollback
    <3> QED BY <2>2, <3>1, DeliveryUnmoved
  <2>6. CASE CommitAcknowledged \/ CommitUnacknowledged
    <3>1. /\ Commit /\ runStart' = runStart /\ published' = published
          /\ \/ /\ phase' = "publish" /\ toPublish' = saved
                /\ snapshotSequence' = Last(saved).sequence
             \/ /\ phase' = "recover" /\ toPublish' = toPublish
                /\ snapshotSequence' = snapshotSequence
      BY <2>6 DEF CommitAcknowledged, CommitUnacknowledged, Commit
    <3> QED BY <2>2, <3>1, DeliveryCommit DEF Cursors
  <2>7. CASE Reconcile \/ FailReconcile
    BY <2>1, <2>2, <2>7, DeliveryReconcile DEF Cursors
  <2>8. CASE PublishEvent
    BY <2>2, <2>8, DeliveryPublish
  <2>9. CASE RecordRejection \/ AnswerClient
    <3>1. /\ log' = log /\ runStart' = runStart /\ published' = published
          /\ toPublish' = toPublish /\ snapshotSequence' = snapshotSequence
          /\ phase \in {"publish", "answer"} /\ phase' \in {"answer", "idle"}
          /\ phase = "publish" => toPublish = <<>>
      BY <2>9 DEF RecordRejection, AnswerClient
    <3>2. toPublish = <<>>
      BY <2>2, <3>1 DEF Delivering
    <3> QED BY <2>2, <3>1, <3>2, DeliveryUnmoved
  <2>10. CASE Startup \/ Crash
    BY <1>4, <2>10 DEF Startup, StartServer, BootstrapEvent, BootstrapNext, LoadSnapshot,
       Crash, Running
  <2> QED BY <2>3, <2>4, <2>5, <2>6, <2>7, <2>8, <2>9, <2>10 DEF Next, Process, StorageFailure
<1>5. Running /\ ~Running' => Crash
  BY DEF Next, Startup, StartServer, BootstrapEvent, BootstrapNext, LoadSnapshot,
     Process, StorageFailure, Client, Redispatch, Dispatch, Enqueue, ReplayReceipt,
     BeginTransaction, BreakInvariant, FailLookup, Take, AppendEvent, ViolateUnique,
     FailTransaction, Rollback, CommitAcknowledged, CommitUnacknowledged, Commit,
     Reconcile, FailReconcile, PublishEvent, RecordRejection, AnswerClient, vars, Running
<1>6. ~Running => \/ StartServer \/ BootstrapEvent \/ BootstrapNext \/ LoadSnapshot
                  \/ Crash \/ UNCHANGED vars
  BY DEF Next, Startup, Process, StorageFailure, Client, Redispatch, Dispatch, Enqueue,
     ReplayReceipt, BeginTransaction, BreakInvariant, FailLookup, Take, AppendEvent,
     ViolateUnique, FailTransaction, CommitAcknowledged, CommitUnacknowledged, Commit,
     Reconcile, FailReconcile, PublishEvent, RecordRejection, AnswerClient, Running
<1>7. CASE ~Running /\ UNCHANGED vars
  BY <1>7 DEF vars, Delivery, Running
<1> QED BY <1>1, <1>2, <1>3, <1>4, <1>5, <1>6, <1>7

LEMMA DeliveryReachable == Spec => [](TypeOK /\ Working /\ Cursors /\ Delivery)
<1>1. Init => Delivery
  BY DEF Init, Delivery, Running
<1>2. TypeOK /\ Working /\ Cursors /\ Delivery /\ [Next]_vars => Delivery'
  BY DeliveryKept
<1> QED BY <1>1, <1>2, CursorsReachable, PTL DEF Spec

(* Subscribers are sent the log: after the snapshot the server began with, *)
(* every event, in order, once, although a commit can succeed unseen and   *)
(* its events come from a later read.                                      *)
THEOREM SubscribersSeeTheLog == Spec => []PublishedIsLog
<1>1. TypeOK /\ Working /\ Cursors /\ Delivery => PublishedIsLog
  <2> SUFFICES ASSUME TypeOK, Cursors, Delivery, ~unreconciled, ~truncated
               PROVE  /\ Len(published) <= Len(EventsAfter(log, runStart))
                      /\ \A i \in DOMAIN published :
                           published[i] = EventsAfter(log, runStart)[i].sequence
                      /\ phase = "idle" => Len(published) = Len(EventsAfter(log, runStart))
    BY DEF PublishedIsLog
  <2>1. CASE ~Running
    <3>1. published = <<>> /\ phase # "idle"
      BY <2>1 DEF Delivery, Running
    <3>2. EventsAfter(log, runStart) \in Seq(StoredEvent)
      BY EventsAfterType DEF TypeOK
    <3>3. Len(published) = 0 /\ DOMAIN published = {} /\ Len(EventsAfter(log, runStart)) \in Nat
      BY <3>1, <3>2
    <3> QED BY <3>1, <3>3
  <2>2. CASE Running
    <3>1. PICK r \in Nat : Delivering(r)
      BY <2>2 DEF Delivery
    <3>2. /\ log \in Seq(StoredEvent) /\ InSequence(log) /\ Len(log) \in Nat
          /\ Len(log) <= Len(log)
      BY VisibleLog DEF Cursors
    <3>3. /\ r <= SentTo(r) /\ SentTo(r) <= DueTo(r) /\ DueTo(r) <= Len(log)
          /\ SentTo(r) = r + Len(published) /\ Len(published) \in Nat /\ DueTo(r) \in Nat
          /\ DOMAIN published = 1..Len(published) /\ SentTo(r) \in Nat
          /\ phase = "idle" => SentTo(r) = Len(log)
      BY <3>1, DeliveringFields DEF SentTo, Delivering
    <3>4. r \in 0..Len(log) /\ r <= Len(log)
      BY <3>2, <3>3
    <3>5. EventsAfter(log, runStart) = Slice(log, r, Len(log))
      BY <3>1, <3>2, <3>4, EventsAfterCursor DEF Delivering
    <3>6. /\ Len(Slice(log, r, Len(log))) = Len(log) - r
          /\ \A i \in 1..Len(log) - r : Slice(log, r, Len(log))[i] = log[r + i]
      BY Zenon, <3>2, <3>4, SliceFields
    <3>7. \A i \in DOMAIN published : i \in 1..Len(log) - r
      BY <3>2, <3>3
    <3>8. \A i \in DOMAIN published : published[i] = log[r + i].sequence
      BY <3>1 DEF Delivering
    <3>9. \A i \in DOMAIN published : published[i] = EventsAfter(log, runStart)[i].sequence
      BY <3>5, <3>6, <3>7, <3>8
    <3>10. Len(EventsAfter(log, runStart)) = Len(log) - r
      BY <3>5, <3>6
    <3> QED BY <3>2, <3>3, <3>9, <3>10
  <2> QED BY <2>1, <2>2
<1> QED BY <1>1, DeliveryReachable, PTL

-----------------------------------------------------------------------------
(* Which projects and threads a read model, or the tables, has a record    *)
(* of; both are made of records that carry the field exists.               *)
Found(m, s) == IF s \in Projects THEN m.projects[s].exists ELSE m.threads[s].exists

Entry(row) == "exists" \in DOMAIN row /\ row.exists \in BOOLEAN
Shaped(m) ==
  /\ "projects" \in DOMAIN m /\ "threads" \in DOMAIN m
  /\ DOMAIN m.projects = Projects /\ DOMAIN m.threads = Threads
  /\ \A p \in Projects : Entry(m.projects[p])
  /\ \A t \in Threads : Entry(m.threads[t])

Streams == Projects \cup Threads
Creates(e, s) == e.stream = s /\ IsCreation(e.type)

LEMMA ThreadAfterEntry ==
  ASSUME NEW thread, Entry(thread), NEW e
  PROVE  /\ Entry(ThreadAfter(thread, e))
         /\ ThreadAfter(thread, e).exists <=> thread.exists \/ e.type = "thread.created"
<1>1. CASE e.type = "thread.created"
  <2>1. ThreadAfter(thread, e) = NewThread(e.arg)
    BY <1>1 DEF ThreadAfter
  <2>2. \A project : "exists" \in DOMAIN NewThread(project) /\ NewThread(project).exists = TRUE
    BY DEF NewThread
  <2> QED BY <1>1, <2>1, <2>2 DEF Entry
<1>2. ASSUME e.type # "thread.created"
      PROVE  "exists" \in DOMAIN ThreadAfter(thread, e)
              /\ ThreadAfter(thread, e).exists = thread.exists
  <2>1. \A n : /\ DOMAIN Revert(thread, n) = DOMAIN thread
               /\ Revert(thread, n).exists = thread.exists
    BY DEF Revert, Entry
  <2>2. \A c : /\ DOMAIN CompleteTurnDiff(thread, c) = DOMAIN thread
               /\ CompleteTurnDiff(thread, c).exists = thread.exists
    BY DEF CompleteTurnDiff, Entry
  <2>3. \A c : /\ DOMAIN SetSession(thread, c) = DOMAIN thread
               /\ SetSession(thread, c).exists = thread.exists
    BY DEF SetSession, Entry
  <2> QED BY <1>2, <2>1, <2>2, <2>3 DEF ThreadAfter, Entry
<1> QED BY <1>1, <1>2 DEF Entry

LEMMA ProjectAfterEntry ==
  ASSUME NEW project, Entry(project), NEW e
  PROVE  /\ Entry(ProjectAfter(project, e))
         /\ ProjectAfter(project, e).exists <=> project.exists \/ e.type = "project.created"
BY DEF ProjectAfter, Entry

LEMMA ApplyThreadsEntry ==
  ASSUME NEW rows, Shaped(rows), NEW e, e.stream \in Threads
  PROVE  /\ Entry(ApplyThreads(rows, e))
         /\ ApplyThreads(rows, e).exists <=>
              rows.threads[e.stream].exists \/ e.type = "thread.created"
<1> DEFINE row == rows.threads[e.stream]
<1>1. Entry(row)
  BY DEF Shaped
<1>2. CASE e.type = "thread.created"
  <2>1. ApplyThreads(rows, e) = [exists |-> TRUE, project |-> e.arg, archived |-> FALSE,
                                 deleted |-> FALSE, pendingApprovals |-> 0]
    BY <1>2 DEF ApplyThreads
  <2> QED BY <1>2, <2>1 DEF Entry
<1>3. CASE e.type # "thread.created"
  BY <1>1, <1>3 DEF ApplyThreads, Entry
<1> QED BY <1>2, <1>3

LEMMA StreamTypes ==
  ASSUME NEW e \in StoredEvent, OwnStream(e)
  PROVE  /\ e.stream \in Streams
         /\ e.stream \in Projects <=> e.stream \notin Threads
         /\ e.stream \in Projects /\ IsCreation(e.type) <=> e.type = "project.created"
         /\ e.stream \in Threads /\ IsCreation(e.type) <=> e.type = "thread.created"
BY NamesAssumption DEF StoredEvent, OwnStream, IsCreation, Streams

(* An event adds its stream to a read model when it is a creation, and     *)
(* changes nothing else about which streams it has.                        *)
LEMMA ProjectEventFinds ==
  ASSUME NEW m, Shaped(m), NEW e \in StoredEvent, OwnStream(e)
  PROVE  /\ Shaped(ProjectEvent(m, e))
         /\ \A s \in Streams : Found(ProjectEvent(m, e), s) <=> Found(m, s) \/ Creates(e, s)
<1>1. CASE e.stream \in Projects
  <2> DEFINE after == ProjectAfter(m.projects[e.stream], e)
  <2>1. Entry(after) /\ (after.exists <=> m.projects[e.stream].exists \/ e.type = "project.created")
    BY <1>1, ProjectAfterEntry DEF Shaped
  <2> HIDE DEF after
  <2>2. ProjectEvent(m, e) = [m EXCEPT !.projects = [@ EXCEPT ![e.stream] = after]]
    BY <1>1 DEF ProjectEvent, after
  <2> QED BY <1>1, <2>1, <2>2, StreamTypes, NamesAssumption DEF Shaped, Found, Creates, Streams
<1>2. CASE e.stream \notin Projects
  <2> DEFINE after == ThreadAfter(m.threads[e.stream], e)
  <2>0. e.stream \in Threads
    BY <1>2, StreamTypes
  <2>1. Entry(after) /\ (after.exists <=> m.threads[e.stream].exists \/ e.type = "thread.created")
    BY <2>0, ThreadAfterEntry DEF Shaped
  <2> HIDE DEF after
  <2>2. ProjectEvent(m, e) = [m EXCEPT !.threads = [@ EXCEPT ![e.stream] = after]]
    BY <1>2 DEF ProjectEvent, after
  <2> QED BY <1>2, <2>0, <2>1, <2>2, StreamTypes, NamesAssumption
        DEF Shaped, Found, Creates, Streams
<1> QED BY <1>1, <1>2

LEMMA EmptyFinds ==
  /\ Shaped(EmptyReadModel) /\ \A s \in Streams : ~Found(EmptyReadModel, s)
  /\ Shaped(EmptyTables) /\ \A s \in Streams : ~Found(EmptyTables, s)
<1>1. Entry(AbsentProject) /\ ~AbsentProject.exists
  BY DEF AbsentProject, Entry
<1>2. Entry(AbsentThread) /\ ~AbsentThread.exists
  BY DEF AbsentThread, NewThread, Entry
<1>3. \A x : Entry([exists |-> FALSE, project |-> None, archived |-> FALSE,
                    deleted |-> FALSE, pendingApprovals |-> x])
           /\ ~[exists |-> FALSE, project |-> None, archived |-> FALSE,
                deleted |-> FALSE, pendingApprovals |-> x].exists
  BY DEF Entry
<1> QED BY <1>1, <1>2, <1>3 DEF EmptyReadModel, EmptyTables, Shaped, Found, Streams

(* The snapshot finds what the tables have.                                *)
LEMMA SnapshotFinds ==
  ASSUME NEW rows, Shaped(rows)
  PROVE  /\ Shaped(Snapshot(rows))
         /\ \A s \in Streams : Found(Snapshot(rows), s) <=> Found(rows, s)
<1>1. \A t : Entry(SnapshotThread(rows, t)) /\ SnapshotThread(rows, t).exists
  BY DEF SnapshotThread, Entry
<1>2. Entry(AbsentThread) /\ ~AbsentThread.exists
  BY DEF AbsentThread, NewThread, Entry
<1>3. \A t \in Threads : Entry(rows.threads[t])
  BY DEF Shaped
<1> QED BY <1>1, <1>2, <1>3 DEF Snapshot, Shaped, Found, Streams, Entry

(* The projector that owns the record of a stream.                         *)
OwnerOf(s) == IF s \in Projects THEN "projects" ELSE "threads"

LEMMA ApplyProjectorFinds ==
  ASSUME NEW name, NEW rows, Shaped(rows), NEW e \in StoredEvent, OwnStream(e)
  PROVE  /\ Shaped(ApplyProjector(name, rows, e))
         /\ \A s \in Streams : Found(ApplyProjector(name, rows, e), s) <=>
              Found(rows, s) \/ (name = OwnerOf(s) /\ Creates(e, s))
<1> DEFINE next == ApplyProjector(name, rows, e)
<1>1. CASE e.stream \in Projects /\ name = "projects"
  <2> DEFINE after == ProjectAfter(rows.projects[e.stream], e)
  <2>1. Entry(after) /\ (after.exists <=> rows.projects[e.stream].exists
                        \/ e.type = "project.created")
    BY <1>1, ProjectAfterEntry DEF Shaped
  <2> HIDE DEF after
  <2>2. next = [rows EXCEPT !.projects = [@ EXCEPT ![e.stream] = after]]
    BY <1>1 DEF ApplyProjector, after
  <2> HIDE DEF next
  <2>3. Shaped(next)
    BY <1>1, <2>1, <2>2 DEF Shaped
  <2>4. \A s \in Streams : Found(next, s) <=> Found(rows, s)
          \/ (s = e.stream /\ e.type = "project.created")
    BY <1>1, <2>1, <2>2, NamesAssumption DEF Shaped, Found, Streams
  <2> QED BY <1>1, <2>3, <2>4, StreamTypes DEF Creates, OwnerOf, next
<1>2. CASE e.stream \in Threads /\ name = "threads"
  <2> DEFINE after == ApplyThreads(rows, e)
  <2>0. e.stream \notin Projects
    BY <1>2, NamesAssumption
  <2>1. Entry(after) /\ (after.exists <=> rows.threads[e.stream].exists
                        \/ e.type = "thread.created")
    BY <1>2, ApplyThreadsEntry
  <2> HIDE DEF after
  <2>2. next = [rows EXCEPT !.threads = [@ EXCEPT ![e.stream] = after]]
    BY <1>2, <2>0 DEF ApplyProjector, after
  <2> HIDE DEF next
  <2>3. Shaped(next)
    BY <1>2, <2>1, <2>2 DEF Shaped
  <2>4. \A s \in Streams : Found(next, s) <=> Found(rows, s)
          \/ (s = e.stream /\ e.type = "thread.created")
    BY <1>2, <2>0, <2>1, <2>2, NamesAssumption DEF Shaped, Found, Streams
  <2> QED BY <1>2, <2>0, <2>3, <2>4, StreamTypes DEF Creates, OwnerOf, next
<1>3. ASSUME name # OwnerOf(e.stream)
      PROVE  next.projects = rows.projects /\ next.threads = rows.threads
              /\ DOMAIN next = DOMAIN rows
  <2>1. "projects" \in DOMAIN rows /\ "threads" \in DOMAIN rows
    BY DEF Shaped
  <2>2. ApplyTurns(rows, e).projects = rows.projects /\ ApplyTurns(rows, e).threads = rows.threads
        /\ DOMAIN ApplyTurns(rows, e) = DOMAIN rows
    BY <2>1 DEF ApplyTurns
  <2> QED BY <1>3, <2>1, <2>2 DEF ApplyProjector, OwnerOf
<1>4. ASSUME name # OwnerOf(e.stream)
      PROVE  Shaped(next) /\ \A s \in Streams : Found(next, s) <=> Found(rows, s)
  <2> HIDE DEF next
  <2> QED BY <1>3, <1>4 DEF Shaped, Found
<1>5. e.stream \in Projects \/ e.stream \in Threads
  BY StreamTypes DEF Streams
<1> QED BY <1>1, <1>2, <1>4, <1>5, NamesAssumption DEF OwnerOf, Creates

-----------------------------------------------------------------------------
(* What the folds of the model find: FoldLaws, once per operator folded.   *)
CreatedIn(events, s) == \E i \in DOMAIN events : Creates(events[i], s)
CreatedWithin(events, k, s) == \E i \in 1..k : Creates(events[i], s)
OwnStreams(events) == \A i \in DOMAIN events : OwnStream(events[i])

FindsToo(m, next, events, k) ==
  /\ Shaped(next)
  /\ \A s \in Streams : Found(next, s) <=> Found(m, s) \/ CreatedWithin(events, k, s)

(* Events into a read model.                                               *)
ModelStep(x, acc, e) == ProjectEvent(acc, e)
ModelClaim(x, k, acc) == FindsToo(x.base, acc, x.events, k)
ModelFold == INSTANCE FoldLaws WITH Op <- ModelStep, P <- ModelClaim

LEMMA ModelFoldLeast == ModelFold!LeastMembers
BY LeastNatural DEF ModelFold!LeastMembers

LEMMA ModelFoldIsFold ==
  \A x, m, events : ModelFold!Fold(x, m, events) = FoldLeft(ProjectEvent, m, events)
BY Zenon DEF ModelFold!Fold, ModelFold!Greatest, FoldLeft, MapThenFoldSet, Max, ModelStep

LEMMA WithinAll ==
  ASSUME NEW events \in Seq(StoredEvent), NEW s
  PROVE  /\ CreatedWithin(events, Len(events), s) <=> CreatedIn(events, s)
         /\ ~CreatedWithin(events, 0, s)
         /\ \A k \in 1..Len(events) : CreatedWithin(events, k, s) <=>
              CreatedWithin(events, k - 1, s) \/ Creates(events[k], s)
<1>1. DOMAIN events = 1..Len(events) /\ Len(events) \in Nat
  OBVIOUS
<1>2. ~CreatedWithin(events, 0, s)
  BY DEF CreatedWithin
<1>3. \A k \in 1..Len(events) : 1..k = (1..k - 1) \cup {k}
  OBVIOUS
<1> QED BY <1>1, <1>2, <1>3 DEF CreatedWithin, CreatedIn

LEMMA ProjectEventsFind ==
  ASSUME NEW m, Shaped(m), NEW events \in Seq(StoredEvent), OwnStreams(events)
  PROVE  /\ Shaped(FoldLeft(ProjectEvent, m, events))
         /\ \A s \in Streams : Found(FoldLeft(ProjectEvent, m, events), s) <=>
              Found(m, s) \/ CreatedIn(events, s)
<1> DEFINE x == [base |-> m, events |-> events]
<1>1. x.base = m /\ x.events = events
  OBVIOUS
<1> HIDE DEF x
<1>2. ModelClaim(x, 0, m)
  BY <1>1, WithinAll DEF ModelClaim, FindsToo
<1>3. ASSUME NEW k \in 1..Len(events), NEW acc, ModelClaim(x, k - 1, acc)
      PROVE  ModelClaim(x, k, ModelStep(x, acc, events[k]))
  <2>1. events[k] \in StoredEvent /\ OwnStream(events[k])
    BY DEF OwnStreams
  <2>2. Shaped(acc) /\ \A s \in Streams :
          Found(acc, s) <=> Found(m, s) \/ CreatedWithin(events, k - 1, s)
    BY <1>1, <1>3 DEF ModelClaim, FindsToo
  <2>3. /\ Shaped(ProjectEvent(acc, events[k]))
        /\ \A s \in Streams : Found(ProjectEvent(acc, events[k]), s) <=>
             Found(acc, s) \/ Creates(events[k], s)
    BY <2>1, <2>2, ProjectEventFinds
  <2> QED BY <1>1, <2>2, <2>3, WithinAll DEF ModelClaim, FindsToo, ModelStep
<1>4. ModelClaim(x, Len(events), ModelFold!Fold(x, m, events))
  BY Zenon, <1>2, <1>3, ModelFoldLeast, ModelFold!FoldInvariant
<1> QED BY <1>1, <1>4, ModelFoldIsFold, WithinAll DEF ModelClaim, FindsToo

-----------------------------------------------------------------------------
(* An event into the tables, projector after projector: the guard lets a   *)
(* projector skip events beyond its cursor.                                *)
OwnedWithin(k, s) == \E j \in 1..k : Projectors[j] = OwnerOf(s)
RowsClaim(x, k, acc) ==
  /\ Shaped(acc)
  /\ \A s \in Streams : Found(acc, s) <=>
       Found(x.base, s) \/ (Creates(x.event, s) /\ OwnedWithin(k, s))

RowsStep(x, acc, name) == ApplyProjector(name, acc, x.event)
RowsFold == INSTANCE FoldLaws WITH Op <- RowsStep, P <- RowsClaim

LEMMA RowsFoldLeast == RowsFold!LeastMembers
BY LeastNatural DEF RowsFold!LeastMembers

LEMMA RowsFoldIterates ==
  ASSUME NEW x, NEW base, NEW s, NEW n \in Nat, DOMAIN s = 1..n
  PROVE  \E it : RowsFold!Steps(x, base, s, n, it) /\ RowsFold!Fold(x, base, s) = it[1..n]
<1>1. RowsFold!Iterated(x, base, s, n)
  BY Zenon, RowsFoldLeast, RowsFold!FoldIterates
<1> QED BY Zenon, <1>1 DEF RowsFold!Iterated

LEMMA RowsFoldIsFold ==
  \A x, rows : RowsFold!Fold(x, rows, Projectors) = ApplyEvent(rows, x.event)
BY Zenon DEF RowsFold!Fold, RowsFold!Greatest, FoldLeft, MapThenFoldSet, Max, RowsStep, ApplyEvent

LEMMA OwnedByAll ==
  /\ \A s : OwnedWithin(9, s) /\ ~OwnedWithin(0, s)
  /\ \A s : \A k \in 1..9 : OwnedWithin(k, s) <=>
       OwnedWithin(k - 1, s) \/ Projectors[k] = OwnerOf(s)
<1>1. Projectors[1] = "projects" /\ Projectors[9] = "threads" /\ 1 \in 1..9 /\ 9 \in 1..9
  BY DEF Projectors
<1>2. \A s : OwnedWithin(9, s)
  BY <1>1 DEF OwnedWithin, OwnerOf
<1>3. \A s : ~OwnedWithin(0, s)
  BY DEF OwnedWithin
<1>4. ASSUME NEW s, NEW k \in 1..9
      PROVE  OwnedWithin(k, s) <=> OwnedWithin(k - 1, s) \/ Projectors[k] = OwnerOf(s)
  <2>1. \A j : j \in 1..k <=> j \in 1..k - 1 \/ j = k
    OBVIOUS
  <2> QED BY Zenon, <2>1 DEF OwnedWithin
<1> QED BY <1>2, <1>3, <1>4

LEMMA ProjectorsType == Projectors \in Seq(ProjectorSet) /\ Len(Projectors) = 9
<1>1. Projectors = [q \in 1..9 |-> Projectors[q]]
  BY DEF Projectors
<1>2. \A q \in 1..9 : Projectors[q] \in ProjectorSet
  BY ProjectorNames
<1>3. Projectors \in [1..9 -> ProjectorSet] /\ 9 \in Nat
  BY <1>1, <1>2
<1>4. Projectors \in Seq(ProjectorSet)
  <2> DEFINE names == Projectors
  <2> HIDE DEF names
  <2>1. names \in [1..9 -> ProjectorSet]
    BY <1>3 DEF names
  <2>2. names \in Seq(ProjectorSet)
    BY <2>1
  <2> QED BY <2>2 DEF names
<1> QED BY <1>4, ProjectorNames

LEMMA ApplyEventFinds ==
  ASSUME NEW rows, Shaped(rows), NEW e \in StoredEvent, OwnStream(e)
  PROVE  /\ Shaped(ApplyEvent(rows, e))
         /\ \A s \in Streams : Found(ApplyEvent(rows, e), s) <=> Found(rows, s) \/ Creates(e, s)
<1> DEFINE x == [base |-> rows, event |-> e]
<1>1. x.base = rows /\ x.event = e
  OBVIOUS
<1> HIDE DEF x
<1>2. RowsClaim(x, 0, rows)
  BY <1>1, OwnedByAll DEF RowsClaim
<1>3. ASSUME NEW k \in 1..Len(Projectors), NEW acc, RowsClaim(x, k - 1, acc)
      PROVE  RowsClaim(x, k, RowsStep(x, acc, Projectors[k]))
  <2>0. k \in 1..9
    BY ProjectorsType
  <2>1. Shaped(acc) /\ \A s \in Streams : Found(acc, s) <=>
          Found(rows, s) \/ (Creates(e, s) /\ OwnedWithin(k - 1, s))
    BY <1>1, <1>3 DEF RowsClaim
  <2>2. PICK next : next = ApplyProjector(Projectors[k], acc, e)
    OBVIOUS
  <2>3. /\ Shaped(next)
        /\ \A s \in Streams : Found(next, s) <=>
             Found(acc, s) \/ (Projectors[k] = OwnerOf(s) /\ Creates(e, s))
    BY Zenon, <2>1, <2>2, ApplyProjectorFinds
  <2>4. RowsClaim(x, k, next)
    BY <1>1, <2>0, <2>1, <2>3, OwnedByAll DEF RowsClaim
  <2> QED BY <1>1, <2>2, <2>4 DEF RowsStep
<1>4. RowsClaim(x, Len(Projectors), RowsFold!Fold(x, rows, Projectors))
  BY Zenon, <1>2, <1>3, ProjectorsType, RowsFoldLeast, RowsFold!FoldInvariant
<1> QED BY <1>1, <1>4, RowsFoldIsFold, ProjectorsType, OwnedByAll DEF RowsClaim

(* A block of events into the tables.                                      *)
TablesStep(x, acc, e) == ApplyEvent(acc, e)
TablesFold == INSTANCE FoldLaws WITH Op <- TablesStep, P <- ModelClaim

LEMMA TablesFoldLeast == TablesFold!LeastMembers
BY LeastNatural DEF TablesFold!LeastMembers

LEMMA TablesFoldIsFold ==
  \A x, rows, events : TablesFold!Fold(x, rows, events) = FoldLeft(ApplyEvent, rows, events)
BY Zenon DEF TablesFold!Fold, TablesFold!Greatest, FoldLeft, MapThenFoldSet, Max, TablesStep

LEMMA ApplyEventsFind ==
  ASSUME NEW rows, Shaped(rows), NEW events \in Seq(StoredEvent), OwnStreams(events)
  PROVE  /\ Shaped(FoldLeft(ApplyEvent, rows, events))
         /\ \A s \in Streams : Found(FoldLeft(ApplyEvent, rows, events), s) <=>
              Found(rows, s) \/ CreatedIn(events, s)
<1> DEFINE x == [base |-> rows, events |-> events]
<1>1. x.base = rows /\ x.events = events
  OBVIOUS
<1> HIDE DEF x
<1>2. ModelClaim(x, 0, rows)
  BY <1>1, WithinAll DEF ModelClaim, FindsToo
<1>3. ASSUME NEW k \in 1..Len(events), NEW acc, ModelClaim(x, k - 1, acc)
      PROVE  ModelClaim(x, k, TablesStep(x, acc, events[k]))
  <2>1. events[k] \in StoredEvent /\ OwnStream(events[k])
    BY DEF OwnStreams
  <2>2. Shaped(acc) /\ \A s \in Streams :
          Found(acc, s) <=> Found(rows, s) \/ CreatedWithin(events, k - 1, s)
    BY <1>1, <1>3 DEF ModelClaim, FindsToo
  <2>3. /\ Shaped(ApplyEvent(acc, events[k]))
        /\ \A s \in Streams : Found(ApplyEvent(acc, events[k]), s) <=>
             Found(acc, s) \/ Creates(events[k], s)
    BY <2>1, <2>2, ApplyEventFinds
  <2> QED BY <1>1, <2>2, <2>3, WithinAll DEF ModelClaim, FindsToo, TablesStep
<1>4. ModelClaim(x, Len(events), TablesFold!Fold(x, rows, events))
  BY Zenon, <1>2, <1>3, TablesFoldLeast, TablesFold!FoldInvariant
<1> QED BY <1>1, <1>4, TablesFoldIsFold, WithinAll DEF ModelClaim, FindsToo

-----------------------------------------------------------------------------
(* What an earlier server projected: each projector up to its cursor.      *)
RecordedOf(e, s) == Creates(e, s) /\ e.sequence <= InitialApplied[OwnerOf(s)]

RecordedStep(x, acc, name) ==
  IF x.event.sequence <= InitialApplied[name] THEN ApplyProjector(name, acc, x.event) ELSE acc
RecordedClaim(x, k, acc) ==
  /\ Shaped(acc)
  /\ \A s \in Streams : Found(acc, s) <=>
       Found(x.base, s) \/ (RecordedOf(x.event, s) /\ OwnedWithin(k, s))
RecordedFold == INSTANCE FoldLaws WITH Op <- RecordedStep, P <- RecordedClaim

LEMMA RecordedFoldLeast == RecordedFold!LeastMembers
BY LeastNatural DEF RecordedFold!LeastMembers

LEMMA RecordedFoldIsFold ==
  \A x, rows : RecordedFold!Fold(x, rows, Projectors) = ApplyWhatIsRecorded(rows, x.event)
BY Zenon DEF RecordedFold!Fold, RecordedFold!Greatest, FoldLeft, MapThenFoldSet,
             Max, RecordedStep, ApplyWhatIsRecorded

LEMMA ApplyRecordedFinds ==
  ASSUME NEW rows, Shaped(rows), NEW e \in StoredEvent, OwnStream(e)
  PROVE  /\ Shaped(ApplyWhatIsRecorded(rows, e))
         /\ \A s \in Streams : Found(ApplyWhatIsRecorded(rows, e), s) <=>
              Found(rows, s) \/ RecordedOf(e, s)
<1> DEFINE x == [base |-> rows, event |-> e]
<1>1. x.base = rows /\ x.event = e
  OBVIOUS
<1> HIDE DEF x
<1>2. RecordedClaim(x, 0, rows)
  BY <1>1, OwnedByAll DEF RecordedClaim
<1>3. ASSUME NEW k \in 1..Len(Projectors), NEW acc, RecordedClaim(x, k - 1, acc)
      PROVE  RecordedClaim(x, k, RecordedStep(x, acc, Projectors[k]))
  <2>0. k \in 1..9
    BY ProjectorsType
  <2>1. Shaped(acc) /\ \A s \in Streams : Found(acc, s) <=>
          Found(rows, s) \/ (RecordedOf(e, s) /\ OwnedWithin(k - 1, s))
    BY <1>1, <1>3 DEF RecordedClaim
  <2>2. CASE e.sequence <= InitialApplied[Projectors[k]]
    <3>2. PICK next : next = ApplyProjector(Projectors[k], acc, e)
      OBVIOUS
    <3>3. /\ Shaped(next)
          /\ \A s \in Streams : Found(next, s) <=>
               Found(acc, s) \/ (Projectors[k] = OwnerOf(s) /\ Creates(e, s))
      BY Zenon, <2>1, <3>2, ApplyProjectorFinds
    <3>4. \A s : Projectors[k] = OwnerOf(s) /\ Creates(e, s) <=>
                 Projectors[k] = OwnerOf(s) /\ RecordedOf(e, s)
      BY <2>2 DEF RecordedOf
    <3>5. RecordedClaim(x, k, next)
      BY <1>1, <2>0, <2>1, <3>3, <3>4, OwnedByAll DEF RecordedClaim
    <3> QED BY <1>1, <2>2, <3>2, <3>5 DEF RecordedStep
  <2>3. CASE ~(e.sequence <= InitialApplied[Projectors[k]])
    <3>1. \A s : Projectors[k] = OwnerOf(s) => ~RecordedOf(e, s)
      BY <2>3 DEF RecordedOf
    <3>2. RecordedClaim(x, k, acc)
      BY <1>1, <2>0, <2>1, <3>1, OwnedByAll DEF RecordedClaim
    <3> QED BY <1>1, <2>3, <3>2 DEF RecordedStep
  <2> QED BY <2>2, <2>3
<1>4. RecordedClaim(x, Len(Projectors), RecordedFold!Fold(x, rows, Projectors))
  BY Zenon, <1>2, <1>3, ProjectorsType, RecordedFoldLeast, RecordedFold!FoldInvariant
<1> QED BY <1>1, <1>4, RecordedFoldIsFold, ProjectorsType, OwnedByAll DEF RecordedClaim

EarlierStep(x, acc, e) == ApplyWhatIsRecorded(acc, e)
EarlierClaim(x, k, acc) ==
  /\ Shaped(acc)
  /\ \A s \in Streams : Found(acc, s) <=> \E i \in 1..k : RecordedOf(InitialLog[i], s)
EarlierFold == INSTANCE FoldLaws WITH Op <- EarlierStep, P <- EarlierClaim

LEMMA EarlierFoldLeast == EarlierFold!LeastMembers
BY LeastNatural DEF EarlierFold!LeastMembers

LEMMA EarlierFoldIsFold ==
  \A x, rows, events :
    EarlierFold!Fold(x, rows, events) = FoldLeft(ApplyWhatIsRecorded, rows, events)
BY Zenon DEF EarlierFold!Fold, EarlierFold!Greatest, FoldLeft, MapThenFoldSet, Max, EarlierStep

LEMMA InitialTablesFind ==
  ASSUME NEW rows, rows = FoldLeft(ApplyWhatIsRecorded, EmptyTables, InitialLog)
  PROVE  /\ Shaped(rows)
         /\ \A s \in Streams : Found(rows, s) <=>
              \E i \in DOMAIN InitialLog : RecordedOf(InitialLog[i], s)
<1>0. InitialLog \in Seq(StoredEvent) /\ DOMAIN InitialLog = 1..Len(InitialLog)
  BY InitialLogAssumption
<1>2. EarlierClaim(0, 0, EmptyTables)
  BY EmptyFinds DEF EarlierClaim
<1>3. ASSUME NEW k \in 1..Len(InitialLog), NEW acc, EarlierClaim(0, k - 1, acc)
      PROVE  EarlierClaim(0, k, EarlierStep(0, acc, InitialLog[k]))
  <2>1. InitialLog[k] \in StoredEvent /\ OwnStream(InitialLog[k])
    BY <1>0, InitialLogAssumption
  <2>2. Shaped(acc) /\ \A s \in Streams : Found(acc, s) <=>
          \E i \in 1..k - 1 : RecordedOf(InitialLog[i], s)
    BY <1>3 DEF EarlierClaim
  <2>3. /\ Shaped(ApplyWhatIsRecorded(acc, InitialLog[k]))
        /\ \A s \in Streams : Found(ApplyWhatIsRecorded(acc, InitialLog[k]), s) <=>
             Found(acc, s) \/ RecordedOf(InitialLog[k], s)
    BY <2>1, <2>2, ApplyRecordedFinds
  <2>4. \A j : j \in 1..k <=> j \in 1..k - 1 \/ j = k
    BY <1>0
  <2> QED BY Zenon, <2>2, <2>3, <2>4 DEF EarlierClaim, EarlierStep
<1>4. EarlierClaim(0, Len(InitialLog), EarlierFold!Fold(0, EmptyTables, InitialLog))
  BY Zenon, <1>0, <1>2, <1>3, EarlierFoldLeast, EarlierFold!FoldInvariant
<1> QED BY <1>0, <1>4, EarlierFoldIsFold DEF EarlierClaim

-----------------------------------------------------------------------------
(* The events of an admitted command: a creation comes first and its       *)
(* stream is new, and any other event is of a stream that is there or that *)
(* the first event creates.                                                *)
PlannedWell(model, plan, i) ==
  /\ OwnStream(plan[i]) /\ plan[i].type # "thread.forked"
  /\ IF IsCreation(plan[i].type) THEN i = 1 /\ ~Found(model, plan[i].stream)
     ELSE \/ Found(model, plan[i].stream)
          \/ i > 1 /\ Creates(plan[1], plan[i].stream)

LEMMA CommandStream ==
  ASSUME NEW cmd \in Commands
  PROVE  /\ cmd.stream \in IF cmd.type \in {"project.create", "project.meta.update",
                                            "project.delete"}
                           THEN Projects ELSE Threads
         /\ cmd.type = "chat.fork" => cmd.source \in Threads
         /\ cmd.type = "chat.import" => cmd.arg \in Seq(Range(cmd.arg))
<1>1. PICK id \in CommandIds, r \in Requests :
        cmd = [id |-> id, type |-> r.type, stream |-> r.stream, arg |-> r.arg, source |-> r.source]
  BY DEF Commands, CommandFor
<1>2. cmd.type = r.type /\ cmd.stream = r.stream /\ cmd.source = r.source /\ cmd.arg = r.arg
  BY <1>1
<1> QED BY <1>2, RequestsAssumption

LEMMA PlannedFields ==
  \A s, t, a : Planned(s, t, a).stream = s /\ Planned(s, t, a).type = t
BY DEF Planned

LEMMA PlanDeletes ==
  ASSUME NEW model, NEW project \in Projects, Found(model, project),
         NEW i \in DOMAIN PlanProjectDelete(model, project)
  PROVE  PlannedWell(model, PlanProjectDelete(model, project), i)
<1> DEFINE doomed == SetToSeq(ActiveThreads(model, project))
           deletions == [k \in DOMAIN doomed |-> Planned(doomed[k], "thread.deleted", None)]
           last == <<Planned(project, "project.deleted", None)>>
           plan == deletions \o last
<1>1. doomed \in Seq(ActiveThreads(model, project))
  <2>1. ActiveThreads(model, project) \in SUBSET Threads
    BY DEF ActiveThreads
  <2> HIDE DEF doomed
  <2> QED BY <2>1, ListOfThreads DEF doomed
<1> HIDE DEF doomed
<1>2. DOMAIN doomed = 1..Len(doomed) /\ Len(doomed) \in Nat
      /\ \A k \in 1..Len(doomed) : doomed[k] \in Threads /\ model.threads[doomed[k]].exists
  BY <1>1 DEF ActiveThreads
<1>3. deletions = [k \in 1..Len(doomed) |-> Planned(doomed[k], "thread.deleted", None)]
  BY <1>2
<1>4. plan = PlanProjectDelete(model, project)
  BY DEF PlanProjectDelete, doomed
<1>5. DOMAIN plan = 1..Len(doomed) + 1
      /\ (\A k \in 1..Len(doomed) : plan[k] = Planned(doomed[k], "thread.deleted", None))
      /\ plan[Len(doomed) + 1] = Planned(project, "project.deleted", None)
  BY <1>2, <1>3
<1> HIDE DEF plan
<1>6. CASE i \in 1..Len(doomed)
  <2>1. plan[i].stream = doomed[i] /\ plan[i].type = "thread.deleted"
    BY <1>5, <1>6, PlannedFields
  <2>2. doomed[i] \notin Projects /\ model.threads[doomed[i]].exists
    BY <1>2, <1>6, NamesAssumption
  <2> QED BY <1>4, <2>1, <2>2 DEF PlannedWell, OwnStream, IsCreation, Found
<1>7. CASE i = Len(doomed) + 1
  <2>1. plan[i].stream = project /\ plan[i].type = "project.deleted"
    BY <1>5, <1>7, PlannedFields
  <2> QED BY <1>4, <2>1 DEF PlannedWell, OwnStream, IsCreation
<1>8. i \in 1..Len(doomed) + 1
  BY <1>4, <1>5
<1> QED BY <1>2, <1>6, <1>7, <1>8

LEMMA PlanImports ==
  ASSUME NEW model, NEW cmd \in Commands, cmd.type = "chat.import", Admits(model, cmd),
         NEW i \in DOMAIN Plan(model, cmd)
  PROVE  PlannedWell(model, Plan(model, cmd), i)
<1> DEFINE first == <<Planned(cmd.stream, "thread.created", cmd.source)>>
           messages == [k \in DOMAIN cmd.arg |->
                         Planned(cmd.stream, "thread.message-sent", cmd.arg[k])]
           arg == cmd.arg
           plan == first \o messages
<1>1. plan = Plan(model, cmd)
  BY DEF Plan, ThreadEventOf, OrchestratorEventOf
<1>2. cmd.stream \in Threads /\ cmd.stream \notin Projects /\ ~Found(model, cmd.stream)
  BY CommandStream, NamesAssumption DEF Admits, Found, ThreadEventOf, OrchestratorEventOf
<1> DEFINE R == Range(arg)
<1>3. arg \in Seq(R)
  BY CommandStream
<1> HIDE DEF arg, R
<1>4. DOMAIN arg = 1..Len(arg) /\ Len(arg) \in Nat
  BY <1>3
<1>5. messages = [k \in 1..Len(arg) |-> Planned(cmd.stream, "thread.message-sent", arg[k])]
  BY <1>4 DEF arg
<1> HIDE DEF messages
<1>6. /\ DOMAIN plan = 1..Len(arg) + 1
      /\ plan[1] = Planned(cmd.stream, "thread.created", cmd.source)
      /\ \A k \in 2..Len(arg) + 1 : plan[k] = Planned(cmd.stream, "thread.message-sent", arg[k - 1])
  BY <1>4, <1>5
<1> HIDE DEF plan
<1>7. plan[1].stream = cmd.stream /\ plan[1].type = "thread.created"
  BY <1>6, PlannedFields
<1>8. CASE i = 1
  BY <1>1, <1>2, <1>7, <1>8 DEF PlannedWell, OwnStream, IsCreation
<1>9. CASE i # 1
  <2>1. i \in 2..Len(arg) + 1 /\ i > 1
    BY <1>1, <1>4, <1>6, <1>9
  <2>2. plan[i].stream = cmd.stream /\ plan[i].type = "thread.message-sent"
    BY <1>6, <2>1, PlannedFields
  <2> QED BY <1>1, <1>2, <1>7, <2>1, <2>2 DEF PlannedWell, OwnStream, IsCreation, Creates
<1> QED BY <1>8, <1>9

LEMMA PlanEvents ==
  ASSUME NEW model, NEW cmd \in Commands, Admits(model, cmd), cmd.type # "chat.fork",
         NEW i \in DOMAIN Plan(model, cmd)
  PROVE  PlannedWell(model, Plan(model, cmd), i)
<1> DEFINE type == cmd.type
           P(t, a) == Planned(cmd.stream, t, a)
           plan == Plan(model, cmd)
<1>0. cmd.stream \in IF type \in {"project.create", "project.meta.update", "project.delete"}
                     THEN Projects ELSE Threads
  BY CommandStream
<1>1. \A t, a : P(t, a).stream = cmd.stream /\ P(t, a).type = t
  BY PlannedFields
<1>2. ASSUME NEW t, NEW a, plan = <<P(t, a)>>
      PROVE  i = 1 /\ plan[1].stream = cmd.stream /\ plan[1].type = t
  <2> HIDE DEF P, plan
  <2> QED BY <1>1, <1>2 DEF plan
<1>3. ASSUME NEW t, NEW a, NEW u, NEW b, plan = <<P(t, a), P(u, b)>>
      PROVE  /\ i \in {1, 2} /\ plan[i].stream = cmd.stream
             /\ plan[i].type = IF i = 1 THEN t ELSE u
  <2>1. i \in DOMAIN <<P(t, a), P(u, b)>>
    BY <1>3
  <2>2. i \in {1, 2}
    BY <2>1
  <2> HIDE DEF P, plan
  <2>3. CASE i = 1
    BY <1>1, <1>3, <2>3
  <2>4. CASE i = 2
    BY <1>1, <1>3, <2>4
  <2> QED BY <2>2, <2>3, <2>4
<1> DEFINE Exists == Found(model, cmd.stream)
           ThreadTypes == {ThreadEventOf[t] : t \in DOMAIN ThreadEventOf}
           OrchestratorTypes == {OrchestratorEventOf[t] : t \in DOMAIN OrchestratorEventOf}
           Dull == {"thread.archived", "thread.unarchived", "thread.message-sent",
                    "thread.turn-start-requested", "thread.activity-appended"}
                   \cup ThreadTypes \cup OrchestratorTypes
<1>4. \A t \in Dull : /\ ~IsCreation(t) /\ t # "thread.forked"
                     /\ t \notin {"project.created", "project.meta-updated", "project.deleted"}
  BY DEF ThreadEventOf, OrchestratorEventOf, IsCreation
<1> HIDE DEF P, plan, Dull
<1>5. ASSUME cmd.stream \in Threads, Exists, plan[i].stream = cmd.stream, plan[i].type \in Dull
      PROVE  PlannedWell(model, plan, i)
  <2>1. cmd.stream \notin Projects
    BY <1>5, NamesAssumption
  <2> QED BY <1>4, <1>5, <2>1 DEF PlannedWell, OwnStream
<1>a. CASE type = "project.create"
  <2>1. plan = <<P("project.created", None)>>
    BY <1>a DEF plan, Plan, P, ThreadEventOf, OrchestratorEventOf
  <2>2. ~Found(model, cmd.stream) /\ cmd.stream \in Projects
    BY <1>a, <1>0 DEF Admits, Found, ThreadEventOf, OrchestratorEventOf
  <2>3. i = 1 /\ plan[1].stream = cmd.stream /\ plan[1].type = "project.created"
    BY <1>2, <2>1
  <2> QED BY <2>2, <2>3 DEF PlannedWell, OwnStream, IsCreation, plan
<1>b. CASE type = "project.meta.update"
  <2>1. plan = <<P("project.meta-updated", None)>>
    BY <1>b DEF plan, Plan, P, ThreadEventOf, OrchestratorEventOf
  <2>2. Found(model, cmd.stream) /\ cmd.stream \in Projects
    BY <1>b, <1>0 DEF Admits, Found, ThreadEventOf, OrchestratorEventOf
  <2>3. i = 1 /\ plan[1].stream = cmd.stream /\ plan[1].type = "project.meta-updated"
    BY <1>2, <2>1
  <2> QED BY <2>2, <2>3 DEF PlannedWell, OwnStream, IsCreation, plan
<1>c. CASE type = "project.delete"
  <2>1. Plan(model, cmd) = PlanProjectDelete(model, cmd.stream)
    BY <1>c DEF Plan, ThreadEventOf, OrchestratorEventOf
  <2>2. Found(model, cmd.stream) /\ cmd.stream \in Projects
    BY <1>c, <1>0 DEF Admits, Found, ThreadEventOf, OrchestratorEventOf
  <2> QED BY <2>1, <2>2, PlanDeletes
<1>d. CASE type = "thread.create"
  <2>1. plan = <<P("thread.created", cmd.arg)>>
    BY <1>d DEF plan, Plan, P, ThreadEventOf, OrchestratorEventOf
  <2>2. ~Found(model, cmd.stream) /\ cmd.stream \notin Projects
    BY <1>d, <1>0, NamesAssumption DEF Admits, Found, ThreadEventOf, OrchestratorEventOf
  <2>3. i = 1 /\ plan[1].stream = cmd.stream /\ plan[1].type = "thread.created"
    BY <1>2, <2>1
  <2> QED BY <2>2, <2>3 DEF PlannedWell, OwnStream, IsCreation, plan
<1>6. ASSUME type \in {"thread.archive", "thread.unarchive", "thread.turn.start"}
                       \cup DOMAIN ThreadEventOf \cup DOMAIN OrchestratorEventOf
      PROVE  cmd.stream \in Threads /\ Exists
  <2>1. cmd.stream \in Threads /\ cmd.stream \notin Projects
    BY <1>0, <1>6, NamesAssumption DEF ThreadEventOf, OrchestratorEventOf
  <2>2. model.threads[cmd.stream].exists
    BY <1>6 DEF Admits, ThreadEventOf, OrchestratorEventOf
  <2> QED BY <2>1, <2>2 DEF Found
<1>e. CASE type = "thread.archive"
  <2>1. plan = <<P("thread.archived", None)>>
    BY <1>e DEF plan, Plan, P, ThreadEventOf, OrchestratorEventOf
  <2>2. i = 1 /\ plan[1].stream = cmd.stream /\ plan[1].type = "thread.archived"
    BY <1>2, <2>1
  <2> QED BY <1>e, <1>5, <1>6, <2>2 DEF plan, Dull
<1>f. CASE type = "thread.unarchive"
  <2>1. plan = <<P("thread.unarchived", None)>>
    BY <1>f DEF plan, Plan, P, ThreadEventOf, OrchestratorEventOf
  <2>2. i = 1 /\ plan[1].stream = cmd.stream /\ plan[1].type = "thread.unarchived"
    BY <1>2, <2>1
  <2> QED BY <1>f, <1>5, <1>6, <2>2 DEF plan, Dull
<1>g. CASE type = "thread.turn.start"
  <2>1. plan = <<P("thread.message-sent", cmd.arg), P("thread.turn-start-requested", cmd.arg.id)>>
    BY <1>g DEF plan, Plan, P, ThreadEventOf, OrchestratorEventOf
  <2>2. /\ i \in {1, 2} /\ plan[i].stream = cmd.stream
        /\ plan[i].type = IF i = 1 THEN "thread.message-sent" ELSE "thread.turn-start-requested"
    BY <1>3, <2>1
  <2> QED BY <1>g, <1>5, <1>6, <2>2 DEF plan, Dull
<1>h. CASE type \in DOMAIN ThreadEventOf
  <2>1. plan = <<P(ThreadEventOf[type], cmd.arg)>>
    BY <1>h DEF plan, Plan, P, ThreadEventOf, OrchestratorEventOf
  <2>2. i = 1 /\ plan[1].stream = cmd.stream /\ plan[1].type = ThreadEventOf[type]
    BY <1>2, <2>1
  <2> QED BY <1>h, <1>5, <1>6, <2>2 DEF plan, Dull
<1>i. CASE type \in DOMAIN OrchestratorEventOf
  <2>1. plan = <<P(OrchestratorEventOf[type], None), P("thread.activity-appended", cmd.arg)>>
    BY <1>i DEF plan, Plan, P, ThreadEventOf, OrchestratorEventOf
  <2>2. /\ i \in {1, 2} /\ plan[i].stream = cmd.stream
        /\ plan[i].type = IF i = 1 THEN OrchestratorEventOf[type] ELSE "thread.activity-appended"
    BY <1>3, <2>1
  <2> QED BY <1>i, <1>5, <1>6, <2>2 DEF plan, Dull
<1>j. CASE type = "chat.import"
  BY <1>j, PlanImports
<1> QED BY <1>a, <1>b, <1>c, <1>d, <1>e, <1>f, <1>g, <1>h, <1>i, <1>j DEF Admits

(* Every row a command inserts carries an event of its stream's kind.      *)
LEMMA RowsOwn ==
  ASSUME log \in Seq(StoredEvent), OwnStreams(log), NEW cmd \in Commands, Acceptable(cmd),
         NEW row \in RowsToInsert(cmd)
  PROVE  OwnStream(row.event)
<1>1. CASE cmd.type = "chat.fork"
  <2>0. cmd.source \in Threads /\ cmd.stream \in Threads
    BY <1>1, CommandStream
  <2>1. CASE row.event.type = "thread.forked" /\ row.event.stream = cmd.stream
    BY <2>0, <2>1, NamesAssumption DEF OwnStream
  <2>2. CASE \E i \in DOMAIN log : /\ log[i].stream = cmd.source
                                  /\ row.event.stream = cmd.stream
                                  /\ row.event.type = log[i].type
    <3>1. PICK i \in DOMAIN log : /\ log[i].stream = cmd.source
                                  /\ row.event.stream = cmd.stream
                                  /\ row.event.type = log[i].type
      BY <2>2
    <3>2. OwnStream(log[i])
      BY DEF OwnStreams
    <3> QED BY <2>0, <3>1, <3>2, NamesAssumption DEF OwnStream
  <2> QED BY <1>1, <2>1, <2>2 DEF RowsToInsert, ForkRows, Planned
<1>2. CASE cmd.type # "chat.fork"
  <2>1. PICK i \in DOMAIN Plan(readModel, cmd) :
          row = [event |-> Plan(readModel, cmd)[i], version |-> None, rank |-> i]
    BY <1>2 DEF RowsToInsert
  <2>2. PlannedWell(readModel, Plan(readModel, cmd), i)
    BY <1>2, PlanEvents DEF Acceptable
  <2> QED BY <2>1, <2>2 DEF PlannedWell
<1> QED BY <1>1, <1>2

-----------------------------------------------------------------------------
(* What the tables and the read model find is what the log created.  The   *)
(* tables find a stream once the cursor of its projector is past the       *)
(* creation, the read model once its own sequence number is; neither finds *)
(* a stream that the log does not create, whatever went wrong before.      *)
CreatedBy(events, seq, s) ==
  \E i \in DOMAIN events : events[i].sequence <= seq /\ Creates(events[i], s)

Own == OwnStreams(log) /\ OwnStreams(saved) /\ \A row \in todo : OwnStream(row.event)

TablesFind ==
  /\ Shaped(tables)
  /\ \A s \in Streams : Found(tables, s) => CreatedIn(log, s)
  /\ ~truncated =>
       \A s \in Streams : CreatedBy(log, applied[OwnerOf(s)], s) => Found(tables, s)

ModelFinds ==
  Running =>
    /\ Shaped(readModel)
    /\ \A s \in Streams : Found(readModel, s) => CreatedIn(log, s)
    /\ ~unreconciled /\ ~truncated =>
         \A s \in Streams : CreatedBy(log, snapshotSequence, s) => Found(readModel, s)
NextModelFinds ==
  phase = "append" =>
    /\ Shaped(nextModel)
    /\ \A s \in Streams : Found(nextModel, s) <=> Found(readModel, s) \/ CreatedIn(saved, s)

Existence == Own /\ TablesFind /\ ModelFinds /\ NextModelFinds

LEMMA OwnAppend ==
  ASSUME NEW events \in Seq(StoredEvent), NEW e \in StoredEvent
  PROVE  /\ OwnStreams(events) /\ OwnStream(e) => OwnStreams(Append(events, e))
         /\ \A s : CreatedIn(Append(events, e), s) <=> CreatedIn(events, s) \/ Creates(e, s)
<1> DEFINE whole == Append(events, e)  n == Len(events)
<1>1. /\ n \in Nat /\ DOMAIN events = 1..n /\ DOMAIN whole = 1..n + 1
      /\ (\A i \in 1..n : whole[i] = events[i]) /\ whole[n + 1] = e
  OBVIOUS
<1>2. \A i \in 1..n + 1 : i \in 1..n \/ i = n + 1
  BY <1>1
<1>3. \A i \in 1..n : i \in 1..n + 1
  BY <1>1
<1>4. n + 1 \in 1..n + 1
  BY <1>1
<1> HIDE DEF whole, n
<1>5. \A s : CreatedIn(whole, s) => CreatedIn(events, s) \/ Creates(e, s)
  BY <1>1, <1>2 DEF CreatedIn
<1>6. \A s : CreatedIn(events, s) \/ Creates(e, s) => CreatedIn(whole, s)
  BY <1>1, <1>3, <1>4 DEF CreatedIn
<1>7. OwnStreams(events) /\ OwnStream(e) => OwnStreams(whole)
  BY <1>1, <1>2 DEF OwnStreams
<1> QED BY <1>5, <1>6, <1>7 DEF whole

LEMMA OwnConcat ==
  ASSUME NEW events \in Seq(StoredEvent), NEW more \in Seq(StoredEvent)
  PROVE  /\ OwnStreams(events) /\ OwnStreams(more) => OwnStreams(events \o more)
         /\ \A s : CreatedIn(events \o more, s) <=> CreatedIn(events, s) \/ CreatedIn(more, s)
<1> DEFINE whole == events \o more  n == Len(events)  m == Len(more)
<1>1. /\ n \in Nat /\ m \in Nat /\ DOMAIN events = 1..n /\ DOMAIN more = 1..m
      /\ DOMAIN whole = 1..n + m /\ (\A i \in 1..n : whole[i] = events[i])
      /\ \A i \in 1..m : whole[n + i] = more[i]
  OBVIOUS
<1>2. \A i \in 1..n + m : i \in 1..n \/ (i - n \in 1..m /\ n + (i - n) = i)
  BY <1>1
<1>3. \A i \in 1..n : i \in 1..n + m
  BY <1>1
<1>4. \A i \in 1..m : n + i \in 1..n + m
  BY <1>1
<1> HIDE DEF whole, n, m
<1>5. \A s : CreatedIn(whole, s) => CreatedIn(events, s) \/ CreatedIn(more, s)
  BY <1>1, <1>2 DEF CreatedIn
<1>6. \A s : CreatedIn(events, s) \/ CreatedIn(more, s) => CreatedIn(whole, s)
  BY <1>1, <1>3, <1>4 DEF CreatedIn
<1>7. OwnStreams(events) /\ OwnStreams(more) => OwnStreams(whole)
  BY <1>1, <1>2 DEF OwnStreams
<1> QED BY <1>5, <1>6, <1>7 DEF whole

(* A slice of the log creates nothing the log does not, and moves a cursor *)
(* over exactly its events.                                                *)
LEMMA SliceCreates ==
  ASSUME NEW events \in Seq(StoredEvent), InSequence(events), OwnStreams(events),
         NEW n \in Nat, NEW m \in Nat, n <= m, m <= Len(events)
  PROVE  /\ Slice(events, n, m) \in Seq(StoredEvent) /\ OwnStreams(Slice(events, n, m))
         /\ \A s : CreatedIn(Slice(events, n, m), s) => CreatedIn(events, s)
         /\ \A s : CreatedBy(events, SeqAt(events, m), s) <=>
              CreatedBy(events, SeqAt(events, n), s) \/ CreatedIn(Slice(events, n, m), s)
<1> DEFINE part == Slice(events, n, m)
<1>1. /\ part \in Seq(StoredEvent) /\ DOMAIN part = 1..m - n
      /\ \A i \in 1..m - n : part[i] = events[n + i]
  BY SliceFields
<1>2. DOMAIN events = 1..Len(events) /\ Len(events) \in Nat
      /\ \A i \in 1..Len(events) : events[i].sequence \in Nat
           /\ SeqAt(events, i) = events[i].sequence
  <2>1. \A i \in 1..Len(events) : events[i] \in StoredEvent /\ i # 0
    OBVIOUS
  <2> QED BY <2>1 DEF StoredEvent, SeqAt
<1>3. \A i \in 1..m - n : n + i \in 1..Len(events) /\ n + i <= m
  BY <1>2
<1>4. \A i \in 1..Len(events) : n < i /\ i <= m => i - n \in 1..m - n /\ n + (i - n) = i
  BY <1>2
<1>5. ASSUME NEW k \in 0..Len(events), NEW i \in 1..Len(events)
      PROVE  events[i].sequence <= SeqAt(events, k) <=> i <= k
  <2>1. /\ SeqAt(events, k) \in Nat /\ SeqAt(events, i) \in Nat
        /\ i < k => SeqAt(events, i) < SeqAt(events, k)
        /\ k < i => SeqAt(events, k) < SeqAt(events, i)
    <3>1. i \in 0..Len(events)
      BY <1>2
    <3> QED BY <3>1, SeqAtOrder
  <2>2. SeqAt(events, i) = events[i].sequence
    BY <1>2
  <2>3. i < k \/ i = k \/ k < i
    BY <1>2
  <2> QED BY <1>2, <2>1, <2>2, <2>3
<1>6. ASSUME NEW k \in 0..Len(events), NEW s
      PROVE  CreatedBy(events, SeqAt(events, k), s) <=>
               \E i \in 1..Len(events) : i <= k /\ Creates(events[i], s)
  BY Zenon, <1>2, <1>5 DEF CreatedBy
<1>7. n \in 0..Len(events) /\ m \in 0..Len(events)
  BY <1>2
<1> HIDE DEF part
<1>8. \A s : CreatedIn(part, s) <=>
        \E i \in 1..Len(events) : n < i /\ i <= m /\ Creates(events[i], s)
  <2>1. ASSUME NEW s, CreatedIn(part, s)
        PROVE  \E i \in 1..Len(events) : n < i /\ i <= m /\ Creates(events[i], s)
    <3>1. PICK i \in 1..m - n : Creates(events[n + i], s)
      BY <1>1, <2>1 DEF CreatedIn
    <3> QED BY <1>3, <3>1
  <2>2. ASSUME NEW s, NEW i \in 1..Len(events), n < i, i <= m, Creates(events[i], s)
        PROVE  CreatedIn(part, s)
    <3>1. i - n \in 1..m - n /\ part[i - n] = events[i]
      BY <1>1, <1>4, <2>2
    <3> QED BY <1>1, <2>2, <3>1 DEF CreatedIn
  <2> QED BY <2>1, <2>2
<1>9. OwnStreams(part)
  BY <1>1, <1>2, <1>3 DEF OwnStreams
<1>10. \A s : CreatedIn(part, s) => CreatedIn(events, s)
  BY <1>2, <1>8 DEF CreatedIn
<1>11. ASSUME NEW s
       PROVE  CreatedBy(events, SeqAt(events, m), s) <=>
                CreatedBy(events, SeqAt(events, n), s) \/ CreatedIn(part, s)
  <2>1. \A i \in 1..Len(events) : i <= m <=> i <= n \/ (n < i /\ i <= m)
    BY <1>2
  <2> QED BY Zenon, <1>6, <1>7, <1>8, <2>1
<1> QED BY <1>1, <1>9, <1>10, <1>11 DEF part

LEMMA CreatedByLast ==
  ASSUME NEW events \in Seq(StoredEvent), InSequence(events), NEW s
  PROVE  CreatedBy(events, LastSequence(events), s) <=> CreatedIn(events, s)
<1>1. Len(events) \in Nat /\ DOMAIN events = 1..Len(events) /\ Len(events) \in 0..Len(events)
  OBVIOUS
<1>2. ASSUME NEW i \in 1..Len(events) PROVE events[i].sequence <= LastSequence(events)
  <2>1. /\ SeqAt(events, Len(events)) \in Nat
        /\ i < Len(events) => SeqAt(events, i) < SeqAt(events, Len(events))
        /\ SeqAt(events, i) \in Nat
    <3>1. i \in 0..Len(events)
      OBVIOUS
    <3> QED BY <1>1, <3>1, SeqAtOrder
  <2>2. SeqAt(events, i) = events[i].sequence
    BY DEF SeqAt
  <2>3. i < Len(events) \/ i = Len(events)
    <3>1. \A n \in Nat : \A k \in 1..n : k < n \/ k = n
      OBVIOUS
    <3> QED BY Zenon, <1>1, <3>1
  <2> QED BY <2>1, <2>2, <2>3, LastIsSeqAt
<1> QED BY <1>1, <1>2 DEF CreatedBy, CreatedIn

(* What is appended does not change what was created up to an earlier      *)
(* sequence number.                                                        *)
LEMMA CreatedByConcat ==
  ASSUME NEW events \in Seq(StoredEvent), NEW more \in Seq(StoredEvent),
         InSequence(events \o more), NEW n \in 0..Len(events), NEW s
  PROVE  CreatedBy(events \o more, SeqAt(events, n), s) <=> CreatedBy(events, SeqAt(events, n), s)
<1> DEFINE whole == events \o more
<1>0. /\ whole \in Seq(StoredEvent) /\ Len(events) \in Nat /\ Len(more) \in Nat
      /\ Len(whole) = Len(events) + Len(more)
      /\ DOMAIN whole = 1..Len(whole) /\ DOMAIN events = 1..Len(events)
      /\ \A i \in 1..Len(events) : whole[i] = events[i]
  OBVIOUS
<1>1. SeqAt(whole, n) = SeqAt(events, n) /\ n \in 0..Len(whole)
  BY <1>0 DEF SeqAt
<1>2. ASSUME NEW i \in 1..Len(whole), whole[i].sequence <= SeqAt(whole, n)
      PROVE  i <= n
  <2> SUFFICES ASSUME ~(i <= n) PROVE FALSE
    OBVIOUS
  <2> HIDE DEF whole
  <2>1. i \in 0..Len(whole) /\ n < i
    BY <1>0, <1>1
  <2>2. SeqAt(whole, n) < SeqAt(whole, i) /\ SeqAt(whole, n) \in Nat /\ SeqAt(whole, i) \in Nat
    <3>1. InSequence(whole)
      BY DEF whole
    <3> QED BY <1>0, <1>1, <2>1, <3>1, SeqAtOrder
  <2>3. SeqAt(whole, i) = whole[i].sequence
    BY DEF SeqAt
  <2> QED BY <1>2, <2>2, <2>3
<1>3. \A i \in 1..Len(events) : i \in 1..Len(whole)
  BY <1>0
<1>4. \A i \in 1..Len(whole) : i <= n => i \in 1..Len(events)
  BY <1>0
<1> HIDE DEF whole
<1>5. CreatedBy(whole, SeqAt(whole, n), s) <=> CreatedBy(events, SeqAt(whole, n), s)
  BY Zenon, <1>0, <1>2, <1>3, <1>4 DEF CreatedBy
<1> QED BY <1>1, <1>5 DEF whole

LEMMA ExistenceInit == Init => Existence
<1> SUFFICES ASSUME Init PROVE Existence
  OBVIOUS
<1>1. Own
  <2>1. OwnStreams(InitialLog) /\ OwnStreams(<<>>)
    BY InitialLogAssumption DEF OwnStreams
  <2> QED BY <2>1 DEF Init, Own
<1>2. TablesFind
  <2>1. PICK rows : rows = FoldLeft(ApplyWhatIsRecorded, EmptyTables, InitialLog)
    OBVIOUS
  <2>2. /\ Shaped(rows)
        /\ \A s \in Streams : Found(rows, s) <=>
             \E i \in DOMAIN InitialLog : RecordedOf(InitialLog[i], s)
    BY <2>1, InitialTablesFind
  <2>3. tables = rows /\ log = InitialLog /\ applied = InitialApplied
    BY <2>1 DEF Init
  <2> QED BY <2>2, <2>3 DEF TablesFind, CreatedIn, CreatedBy, RecordedOf
<1> QED BY <1>1, <1>2 DEF Init, Existence, ModelFinds, NextModelFinds, Running

LEMMA OwnKept ==
  ASSUME TypeOK, Own, [Next]_vars
  PROVE  Own'
<1>0. OwnStreams(<<>>) /\ OwnStreams(log) /\ OwnStreams(saved)
  BY DEF OwnStreams, Own
<1>1. ASSUME log' = log, saved' \in {saved, <<>>}, todo' \subseteq todo PROVE Own'
  BY <1>0, <1>1 DEF Own
<1>2. CASE Startup \/ Client \/ ReplayReceipt \/ BreakInvariant \/ FailLookup \/ UNCHANGED vars
  <2>1. log' = log /\ saved' = saved /\ todo' = todo
    BY <1>2 DEF Startup, StartServer, BootstrapEvent, BootstrapNext, LoadSnapshot, Client,
       Redispatch, Dispatch, Enqueue, ReplayReceipt, BreakInvariant, FailLookup, Take, vars
  <2> QED BY <1>1, <2>1
<1>3. CASE BeginTransaction
  <2>1. /\ log' = log /\ saved' = <<>> /\ todo' = RowsToInsert(Head(queue))
        /\ Acceptable(Head(queue)) /\ queue # <<>>
    BY <1>3 DEF BeginTransaction, Take
  <2>2. Head(queue) \in Commands
    BY <2>1 DEF TypeOK
  <2>3. \A row \in todo' : OwnStream(row.event)
    BY <1>0, <2>1, <2>2, RowsOwn DEF TypeOK
  <2> QED BY <1>0, <2>1, <2>3 DEF Own
<1>4. CASE AppendEvent
  <2>1. PICK row, e :
          /\ row \in todo
          /\ e = [sequence |-> nextSequence, version |-> InsertVersion(row),
                  stream |-> row.event.stream, type |-> row.event.type,
                  arg |-> row.event.arg, cmd |-> current.id]
          /\ saved' = Append(saved, e) /\ log' = log /\ todo' = todo \ {row}
    BY <1>4 DEF AppendEvent
  <2>2. OwnStream(row.event)
    BY <2>1 DEF Own
  <2>3. e.stream = row.event.stream /\ e.type = row.event.type
    BY <2>1
  <2>4. OwnStream(e)
    BY <2>2, <2>3 DEF OwnStream
  <2>5. \A i \in DOMAIN Append(saved, e) : OwnStream(Append(saved, e)[i])
    <3>1. saved \in Seq(StoredEvent)
      BY DEF TypeOK
    <3>2. \A i \in DOMAIN Append(saved, e) :
            \/ i \in DOMAIN saved /\ Append(saved, e)[i] = saved[i]
            \/ Append(saved, e)[i] = e
      BY <3>1
    <3> QED BY <1>0, <2>4, <3>2 DEF OwnStreams
  <2> QED BY <2>1, <2>5 DEF Own, OwnStreams
<1>5. CASE CommitAcknowledged \/ CommitUnacknowledged
  <2>1. log' = log \o saved /\ saved' \in {saved, <<>>} /\ todo' = todo
    BY <1>5 DEF CommitAcknowledged, CommitUnacknowledged, Commit
  <2>2. OwnStreams(log \o saved)
    BY <1>0, OwnConcat DEF TypeOK
  <2> QED BY <1>0, <2>1, <2>2 DEF Own
<1>6. CASE \/ ViolateUnique \/ FailTransaction \/ Reconcile \/ FailReconcile \/ PublishEvent
           \/ RecordRejection \/ AnswerClient \/ Crash
  <2>1. log' = log /\ saved' \in {saved, <<>>} /\ todo' \in {todo, {}}
    BY <1>6 DEF ViolateUnique, FailTransaction, Rollback, Reconcile, FailReconcile, PublishEvent,
       RecordRejection, AnswerClient, Crash
  <2> QED BY <1>1, <2>1
<1> QED BY <1>2, <1>3, <1>4, <1>5, <1>6 DEF Next, Process, StorageFailure

(* The owner's cursor is one of the cursors.                               *)
LEMMA OwnerIsProjector ==
  \A s : OwnerOf(s) \in ProjectorSet /\ OwnerOf(s) \in RequiredSnapshotProjectors
<1>1. Projectors[1] = "projects" /\ Projectors[9] = "threads"
  BY DEF Projectors
<1> QED BY <1>1, ProjectorNames DEF OwnerOf, RequiredSnapshotProjectors

LEMMA TablesFindKept ==
  ASSUME TypeOK, Working, Cursors, Own, TablesFind, [Next]_vars
  PROVE  TablesFind'
<1>0. /\ log \in Seq(StoredEvent) /\ saved \in Seq(StoredEvent) /\ InSequence(log)
      /\ OwnStreams(log) /\ OwnStreams(saved) /\ Ordered
  BY VisibleLog DEF Own, Cursors
<1>1. ASSUME log' = log, tables' = tables, applied' = applied, truncated => truncated'
      PROVE  TablesFind'
  BY <1>1 DEF TablesFind
<1>2. CASE BootstrapEvent
  <2>1. PICK n, m \in Nat : ReplaysFrom(n, m)
    BY <1>2 DEF BootstrapEvent, Cursors, Replaying
  <2>2. n # m /\ n < m /\ m <= Len(log) /\ Len(log) \in Nat
    <3>1. replay # <<>> /\ n <= m /\ m <= Len(log) /\ replay = Slice(log, n, m)
      BY <1>2, <2>1 DEF BootstrapEvent, ReplaysFrom
    <3>2. n # m
      BY <1>0, <3>1, SliceEmpty
    <3> QED BY <1>0, <3>1, <3>2
  <2>3. Head(replay) = log[n + 1]
    BY <1>0, <2>1, <2>2, SliceHeadTail DEF ReplaysFrom
  <2> DEFINE name == Projectors[projector]
  <2>4. PICK e : e = log[n + 1]
    OBVIOUS
  <2>5. /\ applied' = [applied EXCEPT ![name] = e.sequence]
        /\ tables' = ApplyProjector(name, tables, e)
        /\ log' = log /\ truncated' = truncated
    BY <1>2, <2>3, <2>4 DEF BootstrapEvent
  <2>6. n + 1 \in 1..Len(log) /\ n + 1 \in Nat /\ n + 1 # 0 /\ n <= n + 1 /\ n + 1 <= Len(log)
        /\ (n + 1) - n = 1
    BY <2>2
  <2>7. e \in StoredEvent /\ OwnStream(e) /\ e.sequence = SeqAt(log, n + 1)
    BY <1>0, <2>4, <2>6 DEF OwnStreams, SeqAt
  <2>8. name \in ProjectorSet /\ applied \in [ProjectorSet -> Nat]
    BY ProjectorNames DEF TypeOK
  <2> HIDE DEF name
  <2>9. PICK next : next = ApplyProjector(name, tables, e)
    OBVIOUS
  <2>10. /\ Shaped(next)
         /\ \A s \in Streams : Found(next, s) <=>
              Found(tables, s) \/ (name = OwnerOf(s) /\ Creates(e, s))
    BY Zenon, <2>7, <2>9, ApplyProjectorFinds DEF TablesFind
  <2>11. \A s : Creates(e, s) => CreatedIn(log, s)
    BY <1>0, <2>4, <2>6 DEF CreatedIn
  <2>12. ASSUME NEW s, name = OwnerOf(s)
         PROVE  CreatedBy(log, applied'[OwnerOf(s)], s) =>
                  CreatedBy(log, applied[OwnerOf(s)], s) \/ Creates(e, s)
    <3>1. applied'[name] = SeqAt(log, n + 1) /\ applied[name] = SeqAt(log, n)
      BY <2>1, <2>5, <2>7, <2>8 DEF ReplaysFrom, name
    <3>2. CreatedBy(log, SeqAt(log, n + 1), s) <=>
            CreatedBy(log, SeqAt(log, n), s) \/ CreatedIn(Slice(log, n, n + 1), s)
      BY <1>0, <2>6, SliceCreates
    <3>3. DOMAIN Slice(log, n, n + 1) = 1..1 /\ Slice(log, n, n + 1)[1] = e
      <4>1. /\ DOMAIN Slice(log, n, n + 1) = 1..(n + 1) - n
            /\ \A i \in 1..(n + 1) - n : Slice(log, n, n + 1)[i] = log[n + i]
        BY Zenon, <1>0, <2>6, SliceFields
      <4>2. 1 \in 1..1
        OBVIOUS
      <4> QED BY <2>4, <2>6, <4>1, <4>2
    <3>4. CreatedIn(Slice(log, n, n + 1), s) => Creates(e, s)
      <4>1. \A i \in 1..1 : i = 1
        OBVIOUS
      <4> QED BY <3>3, <4>1 DEF CreatedIn
    <3> QED BY <2>12, <3>1, <3>2, <3>4
  <2>13. ASSUME NEW s, name # OwnerOf(s)
         PROVE  applied'[OwnerOf(s)] = applied[OwnerOf(s)]
    BY <2>5, <2>8, <2>13, OwnerIsProjector
  <2> QED BY <2>5, <2>9, <2>10, <2>11, <2>12, <2>13 DEF TablesFind
<1>3. CASE CommitAcknowledged \/ CommitUnacknowledged
  <2>1. Commit
    BY <1>3 DEF CommitAcknowledged, CommitUnacknowledged
  <2>2. tables' = FoldLeft(ApplyEvent, tables, saved) /\ log' = log \o saved /\ phase = "append"
        /\ truncated' = truncated
    BY <2>1 DEF Commit
  <2>3. PICK next : next = FoldLeft(ApplyEvent, tables, saved)
    OBVIOUS
  <2>4. /\ Shaped(next)
        /\ \A s \in Streams : Found(next, s) <=> Found(tables, s) \/ CreatedIn(saved, s)
    BY Zenon, <1>0, <2>3, ApplyEventsFind DEF TablesFind
  <2>5. \A s : CreatedIn(log', s) <=> CreatedIn(log, s) \/ CreatedIn(saved, s)
    BY <1>0, <2>2, OwnConcat
  <2>6. ASSUME ~truncated, NEW s \in Streams, CreatedIn(log, s) PROVE Found(tables, s)
    <3>1. applied[OwnerOf(s)] = LastSequence(log)
      BY <2>2, <2>6, OwnerIsProjector DEF Cursors, AllApplied, Running
    <3>2. CreatedBy(log, LastSequence(log), s)
      BY <1>0, <2>6, CreatedByLast
    <3> QED BY <2>6, <3>1, <3>2 DEF TablesFind
  <2>7. \A s, n : CreatedBy(log', n, s) => CreatedIn(log', s)
    BY DEF CreatedBy, CreatedIn
  <2> QED BY <2>2, <2>3, <2>4, <2>5, <2>6, <2>7 DEF TablesFind
<1>4. CASE StartServer \/ BootstrapNext \/ LoadSnapshot
  <2>1. log' = log /\ tables' = tables /\ applied' = applied
    BY <1>4 DEF StartServer, BootstrapNext, LoadSnapshot
  <2>2. ~Crash
    BY <1>4 DEF StartServer, BootstrapNext, LoadSnapshot, Crash
  <2> QED BY <1>1, <2>1, <2>2, HistoryKept
<1>5. CASE Client \/ ReplayReceipt \/ BreakInvariant \/ FailLookup \/ BeginTransaction
           \/ UNCHANGED vars
  <2>1. log' = log /\ tables' = tables /\ applied' = applied /\ truncated' = truncated
    BY <1>5 DEF Client, Redispatch, Dispatch, Enqueue, ReplayReceipt, BreakInvariant, FailLookup,
       BeginTransaction, Take, vars
  <2> QED BY <1>1, <2>1
<1>6. CASE \/ AppendEvent \/ ViolateUnique \/ FailTransaction \/ Reconcile \/ FailReconcile
           \/ PublishEvent \/ RecordRejection \/ AnswerClient \/ Crash
  <2>1. log' = log /\ tables' = tables /\ applied' = applied /\ truncated' = truncated
    BY <1>6 DEF AppendEvent, ViolateUnique, FailTransaction, Rollback, Reconcile, FailReconcile,
       PublishEvent, RecordRejection, AnswerClient, Crash
  <2> QED BY <1>1, <2>1
<1> QED BY <1>2, <1>3, <1>4, <1>5, <1>6 DEF Next, Startup, Process, StorageFailure

(* What a read of the log returns, the log has.                            *)
LEMMA ReadCreates ==
  ASSUME log \in Seq(StoredEvent), OwnStreams(log), NEW from \in Nat
  PROVE  /\ ReadFromSequence(from) \in Seq(StoredEvent) /\ OwnStreams(ReadFromSequence(from))
         /\ \A s : CreatedIn(ReadFromSequence(from), s) => CreatedIn(log, s)
<1> DEFINE later == {i \in DOMAIN log : log[i].sequence > from}
           found == EventsAfter(log, from)
           read == ReadFromSequence(from)
<1>1. found \in Seq(StoredEvent) /\ read \in Seq(StoredEvent)
  BY EventsAfterType, ReadFromSequenceType
<1>2. DOMAIN log = 1..Len(log) /\ Len(log) \in Nat
  OBVIOUS
<1>3. \A i \in DOMAIN found : \E j \in DOMAIN log : found[i] = log[j]
  <2>1. CASE later = {}
    <3>1. found = <<>>
      BY <2>1 DEF EventsAfter
    <3> QED BY <3>1
  <2>2. CASE later # {}
    <3>1. later \in SUBSET Nat
      BY <1>2
    <3>2. Min(later) \in later
      BY <2>2, <3>1, MinOfNaturals
    <3>3. PICK n \in 1..Len(log) : n = Min(later)
      BY <1>2, <3>2
    <3>4. found = SubSeq(log, n, Len(log))
      BY <2>2, <3>3 DEF EventsAfter
    <3>5. \A i \in DOMAIN SubSeq(log, n, Len(log)) :
            n + i - 1 \in 1..Len(log) /\ SubSeq(log, n, Len(log))[i] = log[n + i - 1]
      BY <1>2
    <3> QED BY <1>2, <3>4, <3>5
  <2> QED BY <2>1, <2>2
<1>4. \A i \in DOMAIN read : \E j \in DOMAIN found : read[i] = found[j]
  <2>1. CASE Len(found) > ReadLimit
    <3>0. PICK whole : whole = found
      OBVIOUS
    <3>1. read = SubSeq(whole, 1, ReadLimit) /\ whole \in Seq(StoredEvent) /\ Len(whole) > ReadLimit
      BY <1>1, <2>1, <3>0 DEF ReadFromSequence
    <3> HIDE DEF found, read
    <3>2. \A i \in DOMAIN SubSeq(whole, 1, ReadLimit) :
            i \in DOMAIN whole /\ SubSeq(whole, 1, ReadLimit)[i] = whole[i]
      BY <3>1, ReadLimitAssumption
    <3> QED BY <3>0, <3>1, <3>2
  <2>2. CASE ~(Len(found) > ReadLimit)
    <3>1. read = found
      BY <2>2 DEF ReadFromSequence
    <3> QED BY <3>1
  <2> QED BY <2>1, <2>2
<1> HIDE DEF read, found
<1>5. \A i \in DOMAIN read : \E j \in DOMAIN log : read[i] = log[j]
  BY <1>3, <1>4
<1>6. OwnStreams(read) /\ \A s : CreatedIn(read, s) => CreatedIn(log, s)
  BY <1>5 DEF OwnStreams, CreatedIn
<1> QED BY <1>1, <1>6 DEF read

(* In a reconciled run the read model is one with the log as long as no    *)
(* commit has been lost from sight.                                        *)
LEMMA SnapshotIsLast ==
  ASSUME TypeOK, Delivery, Running, ~unreconciled, ~truncated, phase # "recover"
  PROVE  snapshotSequence = LastSequence(log) /\ snapshotSequence = SeqAt(log, Len(log))
<1>1. PICK r \in Nat : Delivering(r)
  BY DEF Delivery
<1>2. snapshotSequence = SeqAt(log, Len(log))
  BY <1>1 DEF Delivering
<1> QED BY <1>2, LastIsSeqAt DEF TypeOK

LEMMA ModelKnowsLog ==
  ASSUME TypeOK, Cursors, Delivery, ModelFinds,
         Running, ~unreconciled, ~truncated, phase # "recover"
  PROVE  \A s \in Streams : Found(readModel, s) <=> CreatedIn(log, s)
<1>1. snapshotSequence = LastSequence(log)
  BY SnapshotIsLast
<1>2. log \in Seq(StoredEvent) /\ InSequence(log)
  BY VisibleLog DEF Cursors
<1>3. \A s \in Streams : CreatedIn(log, s) => CreatedBy(log, snapshotSequence, s)
  BY <1>1, <1>2, CreatedByLast
<1> QED BY <1>3 DEF ModelFinds

LEMMA ModelLoads ==
  ASSUME TypeOK, Working, Cursors, Cursors', TablesFind, LoadSnapshot
  PROVE  ModelFinds'
<1>1. /\ readModel' = Snapshot(tables) /\ log' = log /\ applied' = applied
      /\ truncated' = truncated /\ phase' = "idle"
  BY DEF LoadSnapshot
<1>2. Shaped(Snapshot(tables)) /\ \A s \in Streams : Found(Snapshot(tables), s) <=> Found(tables, s)
  BY SnapshotFinds DEF TablesFind
<1>3. ASSUME ~truncated, NEW s \in Streams, CreatedIn(log, s) PROVE Found(tables, s)
  <2>1. applied[OwnerOf(s)] = LastSequence(log)
    BY <1>1, <1>3, OwnerIsProjector DEF Cursors, AllApplied, Running
  <2>2. CreatedBy(log, LastSequence(log), s)
    <3>1. log \in Seq(StoredEvent) /\ InSequence(log)
      BY VisibleLog DEF Cursors
    <3> QED BY <1>3, <3>1, CreatedByLast
  <2> QED BY <1>3, <2>1, <2>2 DEF TablesFind
<1>4. \A s, n : CreatedBy(log, n, s) => CreatedIn(log, s)
  BY DEF CreatedBy, CreatedIn
<1> QED BY <1>1, <1>2, <1>3, <1>4 DEF ModelFinds, TablesFind

LEMMA ModelReconciles ==
  ASSUME TypeOK, Cursors, Delivery, Own, ModelFinds, Reconcile
  PROVE  ModelFinds'
<1>0. log \in Seq(StoredEvent) /\ InSequence(log) /\ OwnStreams(log) /\ startSequence \in Nat
      /\ Len(log) \in Nat
  BY VisibleLog DEF Cursors, Own, TypeOK
<1>1. PICK found : found = ReadFromSequence(startSequence)
  OBVIOUS
<1>2. /\ phase = "recover" /\ phase' = "publish" /\ log' = log /\ truncated' = truncated
      /\ unreconciled' = (unreconciled \/ CutOff(startSequence))
  BY DEF Reconcile
<1>3. /\ found \in Seq(StoredEvent) /\ OwnStreams(found)
      /\ \A s : CreatedIn(found, s) => CreatedIn(log, s)
  BY <1>0, <1>1, ReadCreates
<1>4. CASE found = <<>>
  <2>1. readModel' = readModel /\ snapshotSequence' = snapshotSequence
    BY <1>1, <1>4 DEF Reconcile
  <2>2. unreconciled => unreconciled'
    BY Zenon, <1>2
  <2> QED BY <1>2, <2>1, <2>2 DEF ModelFinds, Running
<1>5. CASE found # <<>>
  <2>1. PICK next : next = FoldLeft(ProjectEvent, readModel, found)
    OBVIOUS
  <2>2. readModel' = next /\ snapshotSequence' = Last(found).sequence
    BY Zenon, <1>1, <1>5, <2>1 DEF Reconcile
  <2>3. Shaped(readModel) /\ \A s \in Streams : Found(readModel, s) => CreatedIn(log, s)
    BY <1>2 DEF ModelFinds, Running
  <2>4. /\ Shaped(next)
        /\ \A s \in Streams : Found(next, s) <=> Found(readModel, s) \/ CreatedIn(found, s)
    BY Zenon, <1>3, <2>1, <2>3, ProjectEventsFind
  <2>5. ASSUME ~unreconciled', ~truncated', NEW s \in Streams, CreatedBy(log, snapshotSequence', s)
        PROVE  Found(next, s)
    <3>1. ~unreconciled /\ ~CutOff(startSequence) /\ ~truncated
      BY Zenon, <1>2, <2>5
    <3>2. PICK r \in Nat : Delivering(r)
      BY <1>2, <3>1 DEF Delivery, Running
    <3>3. SentTo(r) \in 0..Len(log)
      BY <1>0, <3>2, DeliveringFields
    <3>4. startSequence = SeqAt(log, SentTo(r)) /\ snapshotSequence = SeqAt(log, SentTo(r))
      BY <1>2, <3>2 DEF Delivering
    <3>5. found = Slice(log, SentTo(r), Len(log))
      <4>1. PICK m \in SentTo(r)..Len(log) :
              /\ ReadFromSequence(SeqAt(log, SentTo(r))) = Slice(log, SentTo(r), m)
              /\ ~CutOff(SeqAt(log, SentTo(r))) <=> m = Len(log)
        BY <1>0, <3>3, ReadFromCursor
      <4> QED BY <1>1, <3>1, <3>4, <4>1
    <3>6. CreatedIn(log, s)
      BY <2>5 DEF CreatedBy, CreatedIn
    <3>7. CreatedBy(log, SeqAt(log, Len(log)), s)
      BY <1>0, <3>6, CreatedByLast, LastIsSeqAt
    <3>8. CreatedBy(log, SeqAt(log, SentTo(r)), s) \/ CreatedIn(found, s)
      <4>1. SentTo(r) \in Nat /\ SentTo(r) <= Len(log) /\ Len(log) <= Len(log)
        BY <1>0, <3>3
      <4> QED BY Zenon, <1>0, <3>5, <3>7, <4>1, SliceCreates
    <3>9. CreatedBy(log, snapshotSequence, s) => Found(readModel, s)
      BY <1>2, <3>1 DEF ModelFinds, Running
    <3> QED BY <2>4, <3>4, <3>8, <3>9
  <2> QED BY <1>2, <1>3, <2>2, <2>3, <2>4, <2>5 DEF ModelFinds
<1> QED BY <1>4, <1>5

LEMMA ModelCommits ==
  ASSUME TypeOK, Working, Cursors, Delivery, Own, ModelFinds, NextModelFinds,
         CommitAcknowledged \/ CommitUnacknowledged
  PROVE  ModelFinds'
<1>0. /\ log \in Seq(StoredEvent) /\ saved \in Seq(StoredEvent) /\ InSequence(log)
      /\ Commit /\ phase = "append" /\ Running
  <2>1. Commit /\ phase = "append"
    BY DEF CommitAcknowledged, CommitUnacknowledged, Commit
  <2> QED BY <2>1, VisibleLog DEF Cursors, Running
<1>1. /\ log' = log \o saved /\ unreconciled' = unreconciled /\ truncated' = truncated
      /\ InSequence(log')
  BY <1>0, CommitLast DEF Commit, Cursors
<1>2. \A s : CreatedIn(log', s) <=> CreatedIn(log, s) \/ CreatedIn(saved, s)
  BY <1>0, <1>1, OwnConcat
<1>3. \A s, n : CreatedBy(log', n, s) => CreatedIn(log', s)
  BY DEF CreatedBy, CreatedIn
<1>4. /\ Shaped(readModel) /\ Shaped(nextModel)
      /\ \A s \in Streams : Found(readModel, s) => CreatedIn(log, s)
      /\ \A s \in Streams : Found(nextModel, s) <=> Found(readModel, s) \/ CreatedIn(saved, s)
  BY <1>0 DEF ModelFinds, NextModelFinds
<1>5. CASE CommitAcknowledged
  <2>1. readModel' = nextModel
    BY <1>5 DEF CommitAcknowledged
  <2>2. ~unreconciled /\ ~truncated =>
          \A s \in Streams : CreatedIn(log, s) => Found(readModel, s)
    BY <1>0, ModelKnowsLog
  <2> QED BY <1>1, <1>2, <1>3, <1>4, <2>1, <2>2 DEF ModelFinds
<1>6. CASE CommitUnacknowledged
  <2>1. readModel' = readModel /\ snapshotSequence' = snapshotSequence
    BY <1>6 DEF CommitUnacknowledged
  <2>2. ASSUME ~unreconciled, ~truncated, NEW s \in Streams, CreatedBy(log', snapshotSequence, s)
        PROVE  Found(readModel, s)
    <3>1. snapshotSequence = SeqAt(log, Len(log)) /\ Len(log) \in 0..Len(log)
      BY <1>0, <2>2, SnapshotIsLast
    <3>2. CreatedBy(log, snapshotSequence, s)
      BY <1>0, <1>1, <2>2, <3>1, CreatedByConcat
    <3> QED BY <1>0, <2>2, <3>2 DEF ModelFinds
  <2> QED BY <1>1, <1>2, <1>4, <2>1, <2>2 DEF ModelFinds
<1> QED BY <1>5, <1>6

LEMMA NextModelKept ==
  ASSUME TypeOK, TypeOK', Own, ModelFinds, NextModelFinds, [Next]_vars
  PROVE  NextModelFinds'
<1>1. CASE BeginTransaction
  <2>1. /\ phase = "idle" /\ readModel' = readModel /\ nextModel' = readModel /\ saved' = <<>>
    BY <1>1 DEF BeginTransaction, Take
  <2>2. \A s : ~CreatedIn(<<>>, s)
    BY DEF CreatedIn
  <2>3. Shaped(readModel)
    BY <2>1 DEF ModelFinds, Running
  <2> QED BY <2>1, <2>2, <2>3 DEF NextModelFinds
<1>2. CASE AppendEvent
  <2>1. PICK row, e :
          /\ row \in todo
          /\ e = [sequence |-> nextSequence, version |-> InsertVersion(row),
                  stream |-> row.event.stream, type |-> row.event.type,
                  arg |-> row.event.arg, cmd |-> current.id]
          /\ saved' = Append(saved, e) /\ nextModel' = ProjectEvent(nextModel, e)
          /\ readModel' = readModel /\ phase = "append"
    BY <1>2 DEF AppendEvent
  <2>2. saved \in Seq(StoredEvent) /\ e \in StoredEvent
    <3>1. saved \in Seq(StoredEvent) /\ saved' \in Seq(StoredEvent)
      BY DEF TypeOK
    <3>2. Len(saved) + 1 \in DOMAIN Append(saved, e) /\ Append(saved, e)[Len(saved) + 1] = e
      BY <3>1
    <3>3. \A i \in DOMAIN saved' : saved'[i] \in StoredEvent
      BY <3>1
    <3> QED BY <2>1, <3>1, <3>2, <3>3
  <2>3. OwnStream(e)
    <3>1. e.stream = row.event.stream /\ e.type = row.event.type
      BY <2>1
    <3> QED BY <2>1, <3>1 DEF Own, OwnStream
  <2>4. PICK next : next = ProjectEvent(nextModel, e)
    OBVIOUS
  <2>5. /\ Shaped(next)
        /\ \A s \in Streams : Found(next, s) <=> Found(nextModel, s) \/ Creates(e, s)
    BY Zenon, <2>1, <2>2, <2>3, <2>4, ProjectEventFinds DEF NextModelFinds
  <2>6. \A s : CreatedIn(Append(saved, e), s) <=> CreatedIn(saved, s) \/ Creates(e, s)
    BY <2>2, OwnAppend
  <2> QED BY <2>1, <2>4, <2>5, <2>6 DEF NextModelFinds
<1>3. ASSUME \/ phase' # "append"
             \/ /\ phase' = phase /\ readModel' = readModel /\ nextModel' = nextModel
                /\ saved' = saved
      PROVE  NextModelFinds'
  BY <1>3 DEF NextModelFinds
<1>4. CASE Startup
  BY <1>3, <1>4 DEF Startup, StartServer, BootstrapEvent, BootstrapNext, LoadSnapshot
<1>5. CASE Client \/ ReplayReceipt \/ UNCHANGED vars
  BY <1>3, <1>5 DEF Client, Redispatch, Dispatch, Enqueue, ReplayReceipt, vars
<1>6. CASE \/ BreakInvariant \/ FailLookup \/ ViolateUnique \/ FailTransaction
           \/ CommitAcknowledged \/ CommitUnacknowledged
  BY <1>3, <1>6 DEF BreakInvariant, FailLookup, ViolateUnique, FailTransaction, Rollback,
     CommitAcknowledged, CommitUnacknowledged
<1>7. CASE Reconcile \/ FailReconcile \/ PublishEvent \/ RecordRejection \/ AnswerClient \/ Crash
  BY <1>3, <1>7 DEF Reconcile, FailReconcile, PublishEvent, RecordRejection, AnswerClient, Crash
<1> QED BY <1>1, <1>2, <1>4, <1>5, <1>6, <1>7 DEF Next, Process, StorageFailure

LEMMA ModelFindsKept ==
  ASSUME TypeOK, Working, Cursors, Delivery, Own, TablesFind, ModelFinds, NextModelFinds,
         [Next]_vars
  PROVE  ModelFinds'
<1>1. CASE StartServer \/ BootstrapEvent \/ BootstrapNext \/ Crash
  <2>1. ~Running'
    BY <1>1 DEF StartServer, BootstrapEvent, BootstrapNext, Crash, Running
  <2> QED BY <2>1 DEF ModelFinds
<1>2. CASE LoadSnapshot
  BY <1>2, CursorsKept, ModelLoads
<1>3. CASE Reconcile
  BY <1>3, ModelReconciles
<1>4. CASE CommitAcknowledged \/ CommitUnacknowledged
  BY <1>4, ModelCommits
<1>5. ASSUME log' = log, readModel' = readModel, snapshotSequence' = snapshotSequence,
             Running' => Running, ~Crash
      PROVE  ModelFinds'
  BY <1>5, HistoryKept DEF ModelFinds
<1>6. CASE Client \/ ReplayReceipt \/ UNCHANGED vars
  <2>1. /\ log' = log /\ readModel' = readModel /\ snapshotSequence' = snapshotSequence
        /\ phase' = phase
    BY <1>6 DEF Client, Redispatch, Dispatch, Enqueue, ReplayReceipt, vars
  <2> QED BY <1>1, <1>5, <2>1 DEF Running
<1>7. CASE \/ BeginTransaction \/ BreakInvariant \/ FailLookup \/ AppendEvent \/ ViolateUnique
           \/ FailTransaction \/ FailReconcile \/ PublishEvent \/ RecordRejection \/ AnswerClient
  <2>1. /\ log' = log /\ readModel' = readModel /\ snapshotSequence' = snapshotSequence /\ Running
    BY <1>7 DEF BeginTransaction, BreakInvariant, FailLookup, Take, AppendEvent, ViolateUnique,
       FailTransaction, Rollback, FailReconcile, PublishEvent, RecordRejection, AnswerClient,
       Running
  <2> QED BY <1>1, <1>5, <2>1
<1> QED BY <1>1, <1>2, <1>3, <1>4, <1>6, <1>7 DEF Next, Startup, Process, StorageFailure

LEMMA ExistenceReachable ==
  Spec => [](TypeOK /\ Working /\ Cursors /\ Delivery /\ Existence)
<1>1. /\ TypeOK /\ Working /\ Cursors /\ Delivery /\ Existence /\ [Next]_vars /\ TypeOK'
      => Existence'
  BY OwnKept, TablesFindKept, ModelFindsKept, NextModelKept DEF Existence
<1> QED BY <1>1, ExistenceInit, DeliveryReachable, PTL DEF Spec

-----------------------------------------------------------------------------
(* Versions number the events of a stream from zero, open transaction      *)
(* included.                                                               *)
HasEvent(events, s) == \E i \in DOMAIN events : events[i].stream = s
Versioned == InVersion(Visible)

LEMMA NextVersionFacts ==
  ASSUME NEW events \in Seq(StoredEvent), NEW s
  PROVE  /\ NextVersion(events, s) \in Nat
         /\ \A i \in DOMAIN events : events[i].stream = s =>
              events[i].version < NextVersion(events, s)
         /\ NextVersion(events, s) > 0 =>
              \E j \in DOMAIN events : /\ events[j].stream = s
                                      /\ events[j].version = NextVersion(events, s) - 1
         /\ NextVersion(events, s) = 0 <=> ~HasEvent(events, s)
<1> DEFINE versions == {events[i].version : i \in {j \in DOMAIN events : events[j].stream = s}}
           next == NextVersion(events, s)
<1>1. versions \in SUBSET Nat
  <2>1. \A i \in DOMAIN events : events[i] \in StoredEvent
    OBVIOUS
  <2> QED BY <2>1 DEF StoredEvent
<1>2. PICK b \in Nat : \A n \in versions : n <= b
  BY VersionsBounded
<1>3. next = IF versions = {} THEN 0 ELSE Max(versions) + 1
  BY DEF NextVersion
<1>4. \A n : n \in versions <=>
        \E i \in DOMAIN events : events[i].stream = s /\ events[i].version = n
  OBVIOUS
<1> HIDE DEF versions, next
<1>5. CASE versions = {}
  <2>1. next = 0 /\ next \in Nat /\ ~(next > 0)
    BY <1>3, <1>5
  <2>2. \A i \in DOMAIN events : events[i].stream # s
    BY <1>4, <1>5
  <2> QED BY <2>1, <2>2 DEF HasEvent, next
<1>6. CASE versions # {}
  <2>1. /\ Max(versions) \in versions /\ Max(versions) \in Nat
        /\ \A n \in versions : n <= Max(versions)
    BY <1>1, <1>2, <1>6, MaxOfBoundedNaturals
  <2>2. next \in Nat /\ next > 0 /\ next - 1 = Max(versions) /\ \A n \in versions : n < next
    BY <1>1, <1>3, <1>6, <2>1
  <2>3. HasEvent(events, s)
    BY <1>4, <2>1 DEF HasEvent
  <2> QED BY <1>4, <2>1, <2>2, <2>3 DEF next
<1> QED BY <1>5, <1>6

(* A stream with events has one of version zero.                           *)
LEMMA VersionZero ==
  ASSUME NEW events \in Seq(StoredEvent), InVersion(events), NEW s, HasEvent(events, s)
  PROVE  \E i \in DOMAIN events : events[i].stream = s /\ events[i].version = 0
<1> DEFINE versions == {n \in Nat : \E i \in DOMAIN events :
                                     events[i].stream = s /\ events[i].version = n}
<1>1. \A i \in DOMAIN events : events[i].version \in Nat
  <2>1. \A i \in DOMAIN events : events[i] \in StoredEvent
    OBVIOUS
  <2> QED BY <2>1 DEF StoredEvent
<1>2. versions \in SUBSET Nat /\ versions # {}
  BY <1>1 DEF HasEvent
<1>3. PICK n \in versions : \A m \in versions : n <= m
  BY <1>2, LeastNatural
<1>4. PICK i \in DOMAIN events : events[i].stream = s /\ events[i].version = n
  BY <1>3
<1>5. n = 0
  <2> SUFFICES ASSUME n > 0 PROVE FALSE
    BY <1>3
  <2>1. PICK j \in DOMAIN events : events[j].stream = s /\ events[j].version = n - 1
    BY <1>4 DEF InVersion
  <2>2. n - 1 \in versions
    BY <1>1, <2>1
  <2> QED BY <1>3, <2>2
<1> QED BY <1>4, <1>5

LEMMA InVersionAppend ==
  ASSUME NEW events \in Seq(StoredEvent), InVersion(events), NEW e \in StoredEvent,
         \A i \in DOMAIN events : events[i].stream = e.stream => events[i].version < e.version,
         e.version > 0 => \E j \in DOMAIN events : /\ events[j].stream = e.stream
                                                  /\ events[j].version = e.version - 1
  PROVE  InVersion(Append(events, e))
<1> DEFINE whole == Append(events, e)  n == Len(events)
<1>1. /\ n \in Nat /\ DOMAIN events = 1..n /\ DOMAIN whole = 1..n + 1
      /\ (\A i \in 1..n : whole[i] = events[i]) /\ whole[n + 1] = e
  OBVIOUS
<1>2. \A i \in 1..n + 1 : i \in 1..n \/ i = n + 1
  BY <1>1
<1>3. \A i \in 1..n : i \in 1..n + 1
  BY <1>1
<1>4. \A i \in 1..n + 1 : ~(n + 1 < i)
  BY <1>1
<1> HIDE DEF whole, n
<1>5. ASSUME NEW i \in 1..n + 1, NEW j \in 1..n + 1, i < j, whole[i].stream = whole[j].stream
      PROVE  whole[i].version < whole[j].version
  <2>1. i \in 1..n /\ whole[i] = events[i]
    BY <1>1, <1>2, <1>4, <1>5
  <2>2. CASE j \in 1..n
    BY <1>1, <1>5, <2>1, <2>2 DEF InVersion
  <2>3. CASE j = n + 1
    BY <1>1, <1>5, <2>1, <2>3
  <2> QED BY <1>2, <2>2, <2>3
<1>6. ASSUME NEW i \in 1..n + 1, whole[i].version > 0
      PROVE  \E j \in 1..n + 1 : /\ whole[j].stream = whole[i].stream
                                /\ whole[j].version = whole[i].version - 1
  <2>1. PICK j \in 1..n : /\ events[j].stream = whole[i].stream
                          /\ events[j].version = whole[i].version - 1
    BY <1>1, <1>2, <1>6 DEF InVersion
  <2> QED BY <1>1, <1>3, <2>1
<1> QED BY <1>1, <1>5, <1>6 DEF InVersion, whole

LEMMA InVersionPrefix ==
  ASSUME NEW events \in Seq(StoredEvent), NEW more \in Seq(StoredEvent),
         InVersion(events \o more)
  PROVE  InVersion(events)
<1> DEFINE whole == events \o more  n == Len(events)  m == Len(more)
<1>1. /\ n \in Nat /\ m \in Nat /\ DOMAIN events = 1..n /\ DOMAIN whole = 1..n + m
      /\ \A i \in 1..n : whole[i] = events[i]
  OBVIOUS
<1>2. \A i \in 1..n : i \in 1..n + m /\ \A j \in 1..n + m : j \in 1..n \/ i < j
  BY <1>1
<1>3. \A i \in 1..n + m : whole[i].version \in Nat
  <2>1. whole \in Seq(StoredEvent)
    OBVIOUS
  <2>2. \A i \in 1..n + m : whole[i] \in StoredEvent
    BY <1>1, <2>1
  <2> QED BY <2>2 DEF StoredEvent
<1>4. InVersion(whole)
  OBVIOUS
<1> HIDE DEF whole, n, m
<1>5. ASSUME NEW i \in 1..n, events[i].version > 0
      PROVE  \E j \in 1..n : /\ events[j].stream = events[i].stream
                            /\ events[j].version = events[i].version - 1
  <2>1. PICK j \in 1..n + m : /\ whole[j].stream = whole[i].stream
                              /\ whole[j].version = whole[i].version - 1
    BY <1>1, <1>2, <1>4, <1>5 DEF InVersion
  <2>2. ~(i < j)
    <3> SUFFICES ASSUME i < j PROVE FALSE
      OBVIOUS
    <3>1. whole[i].version < whole[j].version
      BY <1>1, <1>2, <1>4, <2>1 DEF InVersion
    <3> QED BY <1>2, <1>3, <2>1, <3>1
  <2>3. j \in 1..n
    BY <1>2, <2>2
  <2> QED BY <1>1, <2>1, <2>3
<1>6. ASSUME NEW i \in 1..n, NEW j \in 1..n, i < j, events[i].stream = events[j].stream
      PROVE  events[i].version < events[j].version
  BY <1>1, <1>2, <1>4, <1>6 DEF InVersion
<1> QED BY <1>1, <1>5, <1>6 DEF InVersion

-----------------------------------------------------------------------------
(* The rows of a fork: a marker, and below it, version for version, a copy *)
(* of every event of the source.                                           *)
CopyOf(row, e) == row.version = e.version /\ row.event.type = e.type
MarkOf(mark, cmd) ==
  /\ mark \in ForkRows(cmd)
  /\ mark.event.type = "thread.forked" /\ mark.event.arg = cmd.source
  /\ \E i \in DOMAIN log : log[i].stream = cmd.source /\ log[i].version = mark.version - 1
  /\ \A i \in DOMAIN log : log[i].stream = cmd.source => log[i].version < mark.version
  /\ \A row \in ForkRows(cmd) : row # mark =>
       /\ row.version < mark.version
       /\ \E i \in DOMAIN log : log[i].stream = cmd.source /\ CopyOf(row, log[i])

LEMMA ForkRowsAre ==
  ASSUME log \in Seq(StoredEvent), NEW cmd \in Commands, HasEvent(log, cmd.source)
  PROVE  /\ \E mark : MarkOf(mark, cmd) /\ mark.version > 0
         /\ \A row \in ForkRows(cmd) : /\ row.version \in Nat /\ row.rank = row.version
                                      /\ row.event.stream = cmd.stream
         /\ \A i \in DOMAIN log : log[i].stream = cmd.source =>
              \E row \in ForkRows(cmd) : CopyOf(row, log[i])
         /\ InVersion(log) => \A row, other \in ForkRows(cmd) :
                                row.version = other.version => row = other
<1> DEFINE copied == {log[i] : i \in {j \in DOMAIN log : log[j].stream = cmd.source}}
           arg(e) == IF e.type = "thread.created" /\ cmd.arg # None THEN cmd.arg ELSE e.arg
           versions == {e.version : e \in copied} \cup {0}
           marker == Max(versions) + 1
           copy(e) == [event |-> Planned(cmd.stream, e.type, arg(e)), version |-> e.version,
                       rank |-> e.version]
           mark == [event |-> Planned(cmd.stream, "thread.forked", cmd.source),
                    version |-> marker, rank |-> marker]
<1>1. ForkRows(cmd) = {copy(e) : e \in copied} \cup {mark}
  BY DEF ForkRows
<1>2. \A e : e \in copied <=> \E i \in DOMAIN log : log[i].stream = cmd.source /\ e = log[i]
  OBVIOUS
<1>3. \A i \in DOMAIN log : log[i] \in StoredEvent /\ log[i].version \in Nat
  <2>1. \A i \in DOMAIN log : log[i] \in StoredEvent
    OBVIOUS
  <2> QED BY <2>1 DEF StoredEvent
<1>4. \A e \in copied : /\ CopyOf(copy(e), e) /\ copy(e).version = e.version
                        /\ copy(e).rank = e.version /\ copy(e).event.stream = cmd.stream
  BY DEF CopyOf, Planned
<1>5. /\ mark.event.type = "thread.forked" /\ mark.event.arg = cmd.source
      /\ mark.event.stream = cmd.stream /\ mark.version = marker /\ mark.rank = marker
  BY DEF Planned
<1>6. versions \in SUBSET Nat /\ versions # {}
      /\ \A n : n \in versions <=> n = 0 \/ \E e \in copied : e.version = n
  BY <1>2, <1>3
<1>7. PICK b \in Nat : \A n \in versions : n <= b
  <2>1. PICK b \in Nat : \A i \in DOMAIN log : log[i].version <= b
    BY VersionsBounded
  <2> QED BY <2>1
<1>8. \E e \in copied : TRUE
  BY <1>2 DEF HasEvent
<1> HIDE DEF copied, versions
<1>9. /\ Max(versions) \in versions /\ \A n \in versions : n <= Max(versions)
      /\ Max(versions) \in Nat
  BY <1>6, <1>7, MaxOfBoundedNaturals
<1>10. /\ marker \in Nat /\ marker > 0 /\ \E e \in copied : e.version = marker - 1
       /\ \A e \in copied : e.version < marker /\ e.version \in Nat
  <2>1. \A e \in copied : e.version \in versions /\ e.version \in Nat
    BY <1>6
  <2>2. PICK last \in copied : last.version = Max(versions)
    <3>1. CASE Max(versions) = 0
      <4>1. \A e \in copied : e.version = 0
        BY <1>9, <2>1, <3>1
      <4> QED BY <1>8, <3>1, <4>1
    <3>2. CASE Max(versions) # 0
      BY <1>6, <1>9, <3>2
    <3> QED BY <3>1, <3>2
  <2> QED BY <1>9, <2>1, <2>2
<1> HIDE DEF marker, mark, copy
<1>11. mark \in ForkRows(cmd) /\
        \A row \in ForkRows(cmd) : row = mark \/ \E e \in copied : row = copy(e)
  BY <1>1
<1>12. MarkOf(mark, cmd)
  BY <1>2, <1>4, <1>5, <1>10, <1>11 DEF MarkOf
<1>13. \A row \in ForkRows(cmd) : /\ row.version \in Nat /\ row.rank = row.version
                                 /\ row.event.stream = cmd.stream
  BY <1>4, <1>5, <1>10, <1>11
<1>14. \A e \in copied : copy(e) \in ForkRows(cmd) /\ CopyOf(copy(e), e)
  BY <1>1, <1>4
<1>15. ASSUME InVersion(log), NEW row \in ForkRows(cmd), NEW other \in ForkRows(cmd),
              row.version = other.version
       PROVE  row = other
  <2>1. mark.version = marker /\ \A e \in copied : copy(e).version # marker
    BY <1>4, <1>5, <1>10
  <2>2. CASE row = mark
    BY <1>11, <1>15, <2>1, <2>2
  <2>3. CASE other = mark
    BY <1>11, <1>15, <2>1, <2>3
  <2>4. ASSUME NEW e \in copied, NEW f \in copied, row = copy(e), other = copy(f)
        PROVE  e = f
    <3>1. PICK i \in DOMAIN log, j \in DOMAIN log :
            /\ log[i].stream = cmd.source /\ log[j].stream = cmd.source
            /\ e = log[i] /\ f = log[j]
      BY <1>2
    <3>2. log[i].version = log[j].version /\ log[i].version \in Nat
      BY <1>3, <1>4, <1>15, <2>4, <3>1
    <3>3. ~(i < j) /\ ~(j < i)
      BY <1>15, <3>1, <3>2 DEF InVersion
    <3>4. i \in Nat /\ j \in Nat
      OBVIOUS
    <3> QED BY <3>1, <3>3, <3>4
  <2> QED BY <1>11, <2>2, <2>3, <2>4
<1> QED BY <1>2, <1>5, <1>10, <1>12, <1>13, <1>14, <1>15

-----------------------------------------------------------------------------
(* Inside the transaction.  The rows of a fork are inserted in the order   *)
(* of their versions into a stream that had no event; no other command     *)
(* plans a thread.forked.                                                  *)
Fits(e, row) == CopyOf(row, e) /\ e.stream = row.event.stream /\ e.arg = row.event.arg
Inserted == ForkRows(current) \ todo

NotForking ==
  phase = "append" /\ current.type # "chat.fork" =>
    /\ \A row \in todo : row.version = None /\ row.event.type # "thread.forked"
    /\ \A i \in DOMAIN saved : saved[i].type # "thread.forked"
Forking ==
  phase = "append" /\ current.type = "chat.fork" =>
    /\ current.source # current.stream /\ HasEvent(log, current.source)
    /\ todo \subseteq ForkRows(current)
    /\ \A row \in Inserted : \E i \in DOMAIN saved : Fits(saved[i], row)
    /\ \A i \in DOMAIN saved : \E row \in Inserted : Fits(saved[i], row)
    /\ \A row \in Inserted, other \in todo : row.rank < other.rank
    /\ \A i, j \in DOMAIN saved : i < j => saved[i].version < saved[j].version
    /\ saved # <<>> => ~HasEvent(log, current.stream)

LEMMA AppendsRow ==
  ASSUME TypeOK, AppendEvent
  PROVE  \E row \in todo : \E e \in StoredEvent :
           /\ NextRow(row) /\ Insertable(row)
           /\ e.version = InsertVersion(row) /\ e.stream = row.event.stream
           /\ e.type = row.event.type /\ e.arg = row.event.arg
           /\ saved' = Append(saved, e) /\ todo' = todo \ {row}
           /\ log' = log /\ current' = current /\ phase = "append" /\ phase' = "append"
           /\ unreconciled' = unreconciled /\ truncated' = truncated
           /\ Visible = log \o saved /\ Visible \in Seq(StoredEvent)
           /\ Visible' = Append(Visible, e)
<1>1. PICK row \in todo : \E e :
        /\ NextRow(row) /\ Insertable(row) /\ todo' = todo \ {row}
        /\ e = [sequence |-> nextSequence, version |-> InsertVersion(row),
                stream |-> row.event.stream, type |-> row.event.type,
                arg |-> row.event.arg, cmd |-> current.id]
        /\ saved' = Append(saved, e)
  BY DEF AppendEvent
<1>2. PICK e :
        /\ e = [sequence |-> nextSequence, version |-> InsertVersion(row),
                stream |-> row.event.stream, type |-> row.event.type,
                arg |-> row.event.arg, cmd |-> current.id]
        /\ saved' = Append(saved, e)
  BY <1>1
<1>3. saved \in Seq(StoredEvent) /\ log \in Seq(StoredEvent) /\ e \in StoredEvent
  <2>1. saved \in Seq(StoredEvent) /\ saved' \in Seq(StoredEvent) /\ log \in Seq(StoredEvent)
    BY AppendTyped DEF TypeOK
  <2>2. Len(saved) + 1 \in DOMAIN Append(saved, e) /\ Append(saved, e)[Len(saved) + 1] = e
    BY <2>1
  <2>3. \A i \in DOMAIN saved' : saved'[i] \in StoredEvent
    BY <2>1
  <2> QED BY <1>2, <2>1, <2>2, <2>3
<1>4. /\ log' = log /\ current' = current /\ phase = "append" /\ phase' = "append"
      /\ unreconciled' = unreconciled /\ truncated' = truncated
  BY DEF AppendEvent
<1>5. /\ e.version = InsertVersion(row) /\ e.stream = row.event.stream
      /\ e.type = row.event.type /\ e.arg = row.event.arg
  BY <1>2
<1>6. Visible = log \o saved /\ Visible' = log \o Append(saved, e)
  BY <1>2, <1>4 DEF Visible
<1>7. log \o Append(saved, e) = Append(log \o saved, e) /\ log \o saved \in Seq(StoredEvent)
  BY <1>3
<1> QED BY <1>1, <1>2, <1>3, <1>4, <1>5, <1>6, <1>7

(* Where the model admits a fork, its source has events of its own.        *)
LEMMA ForkBegins ==
  ASSUME TypeOK, ModelFinds, BeginTransaction, Head(queue).type = "chat.fork"
  PROVE  Forking' /\ NotForking'
<1>1. PICK cmd : cmd = Head(queue)
  OBVIOUS
<1>2. /\ cmd \in Commands /\ phase = "idle" /\ current' = cmd /\ log' = log /\ saved' = <<>>
      /\ todo' = ForkRows(cmd) /\ Admits(readModel, cmd)
  <2>1. Head(queue) \in Commands
    BY DEF TypeOK, BeginTransaction, Take
  <2> QED BY <1>1, <2>1 DEF BeginTransaction, Take, Acceptable, RowsToInsert
<1>3. ForkAdmitted(readModel, cmd)
  BY <1>1, <1>2 DEF Admits, ThreadEventOf, OrchestratorEventOf
<1>4. cmd.source \in Threads /\ cmd.source \notin Projects
  BY <1>1, <1>2, CommandStream, NamesAssumption
<1>5. Found(readModel, cmd.source) /\ cmd.source # cmd.stream
  BY <1>3, <1>4 DEF ForkAdmitted, Found
<1>6. HasEvent(log, cmd.source)
  <2>1. CreatedIn(log, cmd.source)
    BY <1>2, <1>4, <1>5 DEF ModelFinds, Running, Streams
  <2> QED BY <2>1 DEF CreatedIn, Creates, HasEvent
<1>7. ForkRows(current)' = ForkRows(cmd)
  BY <1>2 DEF ForkRows
<1>8. Inserted' = {} /\ todo' = ForkRows(current)'
  BY <1>2, <1>7 DEF Inserted
<1>9. HasEvent(log, current.source)' /\ (current.source # current.stream)'
  BY <1>2, <1>5, <1>6 DEF HasEvent
<1>10. current'.type = "chat.fork"
  BY <1>1, <1>2
<1>11. DOMAIN saved' = {} /\ saved' = <<>>
  BY <1>2
<1> QED BY <1>8, <1>9, <1>10, <1>11 DEF Forking, NotForking

LEMMA OtherBegins ==
  ASSUME TypeOK, BeginTransaction, Head(queue).type # "chat.fork"
  PROVE  Forking' /\ NotForking'
<1>1. PICK cmd : cmd = Head(queue)
  OBVIOUS
<1>2. /\ cmd \in Commands /\ current' = cmd /\ saved' = <<>> /\ todo' = RowsToInsert(cmd)
      /\ Admits(readModel, cmd) /\ cmd.type # "chat.fork"
  <2>1. Head(queue) \in Commands
    BY DEF TypeOK, BeginTransaction, Take
  <2> QED BY <1>1, <2>1 DEF BeginTransaction, Take, Acceptable
<1>3. ASSUME NEW row \in RowsToInsert(cmd)
      PROVE  row.version = None /\ row.event.type # "thread.forked"
  <2>1. PICK i \in DOMAIN Plan(readModel, cmd) :
          row = [event |-> Plan(readModel, cmd)[i], version |-> None, rank |-> i]
    BY <1>2, <1>3 DEF RowsToInsert
  <2>2. PlannedWell(readModel, Plan(readModel, cmd), i)
    BY <1>2, PlanEvents
  <2> QED BY <2>1, <2>2 DEF PlannedWell
<1>4. DOMAIN saved' = {}
  BY <1>2
<1> QED BY <1>2, <1>3, <1>4 DEF Forking, NotForking

LEMMA VisibleParts ==
  ASSUME TypeOK, phase = "append"
  PROVE  /\ Visible \in Seq(StoredEvent)
         /\ \A i \in DOMAIN log : i \in DOMAIN Visible /\ Visible[i] = log[i]
         /\ \A i \in DOMAIN saved :
              Len(log) + i \in DOMAIN Visible /\ Visible[Len(log) + i] = saved[i]
         /\ \A i \in DOMAIN Visible :
              \/ i \in DOMAIN log /\ Visible[i] = log[i]
              \/ i - Len(log) \in DOMAIN saved /\ Visible[i] = saved[i - Len(log)]
<1> DEFINE n == Len(log)  m == Len(saved)  whole == log \o saved
<1>1. /\ n \in Nat /\ m \in Nat /\ DOMAIN log = 1..n /\ DOMAIN saved = 1..m
      /\ DOMAIN whole = 1..n + m /\ whole \in Seq(StoredEvent)
      /\ \A i \in 1..n : whole[i] = log[i]
      /\ \A i \in 1..m : whole[n + i] = saved[i]
  BY DEF TypeOK
<1>2. Visible = whole
  BY DEF Visible
<1>3. /\ \A i \in 1..n : i \in 1..n + m
      /\ \A i \in 1..m : n + i \in 1..n + m
      /\ \A i \in 1..n + m : i \in 1..n \/ (i - n \in 1..m /\ i = n + (i - n))
  BY <1>1
<1> HIDE DEF n, m, whole
<1> QED BY <1>1, <1>2, <1>3 DEF n

(* A row of a fork that comes next has the next version of a new stream.   *)
LEMMA ForkAppends ==
  ASSUME TypeOK, Working, InVersion(log), Versioned, Forking, AppendEvent,
         current.type = "chat.fork"
  PROVE  Versioned' /\ Forking'
<1>1. PICK row \in todo, e \in StoredEvent :
        /\ NextRow(row) /\ Insertable(row)
        /\ e.version = InsertVersion(row) /\ e.stream = row.event.stream
        /\ e.type = row.event.type /\ e.arg = row.event.arg
        /\ saved' = Append(saved, e) /\ todo' = todo \ {row}
        /\ log' = log /\ current' = current /\ phase = "append" /\ phase' = "append"
        /\ Visible = log \o saved /\ Visible \in Seq(StoredEvent)
        /\ Visible' = Append(Visible, e)
  BY AppendsRow
<1> DEFINE rows == ForkRows(current)
<1>2. log \in Seq(StoredEvent) /\ saved \in Seq(StoredEvent) /\ current \in Commands
  BY <1>1 DEF TypeOK, Working
<1>3. /\ current.source # current.stream /\ HasEvent(log, current.source)
      /\ todo \subseteq rows
      /\ \A r \in Inserted : \E i \in DOMAIN saved : Fits(saved[i], r)
      /\ \A i \in DOMAIN saved : \E r \in Inserted : Fits(saved[i], r)
      /\ \A r \in Inserted, other \in todo : r.rank < other.rank
      /\ \A i, j \in DOMAIN saved : i < j => saved[i].version < saved[j].version
      /\ saved # <<>> => ~HasEvent(log, current.stream)
  BY <1>1 DEF Forking
<1>4. /\ \E mark : MarkOf(mark, current) /\ mark.version > 0
      /\ \A r \in rows : r.version \in Nat /\ r.rank = r.version /\ r.event.stream = current.stream
      /\ \A i \in DOMAIN log : log[i].stream = current.source => \E r \in rows : CopyOf(r, log[i])
      /\ \A r, other \in rows : r.version = other.version => r = other
  BY <1>2, <1>3, ForkRowsAre
<1>5. row \in rows /\ row \in todo /\ \A other \in todo : row.rank <= other.rank
  BY <1>1, <1>3 DEF NextRow
<1>6. e.version = row.version /\ e.version \in Nat /\ e.stream = current.stream
        /\ row.rank = e.version
  <2>1. row.version # None
    BY <1>4, <1>5, NamesAssumption
  <2> QED BY <1>1, <1>4, <1>5, <2>1 DEF InsertVersion
<1>7. Fits(e, row)
  BY <1>1, <1>6 DEF Fits, CopyOf
<1>8. ForkRows(current)' = rows
  BY <1>1 DEF ForkRows
<1>9. Inserted' = Inserted \cup {row} /\ todo' \subseteq rows
  BY <1>1, <1>3, <1>5, <1>8 DEF Inserted
<1>10. \A i \in DOMAIN saved : saved[i].version < e.version /\ saved[i].stream = current.stream
  <2>1. TAKE i \in DOMAIN saved
  <2>2. PICK r \in Inserted : Fits(saved[i], r)
    BY <1>3
  <2>3. r \in rows /\ r.rank < row.rank
    BY <1>3, <1>5, <2>2 DEF Inserted
  <2> QED BY <1>4, <1>6, <2>2, <2>3 DEF Fits, CopyOf
<1> HIDE DEF rows
<1>11. ~HasEvent(log, current.stream)
  <2>1. CASE saved # <<>>
    BY <1>3, <2>1
  <2>2. CASE saved = <<>>
    <3>1. Inserted = {}
      BY <1>3, <2>2
    <3>2. PICK i \in DOMAIN log : log[i].stream = current.source /\ log[i].version = 0
      BY <1>2, <1>3, VersionZero
    <3>3. PICK first \in rows : first.version = 0 /\ first.rank = 0
      BY <1>4, <3>2 DEF CopyOf
    <3>4. row.rank <= 0
      BY <1>5, <3>1, <3>3 DEF Inserted, rows
    <3>5. e.version = 0
      BY <1>6, <3>4
    <3>6. ~VersionTaken(Visible, current.stream, 0)
      BY <1>1, <1>6, <3>5 DEF Insertable
    <3>7. ASSUME HasEvent(log, current.stream) PROVE FALSE
      <4>1. PICK j \in DOMAIN log : log[j].stream = current.stream /\ log[j].version = 0
        BY <1>2, <3>7, VersionZero
      <4>2. j \in DOMAIN Visible /\ Visible[j] = log[j]
        BY <1>1, VisibleParts
      <4> QED BY <3>6, <4>1, <4>2 DEF VersionTaken
    <3> QED BY <3>7
  <2> QED BY <2>1, <2>2
<1>12. \A i \in DOMAIN Visible : Visible[i].stream = e.stream => Visible[i].version < e.version
  <2>1. \A i \in DOMAIN log : log[i].stream # e.stream
    BY <1>6, <1>11 DEF HasEvent
  <2> QED BY SMTT(30), <1>1, <1>10, <2>1, VisibleParts
<1>13. ASSUME e.version > 0
       PROVE  \E j \in DOMAIN Visible : /\ Visible[j].stream = e.stream
                                       /\ Visible[j].version = e.version - 1
  <2>1. PICK i \in DOMAIN log : log[i].stream = current.source /\ log[i].version = e.version - 1
    <3>1. PICK mark : MarkOf(mark, current)
      BY <1>4
    <3>2. CASE row = mark
      BY <1>6, <3>1, <3>2 DEF MarkOf
    <3>3. CASE row # mark
      <4>1. PICK k \in DOMAIN log : log[k].stream = current.source /\ log[k].version = e.version
        BY <1>5, <1>6, <3>1, <3>3 DEF MarkOf, CopyOf, rows
      <4> QED BY <1>13, <4>1 DEF InVersion
    <3> QED BY <3>2, <3>3
  <2>2. PICK r \in rows : r.version = e.version - 1
    BY <1>4, <2>1 DEF CopyOf
  <2>3. r.rank < row.rank
    BY <1>4, <1>6, <2>2
  <2>4. r.rank \in Nat /\ row.rank \in Nat /\ ~(row.rank <= r.rank)
    BY <1>4, <1>6, <2>2, <2>3
  <2>5. r \in Inserted
    BY <1>5, <2>4 DEF Inserted, rows
  <2>6. PICK k \in DOMAIN saved : Fits(saved[k], r)
    BY <1>3, <2>5
  <2>7. saved[k].version = e.version - 1 /\ saved[k].stream = e.stream
    BY <1>6, <1>10, <2>2, <2>6 DEF Fits, CopyOf
  <2> QED BY ZenonT(30), <1>1, <2>7, VisibleParts
<1>14. InVersion(Visible')
  BY <1>1, <1>12, <1>13, InVersionAppend DEF Versioned
<1> DEFINE n == Len(saved)  more == Append(saved, e)
<1>15. /\ n \in Nat /\ DOMAIN saved = 1..n /\ DOMAIN more = 1..n + 1 /\ more # <<>>
       /\ (\A i \in 1..n : more[i] = saved[i]) /\ more[n + 1] = e
  BY <1>2
<1>16. /\ \A i \in 1..n : i \in 1..n + 1 /\ n + 1 \in 1..n + 1
       /\ \A i \in 1..n + 1 : i \in 1..n \/ i = n + 1
       /\ \A i \in 1..n + 1 : ~(n + 1 < i)
       /\ n + 1 \in 1..n + 1
  BY <1>15
<1> HIDE DEF n, more
<1>17. \A r \in Inserted \cup {row} : \E i \in DOMAIN more : Fits(more[i], r)
  BY <1>3, <1>7, <1>15, <1>16
<1>18. \A i \in DOMAIN more : \E r \in Inserted \cup {row} : Fits(more[i], r)
  BY <1>3, <1>7, <1>15, <1>16
<1>19. \A r \in Inserted \cup {row}, other \in todo \ {row} : r.rank < other.rank
  <2>1. TAKE r \in Inserted \cup {row}, other \in todo \ {row}
  <2>2. CASE r \in Inserted
    BY <1>3, <2>2
  <2>3. CASE r = row
    <3>1. /\ row.rank <= other.rank /\ other \in rows /\ other # row
          /\ other.rank = other.version /\ row.rank = row.version
          /\ other.rank \in Nat /\ row.rank \in Nat
      BY <1>3, <1>4, <1>5 DEF rows
    <3>2. row.rank # other.rank
      BY <1>4, <1>5, <3>1
    <3> QED BY <2>3, <3>1, <3>2
  <2> QED BY <2>2, <2>3
<1>20. ASSUME NEW i \in DOMAIN more, NEW j \in DOMAIN more, i < j
       PROVE  more[i].version < more[j].version
  <2>1. i \in 1..n /\ more[i] = saved[i]
    BY <1>15, <1>16, <1>20
  <2>2. CASE j \in 1..n
    BY <1>3, <1>15, <1>20, <2>1, <2>2
  <2>3. CASE j = n + 1
    BY <1>10, <1>15, <2>1, <2>3
  <2> QED BY <1>15, <1>16, <2>2, <2>3
<1>21. saved' = more /\ todo' = todo \ {row}
  BY <1>1 DEF more
<1>22. Forking'
  <2>1. HasEvent(log, current.source)' /\ (current.source # current.stream)'
        /\ ~HasEvent(log, current.stream)'
    BY <1>1, <1>3, <1>11 DEF HasEvent
  <2>2. (todo \subseteq ForkRows(current))'
    BY <1>8, <1>9
  <2> QED BY <1>9, <1>17, <1>18, <1>19, <1>20, <1>21, <2>1, <2>2 DEF Forking
<1> QED BY <1>14, <1>22 DEF Versioned

LEMMA OtherAppends ==
  ASSUME TypeOK, Versioned, NotForking, AppendEvent, current.type # "chat.fork"
  PROVE  Versioned' /\ NotForking'
<1>1. PICK row \in todo, e \in StoredEvent :
        /\ e.version = InsertVersion(row) /\ e.stream = row.event.stream
        /\ e.type = row.event.type
        /\ saved' = Append(saved, e) /\ todo' = todo \ {row}
        /\ current' = current /\ phase = "append"
        /\ Visible = log \o saved /\ Visible \in Seq(StoredEvent)
        /\ Visible' = Append(Visible, e)
  BY AppendsRow
<1>2. /\ row.version = None /\ row.event.type # "thread.forked"
      /\ \A r \in todo : r.version = None /\ r.event.type # "thread.forked"
      /\ \A i \in DOMAIN saved : saved[i].type # "thread.forked"
  BY <1>1 DEF NotForking
<1>3. e.version = NextVersion(Visible, e.stream)
  BY <1>1, <1>2 DEF InsertVersion
<1>4. InVersion(Visible')
  <2>0. PICK next : next = NextVersion(Visible, e.stream)
    OBVIOUS
  <2>1. /\ \A i \in DOMAIN Visible : Visible[i].stream = e.stream => Visible[i].version < next
        /\ next > 0 => \E j \in DOMAIN Visible : /\ Visible[j].stream = e.stream
                                                  /\ Visible[j].version = next - 1
    BY Zenon, <1>1, <2>0, NextVersionFacts
  <2>2. e.version = next
    BY <1>3, <2>0
  <2> QED BY <1>1, <2>1, <2>2, InVersionAppend DEF Versioned
<1>5. \A i \in DOMAIN Append(saved, e) : Append(saved, e)[i].type # "thread.forked"
  <2>1. saved \in Seq(StoredEvent)
    BY DEF TypeOK
  <2>2. \A i \in DOMAIN Append(saved, e) :
          \/ i \in DOMAIN saved /\ Append(saved, e)[i] = saved[i]
          \/ Append(saved, e)[i] = e
    BY <2>1
  <2> QED BY <1>1, <1>2, <2>2
<1>6. NotForking'
  BY <1>1, <1>2, <1>5 DEF NotForking
<1> QED BY <1>4, <1>6 DEF Versioned

LEMMA LogInVersion ==
  ASSUME TypeOK, Ordered, Versioned
  PROVE  InVersion(log)
<1>1. log \in Seq(StoredEvent) /\ saved \in Seq(StoredEvent)
      /\ (phase # "append" => Visible = log) /\ (phase = "append" => Visible = log \o saved)
  BY VisibleLog
<1>2. CASE phase = "append"
  BY <1>1, <1>2, InVersionPrefix DEF Versioned
<1>3. CASE phase # "append"
  BY <1>1, <1>3 DEF Versioned
<1> QED BY <1>2, <1>3

Transacting == Versioned /\ NotForking /\ Forking

LEMMA TransactingKept ==
  ASSUME TypeOK, TypeOK', Working, Ordered, ModelFinds, Transacting, [Next]_vars
  PROVE  Transacting'
<1>1. log' \o <<>> = log' /\ InVersion(log) /\ log \in Seq(StoredEvent)
  BY ConcatEmptySeq, LogInVersion DEF TypeOK, Transacting
<1>2. ASSUME phase' # "append", log' = log PROVE Transacting'
  <2>1. Visible' = log
    BY <1>1, <1>2 DEF Visible
  <2> QED BY <1>1, <1>2, <2>1 DEF Transacting, Versioned, NotForking, Forking
<1>3. CASE Startup
  BY <1>2, <1>3 DEF Startup, StartServer, BootstrapEvent, BootstrapNext, LoadSnapshot
<1>4. CASE Client \/ ReplayReceipt \/ PublishEvent \/ UNCHANGED vars
  <2>1. phase' = phase /\ log' = log /\ todo' = todo /\ saved' = saved /\ current' = current
    BY <1>4 DEF Client, Redispatch, Dispatch, Enqueue, ReplayReceipt, PublishEvent, vars
  <2>2. ForkRows(current)' = ForkRows(current)
    BY <2>1 DEF ForkRows
  <2> QED BY <2>1, <2>2 DEF Transacting, Versioned, Visible, NotForking, Forking, Inserted
<1>5. CASE BeginTransaction
  <2>1. log' = log /\ saved' = <<>>
    BY <1>5 DEF BeginTransaction, Take
  <2>2. Visible' = log
    BY <1>1, <2>1 DEF Visible
  <2> QED BY <1>1, <1>5, <2>2, ForkBegins, OtherBegins DEF Transacting, Versioned
<1>6. CASE BreakInvariant \/ FailLookup
  BY <1>2, <1>6 DEF BreakInvariant, FailLookup, Take
<1>7. CASE AppendEvent
  <2>1. current' = current
    BY <1>7 DEF AppendEvent
  <2>2. CASE current.type = "chat.fork"
    <3>1. Versioned' /\ Forking'
      BY <1>1, <1>7, <2>2, ForkAppends DEF Transacting
    <3> QED BY <2>1, <2>2, <3>1 DEF Transacting, NotForking
  <2>3. CASE current.type # "chat.fork"
    <3>1. Versioned' /\ NotForking'
      BY <1>7, <2>3, OtherAppends DEF Transacting
    <3> QED BY <2>1, <2>3, <3>1 DEF Transacting, Forking
  <2> QED BY <2>2, <2>3
<1>8. CASE ViolateUnique \/ FailTransaction
  BY <1>2, <1>8 DEF ViolateUnique, FailTransaction, Rollback
<1>9. CASE CommitAcknowledged \/ CommitUnacknowledged
  <2>1. phase = "append" /\ phase' # "append" /\ log' = log \o saved
    BY <1>9 DEF CommitAcknowledged, CommitUnacknowledged, Commit
  <2>2. Visible' = Visible
    BY <1>1, <2>1 DEF Visible
  <2> QED BY <2>1, <2>2 DEF Transacting, Versioned, NotForking, Forking
<1>10. CASE Reconcile \/ FailReconcile \/ RecordRejection
  BY <1>2, <1>10 DEF Reconcile, FailReconcile, RecordRejection
<1>11. CASE AnswerClient \/ Crash
  BY <1>2, <1>11 DEF AnswerClient, Crash
<1> QED BY <1>3, <1>4, <1>5, <1>6, <1>7, <1>8, <1>9, <1>10, <1>11
        DEF Next, Process, StorageFailure

-----------------------------------------------------------------------------
(* A fork that commits is a prefix of its source.                          *)
LEMMA InEventsBefore ==
  ASSUME NEW events, NEW i, NEW s, NEW x
  PROVE  x \in EventsBefore(events, i, s) <=>
           \E j \in 1..i - 1 : events[j].stream = s /\ x = <<events[j].version, events[j].type>>
BY DEF EventsBefore

LEMMA ForkCommits ==
  ASSUME TypeOK, Working, Ordered, Transacting, ForksArePrefixes(log), Commit
  PROVE  ForksArePrefixes(log')
<1> DEFINE n == Len(log)  m == Len(saved)  whole == log \o saved  target == current.stream
           source == current.source
<1>1. /\ n \in Nat /\ m \in Nat /\ DOMAIN log = 1..n /\ DOMAIN saved = 1..m
      /\ DOMAIN whole = 1..n + m
      /\ \A i \in 1..n : whole[i] = log[i]
      /\ \A i \in 1..m : whole[n + i] = saved[i]
  BY DEF TypeOK
<1>2. log' = whole /\ phase = "append" /\ todo = {} /\ Inserted = ForkRows(current)
  BY DEF Commit, Inserted
<1>3. log \in Seq(StoredEvent) /\ InVersion(log) /\ current \in Commands
  BY <1>2, LogInVersion DEF TypeOK, Transacting, Working
<1>4. /\ \A i \in 1..n : i \in 1..n + m
      /\ \A i \in 1..m : n + i \in 1..n + m /\ ~(n + i <= n)
      /\ \A i \in 1..n + m : i \in 1..n \/ (i - n \in 1..m /\ i = n + (i - n))
      /\ \A i \in 1..n : \A j \in 1..i - 1 : j \in 1..n
      /\ \A i, j \in 1..m : n + i <= n + j => i <= j
      /\ \A i, j \in 1..m : i < j => n + i \in 1..n + j - 1
      /\ \A i \in 1..n, j \in 1..m : i \in 1..n + j - 1
  BY <1>1
<1>5. \A i \in 1..m : saved[i].version \in Nat
  <2>1. \A i \in 1..m : saved[i] \in StoredEvent
    BY <1>1 DEF TypeOK
  <2> QED BY <2>1 DEF StoredEvent
<1> HIDE DEF n, m, whole
<1>6. ASSUME NEW i \in 1..n, IsForkMarker(whole, i)
      PROVE  /\ EventsBefore(whole, i, whole[i].stream) = EventsBefore(whole, i, whole[i].arg)
             /\ \A e \in EventsBefore(whole, i, whole[i].stream) : e[1] < whole[i].version
  <2>1. IsForkMarker(log, i) /\ whole[i] = log[i]
    BY <1>1, <1>4, <1>6 DEF IsForkMarker
  <2>2. \A s : EventsBefore(whole, i, s) = EventsBefore(log, i, s)
    <3>1. ASSUME NEW s, NEW x
          PROVE  x \in EventsBefore(whole, i, s) <=> x \in EventsBefore(log, i, s)
      <4>1. \A j \in 1..i - 1 : whole[j] = log[j]
        BY <1>1, <1>4
      <4> QED BY <4>1, InEventsBefore
    <3> QED BY <3>1 DEF EventsBefore
  <2> QED BY <1>1, <2>1, <2>2 DEF ForksArePrefixes
<1>7. ASSUME NEW k \in 1..m, IsForkMarker(whole, n + k)
      PROVE  /\ EventsBefore(whole, n + k, saved[k].stream)
                 = EventsBefore(whole, n + k, saved[k].arg)
             /\ \A e \in EventsBefore(whole, n + k, saved[k].stream) : e[1] < saved[k].version
  <2>1. saved[k].type = "thread.forked"
    BY <1>1, <1>7 DEF IsForkMarker
  <2>2. current.type = "chat.fork"
    BY <1>1, <1>2, <2>1 DEF Transacting, NotForking
  <2>3. /\ source # target /\ HasEvent(log, source)
        /\ \A row \in ForkRows(current) : \E i \in 1..m : Fits(saved[i], row)
        /\ \A i \in 1..m : \E row \in ForkRows(current) : Fits(saved[i], row)
        /\ \A i, j \in 1..m : i < j => saved[i].version < saved[j].version
        /\ ~HasEvent(log, target)
    <3>1. saved # <<>>
      BY <1>2 DEF Working
    <3> QED BY <1>1, <1>2, <2>2, <3>1 DEF Transacting, Forking
  <2>4. /\ \A r \in ForkRows(current) : r.version \in Nat /\ r.event.stream = target
        /\ \A i \in DOMAIN log : log[i].stream = source =>
             \E r \in ForkRows(current) : CopyOf(r, log[i])
    BY <1>3, <2>3, ForkRowsAre
  <2>5. PICK mark : MarkOf(mark, current)
    BY <1>3, <2>3, ForkRowsAre
  <2>6. \A i \in 1..m : saved[i].stream = target
    BY <2>3, <2>4 DEF Fits
  <2>7. Fits(saved[k], mark)
    <3>1. PICK row \in ForkRows(current) : Fits(saved[k], row)
      BY <2>3
    <3>2. PICK p \in 1..m : Fits(saved[p], mark)
      BY <2>3, <2>5 DEF MarkOf
    <3>3. whole[n + p].type = "thread.forked" /\ whole[n + p].stream = whole[n + k].stream
          /\ n + p \in 1..n + m
      BY <1>1, <1>4, <2>5, <2>6, <3>2 DEF Fits, CopyOf, MarkOf
    <3>4. p <= k
      BY <1>1, <1>4, <1>7, <3>3 DEF IsForkMarker
    <3>5. CASE p = k
      BY <3>2, <3>5
    <3>6. CASE p < k
      <4>1. saved[p].version < saved[k].version
        BY <2>3, <3>6
      <4>2. ~(row.version < mark.version)
        BY <1>5, <3>1, <3>2, <4>1 DEF Fits, CopyOf
      <4> QED BY <2>5, <3>1, <4>2 DEF MarkOf
    <3>7. p = k \/ p < k
      BY <3>4
    <3> QED BY <3>5, <3>6, <3>7
  <2>8. /\ saved[k].arg = source /\ saved[k].stream = target /\ saved[k].version = mark.version
    BY <2>5, <2>6, <2>7 DEF Fits, CopyOf, MarkOf
  <2> DEFINE last == n + k
  <2>a. \A j \in 1..last - 1 : j \in 1..n \/ (j - n \in 1..m /\ j - n < k /\ j = n + (j - n))
    BY <1>1
  <2> HIDE DEF last
  <2>9. ASSUME NEW j \in 1..last - 1, whole[j].stream = target
        PROVE  /\ whole[j].version < mark.version
               /\ \E l \in 1..last - 1 : /\ whole[l].stream = source
                                         /\ whole[l].version = whole[j].version
                                         /\ whole[l].type = whole[j].type
    <3>1. PICK p \in 1..m : p < k /\ whole[j] = saved[p]
      <4>1. j \in 1..n \/ (j - n \in 1..m /\ j - n < k /\ j = n + (j - n))
        BY <2>9, <2>a
      <4>2. j \notin 1..n
        BY <1>1, <2>3, <2>9 DEF HasEvent
      <4>3. whole[n + (j - n)] = saved[j - n]
        BY <1>1, <4>1, <4>2
      <4> QED BY <4>1, <4>2, <4>3
    <3>2. saved[p].version < mark.version
      BY <2>3, <2>8, <3>1
    <3>3. PICK row \in ForkRows(current) : Fits(saved[p], row)
      BY <2>3
    <3>4. row # mark
      BY <1>5, <3>2, <3>3 DEF Fits, CopyOf
    <3>5. PICK l \in 1..n : log[l].stream = source /\ CopyOf(row, log[l])
      BY <1>1, <2>5, <3>3, <3>4 DEF MarkOf
    <3>6. l \in 1..last - 1 /\ whole[l] = log[l]
      BY <1>1, <1>4, <3>5 DEF last
    <3> QED BY <3>1, <3>2, <3>3, <3>5, <3>6 DEF Fits, CopyOf
  <2>10. ASSUME NEW l \in 1..last - 1, whole[l].stream = source
         PROVE  \E j \in 1..last - 1 : /\ whole[j].stream = target
                                       /\ whole[j].version = whole[l].version
                                       /\ whole[j].type = whole[l].type
    <3>1. l \in 1..n /\ whole[l] = log[l]
      <4>1. l \in 1..n \/ (l - n \in 1..m /\ l = n + (l - n))
        BY <2>10, <2>a
      <4>2. ASSUME l - n \in 1..m, l = n + (l - n) PROVE FALSE
        <5>1. whole[n + (l - n)] = saved[l - n]
          BY <1>1, <4>2
        <5>2. whole[l].stream = target
          BY <2>6, <4>2, <5>1
        <5> QED BY <2>3, <2>10, <5>2
      <4> QED BY <1>1, <4>1, <4>2
    <3>2. PICK row \in ForkRows(current) : CopyOf(row, log[l])
      BY <1>1, <2>4, <2>10, <3>1
    <3>3. row.version < mark.version
      BY <1>1, <2>5, <2>10, <3>1, <3>2 DEF MarkOf, CopyOf
    <3>4. PICK p \in 1..m : Fits(saved[p], row)
      BY <2>3
    <3>5. saved[p].version < saved[k].version
      BY <2>8, <3>3, <3>4 DEF Fits, CopyOf
    <3>6. p < k
      <4>1. ~(saved[k].version < saved[p].version) /\ p # k
        BY <1>5, <3>5
      <4>2. ~(k < p)
        BY <2>3, <4>1
      <4> QED BY <4>1, <4>2
    <3>7. n + p \in 1..last - 1 /\ whole[n + p] = saved[p]
      BY <1>1, <1>4, <3>6 DEF last
    <3> QED BY <2>6, <3>1, <3>2, <3>4, <3>7 DEF Fits, CopyOf
  <2>11. ASSUME NEW x
         PROVE  x \in EventsBefore(whole, last, target) <=> x \in EventsBefore(whole, last, source)
    <3>1. ASSUME x \in EventsBefore(whole, last, target)
          PROVE x \in EventsBefore(whole, last, source)
      <4>1. PICK j \in 1..last - 1 : whole[j].stream = target
                                  /\ x = <<whole[j].version, whole[j].type>>
        BY <3>1, InEventsBefore
      <4>2. PICK l \in 1..last - 1 : /\ whole[l].stream = source
                                  /\ whole[l].version = whole[j].version
                                  /\ whole[l].type = whole[j].type
        BY <2>9, <4>1
      <4>3. x = <<whole[l].version, whole[l].type>>
        BY <4>1, <4>2
      <4> QED BY Zenon, <4>2, <4>3, InEventsBefore
    <3>2. ASSUME x \in EventsBefore(whole, last, source)
          PROVE x \in EventsBefore(whole, last, target)
      <4>1. PICK j \in 1..last - 1 : whole[j].stream = source
                                  /\ x = <<whole[j].version, whole[j].type>>
        BY <3>2, InEventsBefore
      <4>2. PICK l \in 1..last - 1 : /\ whole[l].stream = target
                                  /\ whole[l].version = whole[j].version
                                  /\ whole[l].type = whole[j].type
        BY <2>10, <4>1
      <4>3. x = <<whole[l].version, whole[l].type>>
        BY <4>1, <4>2
      <4> QED BY Zenon, <4>2, <4>3, InEventsBefore
    <3> QED BY <3>1, <3>2
  <2>12. EventsBefore(whole, last, target) = EventsBefore(whole, last, source)
    BY <2>11 DEF EventsBefore
  <2>13. ASSUME NEW e \in EventsBefore(whole, last, target) PROVE e[1] < mark.version
    <3>2. PICK j \in 1..last - 1 : whole[j].stream = target
                                /\ e = <<whole[j].version, whole[j].type>>
      BY InEventsBefore
    <3>3. whole[j].version < mark.version
      BY <2>9, <3>2
    <3> QED BY <3>2, <3>3
  <2> QED BY <2>8, <2>12, <2>13 DEF last
<1>8. ASSUME NEW i \in 1..n + m, IsForkMarker(whole, i)
      PROVE  /\ EventsBefore(whole, i, whole[i].stream) = EventsBefore(whole, i, whole[i].arg)
             /\ \A e \in EventsBefore(whole, i, whole[i].stream) : e[1] < whole[i].version
  <2>1. CASE i \in 1..n
    BY <1>6, <1>8, <2>1
  <2>2. CASE i \notin 1..n
    <3>1. PICK k \in 1..m : i = n + k
      BY <1>4, <2>2
    <3>2. whole[i] = saved[k]
      BY <1>1, <3>1
    <3> QED BY <1>7, <1>8, <3>1, <3>2
  <2> QED BY <2>1, <2>2
<1> QED BY <1>1, <1>2, <1>8 DEF ForksArePrefixes

-----------------------------------------------------------------------------
(* While the read model is current, a creation is inserted into a stream   *)
(* without events and before all else, and any other event follows one.    *)
Orderly ==
  \A row \in todo :
    IF row.version # None THEN row.version = 0 <=> IsCreation(row.event.type)
    ELSE IF IsCreation(row.event.type)
    THEN /\ ~HasEvent(Visible, row.event.stream)
         /\ \A other \in todo : other # row => row.rank < other.rank
    ELSE \/ HasEvent(Visible, row.event.stream)
         \/ \E other \in todo : other.event.stream = row.event.stream /\ other.rank < row.rank
Creating ==
  phase = "append" /\ ~unreconciled /\ ~truncated /\ CreationsFirst(log) =>
    Orderly /\ CreationsFirst(Visible)

(* A stream that is not created has no events.                             *)
LEMMA UncreatedEmpty ==
  ASSUME log \in Seq(StoredEvent), InVersion(log), CreationsFirst(log), NEW s,
         ~CreatedIn(log, s)
  PROVE  ~HasEvent(log, s)
<1> SUFFICES ASSUME HasEvent(log, s) PROVE FALSE
  OBVIOUS
<1>1. PICK i \in DOMAIN log : log[i].stream = s /\ log[i].version = 0
  BY VersionZero
<1> QED BY <1>1 DEF CreationsFirst, CreatedIn, Creates

LEMMA CreatingBegins ==
  ASSUME TypeOK, Cursors, Delivery, ModelFinds, InVersion(log), BeginTransaction,
         ~unreconciled, ~truncated, CreationsFirst(log)
  PROVE  Orderly'
<1>1. PICK cmd : cmd = Head(queue)
  OBVIOUS
<1>2. /\ cmd \in Commands /\ phase = "idle" /\ log' = log /\ saved' = <<>>
      /\ todo' = RowsToInsert(cmd) /\ Admits(readModel, cmd) /\ log \in Seq(StoredEvent)
  <2>1. Head(queue) \in Commands
    BY DEF TypeOK, BeginTransaction, Take
  <2> QED BY <1>1, <2>1 DEF BeginTransaction, Take, Acceptable, TypeOK
<1>3. Visible' = log
  <2>1. log \o <<>> = log
    BY <1>2, ConcatEmptySeq
  <2> QED BY <1>2, <2>1 DEF Visible
<1>4. CASE cmd.type = "chat.fork"
  <2>1. HasEvent(log, cmd.source)
    <3>1. Forking'
      BY <1>1, <1>4, ForkBegins
    <3>2. phase' = "append" /\ current' = cmd
      BY <1>1 DEF BeginTransaction, Take
    <3> QED BY <1>2, <1>4, <3>1, <3>2 DEF Forking, HasEvent
  <2>2. todo' = ForkRows(cmd)
    BY <1>2, <1>4 DEF RowsToInsert
  <2>3. PICK mark : MarkOf(mark, cmd) /\ mark.version > 0
    BY <1>2, <2>1, ForkRowsAre
  <2>4. \A row \in ForkRows(cmd) : row.version \in Nat
    BY <1>2, <2>1, ForkRowsAre
  <2>5. ASSUME NEW row \in ForkRows(cmd)
        PROVE  row.version # None /\ (row.version = 0 <=> IsCreation(row.event.type))
    <3>1. CASE row = mark
      BY <2>3, <2>4, <3>1, NamesAssumption DEF MarkOf, IsCreation
    <3>2. CASE row # mark
      <4>1. PICK i \in DOMAIN log : CopyOf(row, log[i])
        BY <2>3, <3>2 DEF MarkOf
      <4> QED BY <2>4, <4>1, NamesAssumption DEF CopyOf, CreationsFirst
    <3> QED BY <3>1, <3>2
  <2> QED BY <2>2, <2>5 DEF Orderly
<1>5. CASE cmd.type # "chat.fork"
  <2> DEFINE plan == Plan(readModel, cmd)
             row(i) == [event |-> plan[i], version |-> None, rank |-> i]
  <2>1. todo' = {row(i) : i \in DOMAIN plan}
    BY <1>2, <1>5 DEF RowsToInsert
  <2>2. \A i \in DOMAIN plan : PlannedWell(readModel, plan, i)
    BY <1>2, <1>5, PlanEvents
  <2>3. plan \in Seq(PlannedEvent)
    BY <1>2, <1>5, PlanType
  <2>4. DOMAIN plan \subseteq Nat /\ (\A i \in DOMAIN plan : i > 1 => 1 \in DOMAIN plan)
        /\ \A i \in DOMAIN plan : i # 1 => 1 < i
    BY <2>3
  <2>5. \A i \in DOMAIN plan : plan[i].stream \in Streams
    <3>1. \A i \in DOMAIN plan : plan[i] \in PlannedEvent
      BY <2>3
    <3> QED BY <3>1 DEF PlannedEvent, Streams
  <2> HIDE DEF plan
  <2>6. \A i : row(i).event = plan[i] /\ row(i).version = None /\ row(i).rank = i
    OBVIOUS
  <2> HIDE DEF row
  <2>7. \A s \in Streams : Found(readModel, s) <=> CreatedIn(log, s)
    BY <1>2, ModelKnowsLog DEF Running
  <2>8. \A s \in Streams : /\ Found(readModel, s) => HasEvent(log, s)
                           /\ ~Found(readModel, s) => ~HasEvent(log, s)
    BY <1>2, <2>7, UncreatedEmpty DEF CreatedIn, Creates, HasEvent
  <2>9. ASSUME NEW i \in DOMAIN plan, IsCreation(plan[i].type)
        PROVE  ~HasEvent(log, plan[i].stream) /\ \A j \in DOMAIN plan : j # i => i < j
    BY <2>2, <2>4, <2>5, <2>8, <2>9 DEF PlannedWell
  <2>10. ASSUME NEW i \in DOMAIN plan, ~IsCreation(plan[i].type)
         PROVE  \/ HasEvent(log, plan[i].stream)
                \/ \E j \in DOMAIN plan : plan[j].stream = plan[i].stream /\ j < i
    BY <2>2, <2>4, <2>5, <2>8, <2>10 DEF PlannedWell, Creates
  <2>11. ASSUME NEW i \in DOMAIN plan, IsCreation(plan[i].type)
         PROVE  /\ ~HasEvent(log, row(i).event.stream)
                /\ \A other \in todo' : other # row(i) => row(i).rank < other.rank
    BY <2>1, <2>6, <2>9, <2>11
  <2>12. ASSUME NEW i \in DOMAIN plan, ~IsCreation(plan[i].type)
         PROVE  \/ HasEvent(log, row(i).event.stream)
                \/ \E other \in todo' : /\ other.event.stream = row(i).event.stream
                                        /\ other.rank < row(i).rank
    BY <2>1, <2>6, <2>10, <2>12
  <2>13. \A r \in todo' : \E i \in DOMAIN plan : r = row(i)
    BY <2>1
  <2>14. \A r \in todo' :
           /\ r.version = None
           /\ IsCreation(r.event.type) =>
                /\ ~HasEvent(log, r.event.stream)
                /\ \A other \in todo' : other # r => r.rank < other.rank
           /\ ~IsCreation(r.event.type) =>
                \/ HasEvent(log, r.event.stream)
                \/ \E other \in todo' : other.event.stream = r.event.stream /\ other.rank < r.rank
    BY <2>6, <2>11, <2>12, <2>13
  <2> QED BY <1>3, <2>14 DEF Orderly
<1> QED BY <1>4, <1>5

LEMMA CreatingAppends ==
  ASSUME TypeOK, AppendEvent, Orderly, CreationsFirst(Visible)
  PROVE  Orderly' /\ CreationsFirst(Visible')
<1>1. PICK row \in todo, e \in StoredEvent :
        /\ NextRow(row) /\ e.version = InsertVersion(row) /\ e.stream = row.event.stream
        /\ e.type = row.event.type
        /\ todo' = todo \ {row} /\ log' = log /\ phase = "append" /\ phase' = "append"
        /\ Visible = log \o saved /\ Visible \in Seq(StoredEvent)
        /\ Visible' = Append(Visible, e)
  BY AppendsRow
<1>2. PICK events : events = Visible
  OBVIOUS
<1> DEFINE n == Len(events)  whole == Append(events, e)
<1>3. /\ n \in Nat /\ DOMAIN events = 1..n /\ DOMAIN whole = 1..n + 1
      /\ (\A i \in 1..n : whole[i] = events[i]) /\ whole[n + 1] = e
      /\ (\A i \in 1..n + 1 : i \in 1..n \/ i = n + 1)
      /\ (\A i \in 1..n : i \in 1..n + 1) /\ n + 1 \in 1..n + 1
  BY <1>1, <1>2
<1> HIDE DEF n, whole
<1>4. \A s : HasEvent(whole, s) <=> HasEvent(events, s) \/ e.stream = s
  <2>1. \A s : HasEvent(whole, s) => HasEvent(events, s) \/ e.stream = s
    BY <1>3 DEF HasEvent
  <2>2. \A s : HasEvent(events, s) \/ e.stream = s => HasEvent(whole, s)
    BY <1>3 DEF HasEvent
  <2> QED BY <2>1, <2>2
<1>5. Visible' = whole
  BY <1>1, <1>2 DEF whole
<1>6. /\ row \in todo /\ \A other \in todo : row.rank <= other.rank /\ ~(other.rank < row.rank)
      /\ \A other \in todo : ~(row.rank < other.rank /\ other.rank < row.rank)
  <2>1. \A other \in todo : row.rank <= other.rank /\ row.rank \in Nat /\ other.rank \in Nat
    BY <1>1 DEF NextRow, TypeOK, RowToInsert
  <2> QED BY <1>1, <2>1
<1>7. e.version = 0 <=> IsCreation(e.type)
  <2>1. CASE row.version # None
    <3>1. e.version = row.version
      BY <1>1, <2>1 DEF InsertVersion
    <3> QED BY <1>1, <2>1, <3>1 DEF Orderly
  <2>2. CASE row.version = None
    <3>1. PICK next : next = NextVersion(events, e.stream)
      OBVIOUS
    <3>2. next = 0 <=> ~HasEvent(events, e.stream)
      BY Zenon, <1>1, <1>2, <3>1, NextVersionFacts
    <3>3. e.version = next
      BY <1>1, <1>2, <2>2, <3>1 DEF InsertVersion
    <3>4. IsCreation(e.type) => ~HasEvent(events, e.stream)
      BY <1>1, <1>2, <2>2 DEF Orderly
    <3>5. ~IsCreation(e.type) => HasEvent(events, e.stream)
      BY <1>1, <1>2, <1>6, <2>2 DEF Orderly
    <3> QED BY <3>2, <3>3, <3>4, <3>5
  <2> QED BY <2>1, <2>2
<1>8. CreationsFirst(whole)
  BY <1>2, <1>3, <1>7 DEF CreationsFirst
<1>9. ASSUME NEW r \in todo \ {row}
      PROVE  IF r.version # None THEN r.version = 0 <=> IsCreation(r.event.type)
             ELSE IF IsCreation(r.event.type)
             THEN /\ ~HasEvent(whole, r.event.stream)
                  /\ \A other \in todo \ {row} : other # r => r.rank < other.rank
             ELSE \/ HasEvent(whole, r.event.stream)
                  \/ \E other \in todo \ {row} :
                       other.event.stream = r.event.stream /\ other.rank < r.rank
  <2>1. CASE r.version # None
    BY <2>1 DEF Orderly
  <2>2. ASSUME r.version = None, IsCreation(r.event.type) PROVE FALSE
    <3>1. r.rank < row.rank
      BY <1>6, <2>2 DEF Orderly
    <3> QED BY <1>6, <3>1
  <2>3. CASE r.version = None /\ ~IsCreation(r.event.type)
    <3>1. \/ HasEvent(events, r.event.stream)
          \/ \E other \in todo : other.event.stream = r.event.stream /\ other.rank < r.rank
      BY <1>2, <2>3 DEF Orderly
    <3>2. \/ HasEvent(whole, r.event.stream)
          \/ \E other \in todo \ {row} :
               other.event.stream = r.event.stream /\ other.rank < r.rank
      BY <1>1, <1>4, <3>1
    <3> QED BY <2>3, <3>2
  <2> QED BY <2>1, <2>2, <2>3
<1>10. Orderly'
  BY <1>1, <1>5, <1>9 DEF Orderly
<1> QED BY <1>5, <1>8, <1>10

LEMMA CreatingKept ==
  ASSUME TypeOK, TypeOK', Cursors, Delivery, ModelFinds, Transacting, Creating, [Next]_vars
  PROVE  Creating'
<1>0. Ordered /\ InVersion(log)
  BY LogInVersion DEF Cursors, Transacting
<1>1. CASE BeginTransaction
  <2>1. /\ log' = log /\ unreconciled' = unreconciled /\ truncated' = truncated /\ saved' = <<>>
    BY <1>1 DEF BeginTransaction, Take
  <2>2. Visible' = log
    <3>1. log \o <<>> = log
      BY ConcatEmptySeq DEF TypeOK
    <3> QED BY <2>1, <3>1 DEF Visible
  <2>3. ~unreconciled /\ ~truncated /\ CreationsFirst(log) => Orderly'
    BY <1>0, <1>1, CreatingBegins
  <2> QED BY <2>1, <2>2, <2>3 DEF Creating
<1>2. CASE AppendEvent
  <2>1. /\ log' = log /\ unreconciled' = unreconciled /\ truncated' = truncated
        /\ phase = "append"
    BY <1>2 DEF AppendEvent
  <2> QED BY <1>2, <2>1, CreatingAppends DEF Creating
<1>3. ASSUME \/ phase' # "append"
             \/ /\ phase' = phase /\ log' = log /\ saved' = saved /\ todo' = todo
                /\ unreconciled' = unreconciled /\ truncated' = truncated
      PROVE  Creating'
  <2>1. CASE phase' # "append"
    BY <2>1 DEF Creating
  <2>2. CASE phase' = "append"
    <3>1. Visible' = Visible
      BY <1>3, <2>2 DEF Visible
    <3> QED BY <1>3, <2>2, <3>1 DEF Creating, Orderly
  <2> QED BY <2>1, <2>2
<1>4. CASE Startup
  BY <1>3, <1>4 DEF Startup, StartServer, BootstrapEvent, BootstrapNext, LoadSnapshot
<1>5. CASE Client \/ ReplayReceipt \/ UNCHANGED vars
  BY <1>3, <1>5 DEF Client, Redispatch, Dispatch, Enqueue, ReplayReceipt, vars
<1>6. CASE \/ BreakInvariant \/ FailLookup \/ ViolateUnique \/ FailTransaction
           \/ CommitAcknowledged \/ CommitUnacknowledged
  BY <1>3, <1>6 DEF BreakInvariant, FailLookup, ViolateUnique, FailTransaction, Rollback,
     CommitAcknowledged, CommitUnacknowledged
<1>7. CASE Reconcile \/ FailReconcile \/ PublishEvent \/ RecordRejection \/ AnswerClient \/ Crash
  BY <1>3, <1>7 DEF Reconcile, FailReconcile, PublishEvent, RecordRejection, AnswerClient, Crash
<1> QED BY <1>1, <1>2, <1>4, <1>5, <1>6, <1>7 DEF Next, Process, StorageFailure

-----------------------------------------------------------------------------
(* Only a commit changes the log.                                          *)
LEMMA LogChanges ==
  ASSUME [Next]_vars
  PROVE  log' = log \/ Commit
<1>1. CASE Startup \/ Client \/ Crash \/ UNCHANGED vars
  BY <1>1 DEF Startup, StartServer, BootstrapEvent, BootstrapNext, LoadSnapshot,
     Client, Redispatch, Dispatch, Enqueue, Crash, vars
<1>2. CASE CommitAcknowledged \/ CommitUnacknowledged
  BY <1>2 DEF CommitAcknowledged, CommitUnacknowledged
<1>3. CASE \/ ReplayReceipt \/ BeginTransaction \/ BreakInvariant \/ FailLookup \/ AppendEvent
           \/ ViolateUnique \/ FailTransaction
  BY <1>3 DEF ReplayReceipt, BeginTransaction, BreakInvariant, FailLookup, Take, AppendEvent,
     ViolateUnique, FailTransaction, Rollback
<1>4. CASE Reconcile \/ FailReconcile \/ PublishEvent \/ RecordRejection \/ AnswerClient
  BY <1>4 DEF Reconcile, FailReconcile, PublishEvent, RecordRejection, AnswerClient
<1> QED BY <1>1, <1>2, <1>3, <1>4 DEF Next, Process, StorageFailure

LEMMA TransactingReachable ==
  Spec => [](TypeOK /\ Working /\ Cursors /\ Delivery /\ Existence /\ Transacting /\ Creating)
<1>1. Init => Transacting /\ Creating
  <2> SUFFICES ASSUME Init PROVE Transacting /\ Creating
    OBVIOUS
  <2>1. InitialLog \in Seq(StoredEvent) /\ InVersion(InitialLog)
    BY InitialLogAssumption
  <2>2. Visible = InitialLog
    BY <2>1, ConcatEmptySeq DEF Init, Visible
  <2> QED BY <2>1, <2>2 DEF Init, Transacting, Versioned, NotForking, Forking, Creating
<1>2. /\ TypeOK /\ Working /\ Cursors /\ Delivery /\ Existence /\ Transacting /\ Creating
      /\ [Next]_vars /\ TypeOK'
      => Transacting' /\ Creating'
  BY TransactingKept, CreatingKept DEF Existence, Cursors
<1> QED BY <1>1, <1>2, ExistenceReachable, PTL DEF Spec

(* A current read model admits a creation only of what the log does not    *)
(* have, and anything else only of what it has: no second creation, and    *)
(* nothing before the first, although the decider never reads the log.     *)
THEOREM CreationsComeFirst == Spec => CreatedFirstAndOnce
<1>1. /\ TypeOK /\ Cursors /\ Creating /\ [Next]_vars
      => (~unreconciled /\ ~truncated /\ CreationsFirst(log) => CreationsFirst(log'))
  <2> SUFFICES ASSUME TypeOK, Creating, [Next]_vars, ~unreconciled, ~truncated,
                      CreationsFirst(log), log' # log
               PROVE  CreationsFirst(log')
    OBVIOUS
  <2>1. phase = "append" /\ log' = Visible
    BY LogChanges DEF Commit, Visible
  <2> QED BY <2>1 DEF Creating
<1>2. /\ TypeOK /\ Cursors /\ Creating /\ [Next]_vars
      => [~unreconciled /\ ~truncated /\ CreationsFirst(log) => CreationsFirst(log')]_vars
  BY <1>1
<1> QED BY <1>2, TransactingReachable, PTL DEF Spec, CreatedFirstAndOnce

(* A fork holds its source as it was when the fork was stored, whatever    *)
(* the source became later, through rollbacks, restarts and forks of forks.*)
THEOREM ForksCopyTheirSource == Spec => []ForkIsPrefixOfSource
<1>1. Init => ForksArePrefixes(log)
  BY InitialLogAssumption DEF Init
<1>2. /\ TypeOK /\ Working /\ Cursors /\ Transacting /\ ForksArePrefixes(log) /\ [Next]_vars
      => ForksArePrefixes(log)'
  <2> SUFFICES ASSUME TypeOK, Working, Cursors, Transacting, ForksArePrefixes(log), [Next]_vars
               PROVE  ForksArePrefixes(log')
    OBVIOUS
  <2>1. CASE log' = log
    BY <2>1
  <2>2. CASE Commit
    BY <2>2, ForkCommits DEF Cursors
  <2> QED BY <2>1, <2>2, LogChanges
<1>3. ForksArePrefixes(log) => ForkIsPrefixOfSource
  BY DEF ForkIsPrefixOfSource
<1> QED BY <1>1, <1>2, <1>3, TransactingReachable, PTL DEF Spec

-----------------------------------------------------------------------------
(* Two ways to write one fold.  A record x keeps the intermediate results  *)
(* of the one; the other goes through the same.                            *)
Retraces(x, k, acc) == acc = x.through[1..k]

RecordedRows == INSTANCE FoldLaws WITH Op <- RecordedStep, P <- Retraces
EarlierRows == INSTANCE FoldLaws WITH Op <- EarlierStep, P <- Retraces
NowStep(x, acc, e) == ApplyEventNow(acc, e)
NowRows == INSTANCE FoldLaws WITH Op <- NowStep, P <- Retraces

LEMMA RecordedRowsLeast == RecordedRows!LeastMembers
BY LeastNatural DEF RecordedRows!LeastMembers

LEMMA EarlierRowsLeast == EarlierRows!LeastMembers
BY LeastNatural DEF EarlierRows!LeastMembers

LEMMA NowRowsLeast == NowRows!LeastMembers
BY LeastNatural DEF NowRows!LeastMembers

LEMMA RetracingFolds ==
  /\ \A x, rows : RecordedRows!Fold(x, rows, Projectors) = ApplyWhatIsRecorded(rows, x.event)
  /\ \A x, rows, events :
       EarlierRows!Fold(x, rows, events) = FoldLeft(ApplyWhatIsRecorded, rows, events)
  /\ \A x, rows, events : NowRows!Fold(x, rows, events) = FoldLeft(ApplyEventNow, rows, events)
<1>1. \A x, rows : RecordedRows!Fold(x, rows, Projectors) = ApplyWhatIsRecorded(rows, x.event)
  BY Zenon DEF RecordedRows!Fold, RecordedRows!Greatest, FoldLeft, MapThenFoldSet,
               Max, RecordedStep, ApplyWhatIsRecorded
<1>2. \A x, rows, events :
        EarlierRows!Fold(x, rows, events) = FoldLeft(ApplyWhatIsRecorded, rows, events)
  BY Zenon DEF EarlierRows!Fold, EarlierRows!Greatest, FoldLeft, MapThenFoldSet, Max, EarlierStep
<1>3. \A x, rows, events : NowRows!Fold(x, rows, events) = FoldLeft(ApplyEventNow, rows, events)
  BY Zenon DEF NowRows!Fold, NowRows!Greatest, FoldLeft, MapThenFoldSet, Max, NowStep
<1> QED BY <1>1, <1>2, <1>3

LEMMA NowIsApply == \A rows, e : ApplyEventNow(rows, e) = ApplyEvent(rows, e)
<1>1. ASSUME NEW rows, NEW e PROVE ApplyEventNow(rows, e) = ApplyEvent(rows, e)
  <2>1. PICK next : next = ApplyEvent(rows, e)
    OBVIOUS
  <2>2. {ApplyEvent(r, e) : r \in {rows}} = {next}
    BY <2>1
  <2>3. ApplyEventNow(rows, e) = CHOOSE after \in {next} : TRUE
    BY Zenon, <2>2 DEF ApplyEventNow
  <2> QED BY <2>1, <2>3
<1> QED BY <1>1

LEMMA RecordedIsApply ==
  ASSUME NEW rows, NEW e, \A p \in ProjectorSet : e.sequence <= InitialApplied[p]
  PROVE  ApplyWhatIsRecorded(rows, e) = ApplyEvent(rows, e)
<1>1. PICK y : y = [event |-> e]
  OBVIOUS
<1>2. Len(Projectors) = 9 /\ DOMAIN Projectors = 1..9 /\ 9 \in Nat
        /\ Projectors \in Seq(ProjectorSet)
  BY ProjectorsType, ProjectorNames
<1>a. PICK n \in Nat : n = 9
  BY <1>2
<1>b. DOMAIN Projectors = 1..n
  BY <1>2, <1>a
<1>c. PICK it : RowsFold!Steps(y, rows, Projectors, n, it)
                /\ RowsFold!Fold(y, rows, Projectors) = it[1..n]
  BY <1>b, RowsFoldIterates
<1>3. RowsFold!Steps(y, rows, Projectors, 9, it) /\ RowsFold!Fold(y, rows, Projectors) = it[1..9]
  BY <1>a, <1>c
<1>4. it[1..0] = rows /\ \A k \in 1..9 : it[1..k] = RowsStep(y, it[1..k - 1], Projectors[k])
  BY <1>3 DEF RowsFold!Steps
<1>5. PICK x : x = [event |-> e, through |-> it]
  OBVIOUS
<1>6. x.event = e /\ x.through = it /\ y.event = e
  BY <1>1, <1>5
<1>7. Retraces(x, 0, rows)
  BY <1>4, <1>6 DEF Retraces
<1>8. ASSUME NEW k \in 1..Len(Projectors), NEW acc, Retraces(x, k - 1, acc)
      PROVE  Retraces(x, k, RecordedStep(x, acc, Projectors[k]))
  <2>1. k \in 1..9 /\ e.sequence <= InitialApplied[Projectors[k]]
    BY <1>2, ProjectorNames
  <2>2. RecordedStep(x, acc, Projectors[k]) = ApplyProjector(Projectors[k], acc, e)
    BY Zenon, <1>6, <2>1 DEF RecordedStep
  <2>3. it[1..k] = ApplyProjector(Projectors[k], it[1..k - 1], e)
    BY Zenon, <1>4, <1>6, <2>1 DEF RowsStep
  <2>4. acc = it[1..k - 1]
    BY Zenon, <1>6, <1>8 DEF Retraces
  <2>5. RecordedStep(x, acc, Projectors[k]) = it[1..k]
    BY Zenon, <2>2, <2>3, <2>4
  <2> QED BY Zenon, <1>6, <2>5 DEF Retraces
<1>9. Retraces(x, Len(Projectors), RecordedRows!Fold(x, rows, Projectors))
  BY Zenon, <1>2, <1>7, <1>8, RecordedRowsLeast, RecordedRows!FoldInvariant
<1>10. ApplyWhatIsRecorded(rows, e) = it[1..9]
  BY Zenon, <1>2, <1>6, <1>9, RetracingFolds DEF Retraces
<1>11. ApplyEvent(rows, e) = it[1..9]
  BY Zenon, <1>3, <1>6, RowsFoldIsFold
<1> QED BY Zenon, <1>10, <1>11

LEMMA TablesFoldIterates ==
  ASSUME NEW x, NEW base, NEW s, NEW n \in Nat, DOMAIN s = 1..n
  PROVE  \E it : TablesFold!Steps(x, base, s, n, it) /\ TablesFold!Fold(x, base, s) = it[1..n]
<1>1. TablesFold!Iterated(x, base, s, n)
  BY Zenon, TablesFoldLeast, TablesFold!FoldIterates
<1> QED BY Zenon, <1>1 DEF TablesFold!Iterated

LEMMA TablesConcat ==
  ASSUME NEW first \in Seq(StoredEvent), NEW more \in Seq(StoredEvent)
  PROVE  TablesFold!Fold(0, EmptyTables, first \o more)
           = TablesFold!Fold(0, TablesFold!Fold(0, EmptyTables, first), more)
<1>1. PICK S : S = StoredEvent
  OBVIOUS
<1>2. PICK base : base = EmptyTables
  OBVIOUS
<1>3. first \in Seq(S) /\ more \in Seq(S)
  BY <1>1
<1>4. TablesFold!Fold(0, base, first \o more)
        = TablesFold!Fold(0, TablesFold!Fold(0, base, first), more)
  BY <1>3, TablesFoldLeast, TablesFold!FoldConcat
<1> QED BY Zenon, <1>2, <1>4

LEMMA RecordedIsApplied ==
  ASSUME \A p \in ProjectorSet : InitialApplied[p] = LastSequence(InitialLog)
  PROVE  FoldLeft(ApplyWhatIsRecorded, EmptyTables, InitialLog)
           = FoldLeft(ApplyEvent, EmptyTables, InitialLog)
<1>0. PICK events \in Seq(StoredEvent) : events = InitialLog
  BY InitialLogAssumption
<1> DEFINE n == Len(events)
<1>1. /\ events \in Seq(StoredEvent) /\ InSequence(events)
      /\ n \in Nat /\ DOMAIN events = 1..n
  BY <1>0, InitialLogAssumption
<1>b. n = Len(events)
  OBVIOUS
<1> HIDE DEF n
<1>c. n \in Nat /\ DOMAIN events = 1..n
  BY Zenon, <1>1
<1>2. PICK it : TablesFold!Steps(0, EmptyTables, events, n, it)
                /\ TablesFold!Fold(0, EmptyTables, events) = it[1..n]
  BY <1>c, TablesFoldIterates
<1>3. /\ it[1..0] = EmptyTables
      /\ \A k \in 1..n : it[1..k] = TablesStep(0, it[1..k - 1], events[k])
  BY <1>2 DEF TablesFold!Steps
<1>4. PICK x : x = [through |-> it]
  OBVIOUS
<1>5. x.through = it
  BY <1>4
<1>6. Retraces(x, 0, EmptyTables)
  BY <1>3, <1>5 DEF Retraces
<1>7. \A k \in 1..n : events[k].sequence <= LastSequence(events)
  <2>1. TAKE k \in 1..n
  <2>2. Below(events, LastSequence(events) + 1)
    BY <1>1, BelowNext
  <2>3. events[k].sequence < LastSequence(events) + 1
    BY <1>1, <2>2 DEF Below
  <2>4. events[k].sequence \in Nat /\ LastSequence(events) \in Nat
    <3>1. events[k] \in StoredEvent
      BY <1>1
    <3> QED BY <1>1, <3>1, LastSequenceType DEF StoredEvent
  <2> QED BY <2>3, <2>4
<1>8. ASSUME NEW k \in 1..Len(events), NEW acc, Retraces(x, k - 1, acc)
      PROVE  Retraces(x, k, EarlierStep(x, acc, events[k]))
  <2>1. k \in 1..n
    BY <1>8 DEF n
  <2>2. \A p \in ProjectorSet : events[k].sequence <= InitialApplied[p]
    BY <1>0, <1>7, <2>1
  <2>3. EarlierStep(x, acc, events[k]) = ApplyEvent(acc, events[k])
    BY Zenon, <2>2, RecordedIsApply DEF EarlierStep
  <2>4. it[1..k] = ApplyEvent(it[1..k - 1], events[k])
    BY Zenon, <1>3, <2>1 DEF TablesStep
  <2>5. acc = it[1..k - 1]
    BY Zenon, <1>5, <1>8 DEF Retraces
  <2>6. EarlierStep(x, acc, events[k]) = it[1..k]
    BY Zenon, <2>3, <2>4, <2>5
  <2> QED BY Zenon, <1>5, <2>6 DEF Retraces
<1>9. Retraces(x, Len(events), EarlierRows!Fold(x, EmptyTables, events))
  BY Zenon, <1>1, <1>6, <1>8, EarlierRowsLeast, EarlierRows!FoldInvariant
<1>10. FoldLeft(ApplyWhatIsRecorded, EmptyTables, events) = it[1..n]
  BY Zenon, <1>5, <1>9, RetracingFolds DEF Retraces, n
<1>11. FoldLeft(ApplyEvent, EmptyTables, events) = it[1..n]
  BY Zenon, <1>2, TablesFoldIsFold
<1> QED BY Zenon, <1>0, <1>10, <1>11

LEMMA NowIsApplied ==
  ASSUME NEW events \in Seq(StoredEvent)
  PROVE  FoldLeft(ApplyEventNow, EmptyTables, events) = FoldLeft(ApplyEvent, EmptyTables, events)
<1> DEFINE n == Len(events)
<1>1. n \in Nat /\ DOMAIN events = 1..n
  OBVIOUS
<1> HIDE DEF n
<1>2. PICK it : TablesFold!Steps(0, EmptyTables, events, n, it)
                /\ TablesFold!Fold(0, EmptyTables, events) = it[1..n]
  BY Zenon, <1>1, TablesFoldIterates
<1>3. /\ it[1..0] = EmptyTables
      /\ \A k \in 1..n : it[1..k] = TablesStep(0, it[1..k - 1], events[k])
  BY <1>2 DEF TablesFold!Steps
<1>4. PICK x : x = [through |-> it]
  OBVIOUS
<1>5. x.through = it
  BY <1>4
<1>6. Retraces(x, 0, EmptyTables)
  BY <1>3, <1>5 DEF Retraces
<1>7. ASSUME NEW k \in 1..Len(events), NEW acc, Retraces(x, k - 1, acc)
      PROVE  Retraces(x, k, NowStep(x, acc, events[k]))
  <2>1. k \in 1..n
    BY <1>7 DEF n
  <2>2. NowStep(x, acc, events[k]) = ApplyEvent(acc, events[k])
    BY Zenon, NowIsApply DEF NowStep
  <2>3. it[1..k] = ApplyEvent(it[1..k - 1], events[k])
    BY Zenon, <1>3, <2>1 DEF TablesStep
  <2>4. acc = it[1..k - 1]
    BY Zenon, <1>5, <1>7 DEF Retraces
  <2>5. NowStep(x, acc, events[k]) = it[1..k]
    BY Zenon, <2>2, <2>3, <2>4
  <2> QED BY Zenon, <1>5, <2>5 DEF Retraces
<1>8. Retraces(x, Len(events), NowRows!Fold(x, EmptyTables, events))
  BY Zenon, <1>6, <1>7, NowRowsLeast, NowRows!FoldInvariant
<1>9. FoldLeft(ApplyEventNow, EmptyTables, events) = it[1..n]
  BY Zenon, <1>5, <1>8, RetracingFolds DEF Retraces, n
<1>10. FoldLeft(ApplyEvent, EmptyTables, events) = it[1..n]
  BY Zenon, <1>2, TablesFoldIsFold
<1> QED BY Zenon, <1>9, <1>10

-----------------------------------------------------------------------------
(* Started on a database whose projectors are all caught up, the server    *)
(* never finds a backlog, and the tables follow the log commit by commit.  *)
Following ==
  /\ tables = FoldLeft(ApplyEvent, EmptyTables, log)
  /\ \A p \in ProjectorSet : applied[p] = LastSequence(log)
  /\ phase = "bootstrap" => replay = <<>>

LEMMA NoBacklog ==
  ASSUME TypeOK, Ordered, \A p \in ProjectorSet : applied[p] = LastSequence(log),
         NEW q \in 1..9
  PROVE  Backlog(q) = <<>>
<1>1. log \in Seq(StoredEvent) /\ InSequence(log) /\ Len(log) \in Nat /\ Len(log) \in 0..Len(log)
  <2>1. log \in Seq(StoredEvent) /\ InSequence(log)
    BY VisibleLog
  <2> QED BY <2>1
<1>2. applied[Projectors[q]] = SeqAt(log, Len(log))
  BY <1>1, ProjectorNames, LastIsSeqAt
<1>3. PICK m \in Len(log)..Len(log) :
            ReadFromSequence(SeqAt(log, Len(log))) = Slice(log, Len(log), m)
  BY <1>1, ReadFromCursor
<1>4. m = Len(log) /\ m \in Nat /\ m <= Len(log) /\ Len(log) <= m
  BY <1>1
<1>5. Slice(log, Len(log), m) = <<>>
  BY <1>1, <1>4, SliceEmpty
<1> QED BY <1>2, <1>3, <1>5 DEF Backlog

LEMMA FollowingKept ==
  ASSUME TypeOK, TypeOK', Working, Ordered, Following, [Next]_vars
  PROVE  Following'
<1>1. CASE Commit
  <2>1. /\ Last(saved).sequence = LastSequence(log') /\ log' = log \o saved
        /\ saved \in Seq(StoredEvent) /\ log \in Seq(StoredEvent) /\ phase = "append"
    BY <1>1, CommitLast DEF TypeOK, Commit
  <2>2. \A p \in ProjectorSet : applied'[p] = LastSequence(log')
    BY <1>1, <2>1 DEF Commit
  <2>3. TablesFold!Fold(0, EmptyTables, log \o saved)
          = TablesFold!Fold(0, TablesFold!Fold(0, EmptyTables, log), saved)
    <3>1. PICK first \in Seq(StoredEvent), more \in Seq(StoredEvent) : first = log /\ more = saved
      BY <2>1
    <3>2. TablesFold!Fold(0, EmptyTables, first \o more)
            = TablesFold!Fold(0, TablesFold!Fold(0, EmptyTables, first), more)
      BY Zenon, TablesConcat
    <3> QED BY Zenon, <3>1, <3>2
  <2>4. PICK before, after : before = FoldLeft(ApplyEvent, EmptyTables, log)
                             /\ after = FoldLeft(ApplyEvent, before, saved)
    OBVIOUS
  <2>5. FoldLeft(ApplyEvent, EmptyTables, log \o saved) = after
    BY Zenon, <2>3, <2>4, TablesFoldIsFold
  <2>6. tables = before
    BY Zenon, <2>4 DEF Following
  <2>7. tables' = FoldLeft(ApplyEvent, tables, saved)
    BY Zenon, <1>1 DEF Commit
  <2>8. tables' = after
    BY Zenon, <2>4, <2>6, <2>7
  <2>9. phase' # "bootstrap"
    BY <2>1 DEF Next, Startup, StartServer, BootstrapEvent, BootstrapNext, LoadSnapshot,
       Process, StorageFailure, Client, Redispatch, Dispatch, Enqueue, ReplayReceipt,
       BeginTransaction, BreakInvariant, FailLookup, Take, AppendEvent, ViolateUnique,
       FailTransaction, Rollback, CommitAcknowledged, CommitUnacknowledged,
       Reconcile, FailReconcile, PublishEvent, RecordRejection, AnswerClient, Crash, vars
  <2>10. (tables = FoldLeft(ApplyEvent, EmptyTables, log))'
    BY Zenon, <2>1, <2>5, <2>8
  <2> QED BY <2>2, <2>9, <2>10 DEF Following
<1>2. ASSUME log' = log, tables' = tables, applied' = applied,
              phase' = "bootstrap" => replay' = <<>>
      PROVE  Following'
  <2>1. (tables = FoldLeft(ApplyEvent, EmptyTables, log))'
    BY Zenon, <1>2 DEF Following
  <2> QED BY <1>2, <2>1 DEF Following
<1>3. CASE StartServer
  <2>1. Backlog(1) = <<>>
    BY NoBacklog DEF Following
  <2> QED BY <1>2, <1>3, <2>1 DEF StartServer
<1>4. CASE BootstrapNext
  <2>1. projector \in 1..9 /\ projector < 9
    BY <1>4, ProjectorNames DEF BootstrapNext, TypeOK
  <2>2. projector + 1 \in 1..9
    BY <2>1
  <2>3. Backlog(projector + 1) = <<>>
    BY <2>2, NoBacklog DEF Following
  <2> QED BY <1>2, <1>4, <2>3 DEF BootstrapNext
<1>5. CASE BootstrapEvent
  BY <1>5 DEF BootstrapEvent, Following
<1>6. CASE LoadSnapshot \/ Crash
  BY <1>2, <1>6 DEF LoadSnapshot, Crash
<1>7. CASE Client \/ UNCHANGED vars
  <2>1. /\ log' = log /\ tables' = tables /\ applied' = applied /\ phase' = phase
        /\ replay' = replay
    BY <1>7 DEF Client, Redispatch, Dispatch, Enqueue, vars
  <2> QED BY <1>2, <2>1 DEF Following
<1>8. CASE \/ ReplayReceipt \/ BeginTransaction \/ BreakInvariant \/ FailLookup \/ AppendEvent
           \/ ViolateUnique \/ FailTransaction
  <2>1. log' = log /\ tables' = tables /\ applied' = applied /\ phase' # "bootstrap"
    BY <1>8 DEF ReplayReceipt, BeginTransaction, BreakInvariant, FailLookup, Take, AppendEvent,
       ViolateUnique, FailTransaction, Rollback
  <2> QED BY <1>2, <2>1
<1>9. CASE Reconcile \/ FailReconcile \/ PublishEvent \/ RecordRejection \/ AnswerClient
  <2>1. log' = log /\ tables' = tables /\ applied' = applied /\ phase' # "bootstrap"
    BY <1>9 DEF Reconcile, FailReconcile, PublishEvent, RecordRejection, AnswerClient
  <2> QED BY <1>2, <2>1
<1>10. CASE CommitAcknowledged \/ CommitUnacknowledged
  BY <1>1, <1>10 DEF CommitAcknowledged, CommitUnacknowledged
<1> QED BY <1>3, <1>4, <1>5, <1>6, <1>7, <1>8, <1>9, <1>10
        DEF Next, Startup, Process, StorageFailure

(* A database that a server left between two commands has its projectors   *)
(* caught up; from there on, through rollbacks, crashes, commits that      *)
(* nobody saw and restarts, the tables are the projection of the log.      *)
THEOREM TablesFollowTheLog ==
  ASSUME \A p \in ProjectorSet : InitialApplied[p] = LastSequence(InitialLog)
  PROVE  Spec => []TablesAreProjectionOfLog
<1>1. Init => Following
  <2> SUFFICES ASSUME Init PROVE Following
    OBVIOUS
  <2>1. tables = FoldLeft(ApplyWhatIsRecorded, EmptyTables, InitialLog) /\ log = InitialLog
    BY Zenon DEF Init
  <2>2. tables = FoldLeft(ApplyEvent, EmptyTables, log)
    BY Zenon, <2>1, RecordedIsApplied
  <2>3. \A p \in ProjectorSet : applied[p] = LastSequence(log)
    BY DEF Init
  <2>4. phase # "bootstrap"
    BY DEF Init
  <2> QED BY Zenon, <2>2, <2>3, <2>4 DEF Following
<1>2. TypeOK /\ TypeOK' /\ Working /\ Cursors /\ Following /\ [Next]_vars => Following'
  BY FollowingKept DEF Cursors
<1>3. TypeOK /\ Following => TablesAreProjectionOfLog
  <2> SUFFICES ASSUME TypeOK, Following
               PROVE  tables = FoldLeft(ApplyEventNow, EmptyTables, log)
    BY Zenon DEF TablesAreProjectionOfLog
  <2>1. log \in Seq(StoredEvent)
    BY DEF TypeOK
  <2> QED BY Zenon, <2>1, NowIsApplied DEF Following
<1> QED BY <1>1, <1>2, <1>3, CursorsReachable, PTL DEF Spec
=============================================================================
