----------------------- MODULE OrchestrationTablesProofs -----------------------
(***************************************************************************)
(* What the engine keeps twice, in the read model and in the tables, for   *)
(* every set of commands, projects and threads, every initial log, and     *)
(* every bound: that a command leaves the rows of other threads alone,     *)
(* that a restart changes no verdict, and, where no turn runs, that the    *)
(* read model is what would be read back from the tables.                  *)
(***************************************************************************)
EXTENDS OrchestrationEngineProofs

USE DEF durable, boot, memory, work, outbox, clients, counters, RejectsForGood

-----------------------------------------------------------------------------
(* A command leaves the rows of other threads alone: filtering a table,    *)
(* what each projector keeps of the rows of the threads other than the     *)
(* event's, the same of a transaction's events one after another, and the  *)
(* invariant HomedState this needs, that every row of an item lies under   *)
(* the thread its id belongs to.                                           *)
(*                                                                         *)
(* What is so at first, and stays so at every step, is so at the end.      *)
LEMMA Climb ==
  ASSUME NEW n \in Nat, NEW good, 0 \in good, \A k \in 1..n : k - 1 \in good => k \in good
  PROVE  n \in good
<1> DEFINE Bad == {k \in 0..n : k \notin good}
<1> SUFFICES ASSUME n \notin good PROVE FALSE
  OBVIOUS
<1>0. Bad # {}
  OBVIOUS
<1>1. PICK k \in Bad : \A j \in Bad : k <= j
  <2>1. Bad \in SUBSET Nat
    OBVIOUS
  <2> QED BY <1>0, <2>1, LeastNatural
<1>2. k \in 1..n /\ k - 1 \in 0..n /\ ~(k <= k - 1)
  BY <1>1
<1>3. k - 1 \in good
  BY <1>1, <1>2
<1> QED BY <1>1, <1>2, <1>3

LEMMA SameSteps ==
  ASSUME NEW n \in Nat, NEW f, NEW g, f[1..0] = g[1..0],
         \A k \in 1..n : f[1..k - 1] = g[1..k - 1] => f[1..k] = g[1..k]
  PROVE  f[1..n] = g[1..n]
<1> DEFINE good == {k \in 0..n : f[1..k] = g[1..k]}
<1>1. 0 \in good
  OBVIOUS
<1>2. ASSUME NEW k \in 1..n, k - 1 \in good PROVE k \in good
  <2>1. k \in 0..n /\ f[1..k - 1] = g[1..k - 1]
    BY <1>2
  <2> QED BY Zenon, <2>1
<1>3. n \in good
  <2> HIDE DEF good
  <2> QED BY Zenon, <1>1, <1>2, Climb
<1> QED BY Zenon, <1>3

-----------------------------------------------------------------------------
(* Messages that meet a condition: those of x.thread, those with an id in  *)
(* x.kept, or all but those of x.thread that are not in x.kept.            *)
Passes(x, m) ==
  IF x.by = "thread" THEN m.thread = x.thread
  ELSE IF x.by = "id" THEN m.id \in x.kept
  ELSE m.thread # x.thread \/ m \in x.kept
FilterStep(x, acc, m) == IF Passes(x, m) THEN Append(acc, m) ELSE acc
FilterClaim(x, k, acc) == TRUE
FilterFold == INSTANCE FoldLaws WITH Op <- FilterStep, P <- FilterClaim
Filtered(x, messages) == FilterFold!Fold(x, <<>>, messages)

LEMMA FilterFoldLeast == FilterFold!LeastMembers
BY LeastNatural DEF FilterFold!LeastMembers

LEMMA FilterFoldIterates ==
  ASSUME NEW x, NEW base, NEW s, NEW n \in Nat, DOMAIN s = 1..n
  PROVE  \E it : FilterFold!Steps(x, base, s, n, it) /\ FilterFold!Fold(x, base, s) = it[1..n]
<1>1. FilterFold!Iterated(x, base, s, n)
  BY Zenon, FilterFoldLeast, FilterFold!FoldIterates
<1> QED BY Zenon, <1>1 DEF FilterFold!Iterated

OnlyOf(t) == [by |-> "thread", thread |-> t, kept |-> {}]
AllBut(t, kept) == [by |-> "row", thread |-> t, kept |-> kept]
WithIds(ids) == [by |-> "id", thread |-> None, kept |-> ids]
MessagesOf(messages, t) == Where(messages, LAMBDA m : m.thread = t)

Rest(messages, t, kept) == Where(messages, LAMBDA m : m.thread # t \/ m \in kept)

LEMMA FilterIterates ==
  ASSUME NEW x, NEW S, NEW s \in Seq(S)
  PROVE  \E it : /\ it[1..0] = <<>>
                 /\ \A k \in 1..Len(s) : it[1..k] = FilterStep(x, it[1..k - 1], s[k])
                 /\ Filtered(x, s) = it[1..Len(s)]
<1>1. PICK n \in Nat : n = Len(s) /\ DOMAIN s = 1..n
  OBVIOUS
<1>2. PICK it : FilterFold!Steps(x, <<>>, s, n, it) /\ FilterFold!Fold(x, <<>>, s) = it[1..n]
  BY <1>1, FilterFoldIterates
<1>3. it[1..0] = <<>> /\ \A k \in 1..n : it[1..k] = FilterStep(x, it[1..k - 1], s[k])
  BY Zenon, <1>2 DEF FilterFold!Steps
<1> QED BY Zenon, <1>1, <1>2, <1>3 DEF Filtered

LEMMA FilteredAppend ==
  ASSUME NEW x, NEW S, NEW s \in Seq(S), NEW m \in S
  PROVE  Filtered(x, Append(s, m)) = FilterStep(x, Filtered(x, s), m)
<1>0. <<m>> \in Seq(S) /\ Append(s, m) = s \o <<m>>
  OBVIOUS
<1>1. PICK t \in Seq(S) : t = <<m>> /\ Append(s, m) = s \o t
  BY Zenon, <1>0
<1>2. PICK base : base = <<>>
  OBVIOUS
<1>3. FilterFold!Fold(x, base, s \o t) = FilterFold!Fold(x, FilterFold!Fold(x, base, s), t)
  BY FilterFoldLeast, FilterFold!FoldConcat
<1>4. \A b : FilterFold!Fold(x, b, <<m>>) = FilterStep(x, b, m)
  BY FilterFoldLeast, FilterFold!FoldOne
<1> QED BY Zenon, <1>1, <1>2, <1>3, <1>4 DEF Filtered

(* The rows found are the rows of the table that pass.                     *)
PassingRows(x, S, s, f) ==
  /\ f \in Seq(S)
  /\ \A i \in DOMAIN f : Passes(x, f[i]) /\ \E j \in DOMAIN s : f[i] = s[j]
  /\ \A j \in DOMAIN s : Passes(x, s[j]) => \E i \in DOMAIN f : f[i] = s[j]

LEMMA FilteredRows ==
  ASSUME NEW x, NEW S, NEW s \in Seq(S)
  PROVE  PassingRows(x, S, s, Filtered(x, s))
<1>1. PICK it : /\ it[1..0] = <<>>
                /\ \A k \in 1..Len(s) : it[1..k] = FilterStep(x, it[1..k - 1], s[k])
                /\ Filtered(x, s) = it[1..Len(s)]
  BY Zenon, FilterIterates
<1> DEFINE Sound(f) == /\ f \in Seq(S)
                       /\ \A i \in DOMAIN f : Passes(x, f[i]) /\ \E j \in DOMAIN s : f[i] = s[j]
           Full(k, f) == \A j \in 1..k : Passes(x, s[j]) => \E i \in DOMAIN f : f[i] = s[j]
           good == {k \in 0..Len(s) : Sound(it[1..k]) /\ Full(k, it[1..k])}
<1>2. Len(s) \in Nat /\ DOMAIN s = 1..Len(s) /\ \A j \in DOMAIN s : s[j] \in S
  OBVIOUS
<1>3. Sound(<<>>) /\ Full(0, <<>>)
  OBVIOUS
<1>4. ASSUME NEW f, Sound(f), NEW k \in 1..Len(s), Full(k - 1, f)
      PROVE  Sound(FilterStep(x, f, s[k])) /\ Full(k, FilterStep(x, f, s[k]))
  <2>0. k \in DOMAIN s /\ s[k] \in S /\ \A j \in 1..k : j \in 1..k - 1 \/ j = k
    BY <1>2
  <2>1. CASE Passes(x, s[k])
    <3>1. PICK g : g = Append(f, s[k])
      OBVIOUS
    <3>2. /\ g \in Seq(S) /\ Len(g) = Len(f) + 1 /\ Len(f) \in Nat /\ DOMAIN f = 1..Len(f)
          /\ DOMAIN g = 1..Len(f) + 1
          /\ (\A i \in DOMAIN f : g[i] = f[i] /\ i \in DOMAIN g)
          /\ g[Len(f) + 1] = s[k] /\ Len(f) + 1 \in DOMAIN g
          /\ \A i \in DOMAIN g : i \in DOMAIN f \/ i = Len(f) + 1
      <4>1. f \in Seq(S)
        BY <1>4
      <4> QED BY <2>0, <3>1, <4>1
    <3>3. FilterStep(x, f, s[k]) = g
      BY <2>1, <3>1 DEF FilterStep
    <3>4. Sound(g)
      BY <1>4, <2>0, <2>1, <3>2
    <3>5. Full(k, g)
      BY <1>4, <2>0, <3>2
    <3> HIDE DEF Sound, Full
    <3> QED BY Zenon, <3>3, <3>4, <3>5
  <2>2. CASE ~Passes(x, s[k])
    <3>1. FilterStep(x, f, s[k]) = f
      BY <2>2 DEF FilterStep
    <3>2. Full(k, f)
      BY <1>4, <2>0, <2>2
    <3> HIDE DEF Sound, Full
    <3> QED BY Zenon, <1>4, <3>1, <3>2
  <2> QED BY <2>1, <2>2
<1> HIDE DEF Sound, Full
<1>5. 0 \in good
  BY <1>1, <1>2, <1>3
<1>6. \A k \in 1..Len(s) : k - 1 \in good => k \in good
  BY <1>1, <1>2, <1>4
<1>7. Len(s) \in good
  <2> HIDE DEF good
  <2> QED BY Zenon, <1>2, <1>5, <1>6, Climb
<1>8. Sound(Filtered(x, s)) /\ Full(Len(s), Filtered(x, s))
  BY <1>1, <1>7
<1> QED BY <1>2, <1>8 DEF Sound, Full, PassingRows

(* Tables that differ in other rows only show the same.                    *)
LEMMA FilteredAlike ==
  ASSUME NEW x, NEW S, NEW s \in Seq(S), NEW T, NEW t \in Seq(T), Len(s) = Len(t),
         \A k \in 1..Len(s) : \/ s[k] = t[k]
                              \/ ~Passes(x, s[k]) /\ ~Passes(x, t[k])
  PROVE  Filtered(x, s) = Filtered(x, t)
<1>1. PICK it : /\ it[1..0] = <<>>
                /\ \A k \in 1..Len(s) : it[1..k] = FilterStep(x, it[1..k - 1], s[k])
                /\ Filtered(x, s) = it[1..Len(s)]
  BY Zenon, FilterIterates
<1>2. PICK jt : /\ jt[1..0] = <<>>
                /\ \A k \in 1..Len(t) : jt[1..k] = FilterStep(x, jt[1..k - 1], t[k])
                /\ Filtered(x, t) = jt[1..Len(t)]
  BY Zenon, FilterIterates
<1> DEFINE good == {k \in 0..Len(s) : it[1..k] = jt[1..k]}
<1>3. Len(s) \in Nat
  OBVIOUS
<1>4. 0 \in good
  BY <1>1, <1>2, <1>3
<1>5. ASSUME NEW k \in 1..Len(s), k - 1 \in good PROVE k \in good
  <2>1. it[1..k - 1] = jt[1..k - 1]
    BY <1>5
  <2>2. \A acc : FilterStep(x, acc, s[k]) = FilterStep(x, acc, t[k])
    BY DEF FilterStep
  <2>3. k \in 0..Len(s) /\ k \in 1..Len(t)
    BY <1>3
  <2>4. it[1..k] = jt[1..k]
    BY Zenon, <1>1, <1>2, <2>1, <2>2, <2>3
  <2> QED BY Zenon, <2>3, <2>4
<1>6. Len(s) \in good
  <2> HIDE DEF good
  <2> QED BY Zenon, <1>3, <1>4, <1>5, Climb
<1> QED BY <1>1, <1>2, <1>6

(* A condition that is weaker than another may be applied before it.       *)
LEMMA FilteredTwice ==
  ASSUME NEW x, NEW y, NEW S, NEW s \in Seq(S),
         \A k \in 1..Len(s) : Passes(x, s[k]) => Passes(y, s[k])
  PROVE  Filtered(x, Filtered(y, s)) = Filtered(x, s)
<1>1. PICK it : /\ it[1..0] = <<>>
                /\ \A k \in 1..Len(s) : it[1..k] = FilterStep(x, it[1..k - 1], s[k])
                /\ Filtered(x, s) = it[1..Len(s)]
  BY Zenon, FilterIterates
<1>2. PICK jt : /\ jt[1..0] = <<>>
                /\ \A k \in 1..Len(s) : jt[1..k] = FilterStep(y, jt[1..k - 1], s[k])
                /\ Filtered(y, s) = jt[1..Len(s)]
  BY Zenon, FilterIterates
<1> DEFINE good == {k \in 0..Len(s) : jt[1..k] \in Seq(S) /\ Filtered(x, jt[1..k]) = it[1..k]}
<1>3. Len(s) \in Nat /\ \A k \in 1..Len(s) : s[k] \in S
  OBVIOUS
<1>4. 0 \in good
  <2>1. Filtered(x, <<>>) = <<>>
    <3>1. PICK e : e = <<>>
      OBVIOUS
    <3>2. FilterFold!Fold(x, e, e) = e
      BY <3>1, FilterFoldLeast, FilterFold!FoldEmpty
    <3> QED BY Zenon, <3>1, <3>2 DEF Filtered
  <2>2. <<>> \in Seq(S)
    OBVIOUS
  <2>3. 0 \in 0..Len(s)
    BY <1>3
  <2> QED BY Zenon, <1>1, <1>2, <2>1, <2>2, <2>3
<1>5. ASSUME NEW k \in 1..Len(s), k - 1 \in good PROVE k \in good
  <2>1. jt[1..k - 1] \in Seq(S) /\ Filtered(x, jt[1..k - 1]) = it[1..k - 1]
    BY <1>5
  <2>2. PICK f \in Seq(S) : f = jt[1..k - 1]
    BY <2>1
  <2>3. PICK m \in S : m = s[k]
    BY <1>3
  <2>4. jt[1..k] = FilterStep(y, f, m) /\ it[1..k] = FilterStep(x, Filtered(x, f), m)
    BY <1>1, <1>2, <2>1, <2>2, <2>3
  <2>5. Passes(x, m) => Passes(y, m)
    BY <2>3
  <2>6. CASE Passes(y, m)
    <3>1. jt[1..k] = Append(f, m)
      BY <2>4, <2>6 DEF FilterStep
    <3>2. Append(f, m) \in Seq(S)
      OBVIOUS
    <3>3. Filtered(x, Append(f, m)) = FilterStep(x, Filtered(x, f), m)
      BY Zenon, FilteredAppend
    <3>4. k \in 0..Len(s)
      BY <1>3
    <3> QED BY Zenon, <2>4, <3>1, <3>2, <3>3, <3>4
  <2>7. CASE ~Passes(y, m)
    <3>1. jt[1..k] = f /\ it[1..k] = Filtered(x, f)
      BY <2>4, <2>5, <2>7 DEF FilterStep
    <3>2. k \in 0..Len(s)
      BY <1>3
    <3> QED BY Zenon, <3>1, <3>2
  <2> QED BY <2>6, <2>7
<1>6. Len(s) \in good
  <2> HIDE DEF good
  <2> QED BY Zenon, <1>3, <1>4, <1>5, Climb
<1> QED BY <1>1, <1>2, <1>6
-----------------------------------------------------------------------------
(* These are the selections of the model.                                  *)
MineStep(t, acc, m) == IF m.thread = t THEN Append(acc, m) ELSE acc
MineFold == INSTANCE FoldLaws WITH Op <- MineStep, P <- FilterClaim
RestStep(x, acc, m) == IF m.thread # x.thread \/ m \in x.kept THEN Append(acc, m) ELSE acc
RestFold == INSTANCE FoldLaws WITH Op <- RestStep, P <- FilterClaim

LEMMA MineFoldLeast == MineFold!LeastMembers
BY LeastNatural DEF MineFold!LeastMembers

LEMMA MineFoldIterates ==
  ASSUME NEW x, NEW base, NEW s, NEW n \in Nat, DOMAIN s = 1..n
  PROVE  \E it : MineFold!Steps(x, base, s, n, it) /\ MineFold!Fold(x, base, s) = it[1..n]
<1>1. MineFold!Iterated(x, base, s, n)
  BY Zenon, MineFoldLeast, MineFold!FoldIterates
<1> QED BY Zenon, <1>1 DEF MineFold!Iterated

LEMMA RestFoldLeast == RestFold!LeastMembers
BY LeastNatural DEF RestFold!LeastMembers

LEMMA RestFoldIterates ==
  ASSUME NEW x, NEW base, NEW s, NEW n \in Nat, DOMAIN s = 1..n
  PROVE  \E it : RestFold!Steps(x, base, s, n, it) /\ RestFold!Fold(x, base, s) = it[1..n]
<1>1. RestFold!Iterated(x, base, s, n)
  BY Zenon, RestFoldLeast, RestFold!FoldIterates
<1> QED BY Zenon, <1>1 DEF RestFold!Iterated

LEMMA SelectionsFold ==
  /\ \A messages, t : MessagesOf(messages, t) = MineFold!Fold(t, <<>>, messages)
  /\ \A messages, x : Rest(messages, x.thread, x.kept) = RestFold!Fold(x, <<>>, messages)
<1>1. \A messages, t : MessagesOf(messages, t) = MineFold!Fold(t, <<>>, messages)
  BY Zenon DEF MineFold!Fold, MineFold!Greatest, FoldLeft, MapThenFoldSet,
               Max, MineStep, MessagesOf, Where
<1>2. \A messages, x : Rest(messages, x.thread, x.kept) = RestFold!Fold(x, <<>>, messages)
  BY Zenon DEF RestFold!Fold, RestFold!Greatest, FoldLeft, MapThenFoldSet,
               Max, RestStep, Rest, Where
<1> QED BY <1>1, <1>2

LEMMA MessagesOfFiltered ==
  ASSUME NEW S, NEW s \in Seq(S), NEW t
  PROVE  MessagesOf(s, t) = Filtered(OnlyOf(t), s)
<1>1. PICK x : x = OnlyOf(t)
  OBVIOUS
<1>2. \A acc, m : FilterStep(x, acc, m) = MineStep(t, acc, m)
  BY <1>1 DEF OnlyOf, FilterStep, Passes, MineStep
<1>3. PICK n \in Nat : n = Len(s) /\ DOMAIN s = 1..n
  OBVIOUS
<1>4. PICK it : FilterFold!Steps(x, <<>>, s, n, it) /\ FilterFold!Fold(x, <<>>, s) = it[1..n]
  BY <1>3, FilterFoldIterates
<1>5. PICK jt : MineFold!Steps(t, <<>>, s, n, jt) /\ MineFold!Fold(t, <<>>, s) = jt[1..n]
  BY <1>3, MineFoldIterates
<1>6. it[1..0] = jt[1..0]
  BY Zenon, <1>4, <1>5 DEF FilterFold!Steps, MineFold!Steps
<1>7. ASSUME NEW k \in 1..n, it[1..k - 1] = jt[1..k - 1] PROVE it[1..k] = jt[1..k]
  <2>1. it[1..k] = FilterStep(x, it[1..k - 1], s[k])
    BY Zenon, <1>4 DEF FilterFold!Steps
  <2>2. jt[1..k] = MineStep(t, jt[1..k - 1], s[k])
    BY Zenon, <1>5 DEF MineFold!Steps
  <2> QED BY Zenon, <1>2, <1>7, <2>1, <2>2
<1>8. it[1..n] = jt[1..n]
  BY Zenon, <1>3, <1>6, <1>7, SameSteps
<1> QED BY Zenon, <1>1, <1>4, <1>5, <1>8, SelectionsFold DEF Filtered

LEMMA RestFiltered ==
  ASSUME NEW S, NEW s \in Seq(S), NEW t, NEW kept
  PROVE  Rest(s, t, kept) = Filtered(AllBut(t, kept), s)
<1>1. PICK x : x = AllBut(t, kept)
  OBVIOUS
<1>a. x.thread = t /\ x.kept = kept
  BY <1>1 DEF AllBut
<1>2. \A acc, m : FilterStep(x, acc, m) = RestStep(x, acc, m)
  BY <1>1 DEF AllBut, FilterStep, Passes, RestStep
<1>3. PICK n \in Nat : n = Len(s) /\ DOMAIN s = 1..n
  OBVIOUS
<1>4. PICK it : FilterFold!Steps(x, <<>>, s, n, it) /\ FilterFold!Fold(x, <<>>, s) = it[1..n]
  BY <1>3, FilterFoldIterates
<1>5. PICK jt : RestFold!Steps(x, <<>>, s, n, jt) /\ RestFold!Fold(x, <<>>, s) = jt[1..n]
  BY <1>3, RestFoldIterates
<1>6. it[1..0] = jt[1..0]
  BY Zenon, <1>4, <1>5 DEF FilterFold!Steps, RestFold!Steps
<1>7. ASSUME NEW k \in 1..n, it[1..k - 1] = jt[1..k - 1] PROVE it[1..k] = jt[1..k]
  <2>1. it[1..k] = FilterStep(x, it[1..k - 1], s[k])
    BY Zenon, <1>4 DEF FilterFold!Steps
  <2>2. jt[1..k] = RestStep(x, jt[1..k - 1], s[k])
    BY Zenon, <1>5 DEF RestFold!Steps
  <2> QED BY Zenon, <1>2, <1>7, <2>1, <2>2
<1>8. it[1..n] = jt[1..n]
  BY Zenon, <1>3, <1>6, <1>7, SameSteps
<1> QED BY Zenon, <1>1, <1>a, <1>4, <1>5, <1>8, SelectionsFold DEF Filtered

(* What a thread shows of the messages does not depend on other rows.      *)
LEMMA MessagesOfAppend ==
  ASSUME NEW S, NEW s \in Seq(S), NEW m \in S, NEW t
  PROVE  MessagesOf(Append(s, m), t) = MineStep(t, MessagesOf(s, t), m)
<1>0. Append(s, m) \in Seq(S)
  OBVIOUS
<1>1. PICK a \in Seq(S) : a = Append(s, m)
  BY Zenon, <1>0
<1>2. PICK x : x = OnlyOf(t)
  OBVIOUS
<1>3. Filtered(x, a) = FilterStep(x, Filtered(x, s), m)
  BY Zenon, <1>1, FilteredAppend
<1>4. FilterStep(x, Filtered(x, s), m) = MineStep(t, Filtered(x, s), m)
  BY <1>2 DEF OnlyOf, FilterStep, Passes, MineStep
<1> QED BY Zenon, <1>1, <1>2, <1>3, <1>4, MessagesOfFiltered

LEMMA MessagesOfAlike ==
  ASSUME NEW S, NEW s \in Seq(S), NEW T, NEW r \in Seq(T), Len(s) = Len(r), NEW t,
         \A k \in 1..Len(s) : s[k] = r[k] \/ (s[k].thread # t /\ r[k].thread # t)
  PROVE  MessagesOf(s, t) = MessagesOf(r, t)
<1>1. PICK x : x = OnlyOf(t)
  OBVIOUS
<1>2. \A m : Passes(x, m) <=> m.thread = t
  BY <1>1 DEF OnlyOf, Passes
<1>3. Filtered(x, s) = Filtered(x, r)
  BY Zenon, <1>2, FilteredAlike
<1> QED BY Zenon, <1>1, <1>3, MessagesOfFiltered

LEMMA MessagesOfRest ==
  ASSUME NEW S, NEW s \in Seq(S), NEW u, NEW kept
  PROVE  /\ Rest(s, u, kept) \in Seq(S)
         /\ \A i \in DOMAIN Rest(s, u, kept) : \E j \in DOMAIN s : Rest(s, u, kept)[i] = s[j]
         /\ \A t : t # u => MessagesOf(Rest(s, u, kept), t) = MessagesOf(s, t)
<1>1. PICK y : y = AllBut(u, kept)
  OBVIOUS
<1>2. PICK r : r = Rest(s, u, kept)
  OBVIOUS
<1>3. r = Filtered(y, s)
  BY Zenon, <1>1, <1>2, RestFiltered
<1>a. PassingRows(y, S, s, r)
  BY Zenon, <1>3, FilteredRows
<1>4. r \in Seq(S) /\ \A i \in DOMAIN r : \E j \in DOMAIN s : r[i] = s[j]
  BY Zenon, <1>a DEF PassingRows
<1>5. ASSUME NEW t, t # u PROVE MessagesOf(r, t) = MessagesOf(s, t)
  <2>1. PICK x : x = OnlyOf(t)
    OBVIOUS
  <2>2. \A m : Passes(x, m) => Passes(y, m)
    BY <1>1, <1>5, <2>1 DEF OnlyOf, AllBut, Passes
  <2>3. Filtered(x, Filtered(y, s)) = Filtered(x, s)
    <3>1. \A k \in 1..Len(s) : Passes(x, s[k]) => Passes(y, s[k])
      BY Zenon, <2>2
    <3> QED BY <3>1, FilteredTwice
  <2>4. r \in Seq(S) /\ MessagesOf(r, t) = Filtered(x, r)
    BY Zenon, <1>4, <2>1, MessagesOfFiltered
  <2>5. MessagesOf(s, t) = Filtered(x, s)
    BY Zenon, <2>1, MessagesOfFiltered
  <2> QED BY Zenon, <1>3, <2>3, <2>4, <2>5
<1> QED BY Zenon, <1>2, <1>4, <1>5

(* The rows a thread shows are its rows.                                   *)
LEMMA MessagesOfRows ==
  ASSUME NEW S, NEW s \in Seq(S), NEW t
  PROVE  /\ MessagesOf(s, t) \in Seq(S)
         /\ \A i \in DOMAIN MessagesOf(s, t) :
              MessagesOf(s, t)[i].thread = t
              /\ \E j \in DOMAIN s : MessagesOf(s, t)[i] = s[j]
         /\ \A j \in DOMAIN s : s[j].thread = t =>
              \E i \in DOMAIN MessagesOf(s, t) : MessagesOf(s, t)[i] = s[j]
<1>1. PICK x : x = OnlyOf(t)
  OBVIOUS
<1>2. \A m : Passes(x, m) <=> m.thread = t
  BY <1>1 DEF OnlyOf, Passes
<1>3. PICK f : f = Filtered(x, s)
  OBVIOUS
<1>a. PassingRows(x, S, s, f)
  BY Zenon, <1>3, FilteredRows
<1>4. /\ f \in Seq(S)
      /\ \A i \in DOMAIN f : Passes(x, f[i]) /\ \E j \in DOMAIN s : f[i] = s[j]
      /\ \A j \in DOMAIN s : Passes(x, s[j]) => \E i \in DOMAIN f : f[i] = s[j]
  BY Zenon, <1>a DEF PassingRows
<1>5. MessagesOf(s, t) = f
  BY Zenon, <1>1, <1>3, MessagesOfFiltered
<1> QED BY Zenon, <1>2, <1>4, <1>5

Known(type, id, stream) ==
  \E e \in Carriers : e.type = type /\ e.arg.id = id /\ e.stream = stream
Homed(e) == e.type \in ItemTypes => "id" \in DOMAIN e.arg /\ Known(e.type, e.arg.id, e.stream)

LEMMA OneHome ==
  ASSUME OneThreadPerItem, NEW type, NEW id, NEW s, NEW t, Known(type, id, s), Known(type, id, t)
  PROVE  s = t
BY Zenon DEF OneThreadPerItem, Known

-----------------------------------------------------------------------------
TurnFields == {"thread", "turn", "state", "pending", "assistant", "count", "status", "requested"}
TurnRows(turns) == \A r \in turns : DOMAIN r = TurnFields
RowOf(u, row) == DOMAIN row = TurnFields /\ row.thread = u
OtherTurns(turns, next, u) ==
  TurnRows(next) /\ \A t : t # u => OfThread(next, t) = OfThread(turns, t)

(* The rows of u are written over a table whose other rows stayed.         *)
LEMMA PutTurnOthers ==
  ASSUME NEW turns, NEW mid, NEW u, OtherTurns(turns, mid, u),
         NEW row, RowOf(u, row)
  PROVE  OtherTurns(turns, PutTurn(mid, row), u)
<1>1. TurnRows(PutTurn(mid, row))
  BY DEF TurnRows, PutTurn, OtherTurns, RowOf
<1>2. ASSUME NEW t, t # u PROVE OfThread(PutTurn(mid, row), t) = OfThread(mid, t)
  BY <1>2 DEF OfThread, PutTurn, RowOf
<1>3. ASSUME NEW t, t # u PROVE OfThread(mid, t) = OfThread(turns, t)
  BY Zenon, <1>3 DEF OtherTurns
<1> QED BY Zenon, <1>1, <1>2, <1>3 DEF OtherTurns

LEMMA NewTurnFields ==
  ASSUME NEW u, NEW turn, NEW state, NEW at
  PROVE  RowOf(u, NewTurn(u, turn, state, at))
BY DEF NewTurn, TurnFields, RowOf

LEMMA TurnRowIs ==
  ASSUME NEW turns, TurnRows(turns), NEW u, NEW turn, NEW new, RowOf(u, new)
  PROVE  RowOf(u, TurnRow(turns, u, turn, new))
<1>1. CASE \E r \in turns : r.thread = u /\ r.turn = turn
  <2>1. PICK row : row = CHOOSE r \in turns : r.thread = u /\ r.turn = turn
    OBVIOUS
  <2>2. row \in turns /\ row.thread = u
    BY <1>1, <2>1
  <2>3. TurnRow(turns, u, turn, new) = row
    BY <1>1, <2>1 DEF TurnRow
  <2>4. DOMAIN row = TurnFields
    BY <2>2 DEF TurnRows
  <2> QED BY Zenon, <2>2, <2>3, <2>4 DEF RowOf
<1>2. CASE ~\E r \in turns : r.thread = u /\ r.turn = turn
  <2>1. TurnRow(turns, u, turn, new) = new
    BY Zenon, <1>2 DEF TurnRow
  <2> QED BY Zenon, <2>1
<1> QED BY Zenon, <1>1, <1>2

LEMMA StartedRow ==
  ASSUME NEW turns, TurnRows(turns), NEW u, NEW turn, NEW state, NEW at
  PROVE  RowOf(u, TurnRow(turns, u, turn, NewTurn(u, turn, state, at)))
<1>1. PICK new : new = NewTurn(u, turn, state, at)
  OBVIOUS
<1>2. RowOf(u, new)
  BY Zenon, <1>1, NewTurnFields
<1>3. RowOf(u, TurnRow(turns, u, turn, new))
  BY Zenon, <1>2, TurnRowIs
<1> QED BY Zenon, <1>1, <1>3

LEMMA SameOthers ==
  ASSUME NEW turns, TurnRows(turns), NEW u
  PROVE  OtherTurns(turns, turns, u)
BY Zenon DEF OtherTurns

LEMMA RunTurnOthers ==
  ASSUME NEW rows, TurnRows(rows.turns), NEW u, NEW turn, NEW at
  PROVE  OtherTurns(rows.turns, RunTurn(rows, u, turn, at), u)
<1> DEFINE asked   == IF rows.pending[u] = NoPending THEN at ELSE rows.pending[u].requested
           row     == TurnRow(rows.turns, u, turn, NewTurn(u, turn, "running", asked))
           next(r) == [r EXCEPT !.state   = IF @ \in {"completed", "error"} THEN @ ELSE "running",
                                !.pending = IF @ = None THEN rows.pending[u].message ELSE @]
<1>1. RunTurn(rows, u, turn, at) = PutTurn(rows.turns, next(row))
  BY DEF RunTurn
<1>2. \A r : RowOf(u, r) => RowOf(u, next(r))
  BY DEF TurnFields, RowOf
<1> HIDE DEF asked, next
<1>3. RowOf(u, row)
  BY Zenon, StartedRow
<1> HIDE DEF row
<1>4. RowOf(u, next(row))
  BY Zenon, <1>2, <1>3
<1>5. OtherTurns(rows.turns, rows.turns, u)
  BY Zenon, SameOthers
<1>6. OtherTurns(rows.turns, PutTurn(rows.turns, next(row)), u)
  BY Zenon, <1>4, <1>5, PutTurnOthers
<1> QED BY Zenon, <1>1, <1>6

LEMMA AssistantMessageOthers ==
  ASSUME NEW turns, TurnRows(turns), NEW u, NEW m, NEW at
  PROVE  OtherTurns(turns, AssistantMessageSent(turns, u, m, at), u)
<1> DEFINE row     == TurnRow(turns, u, m.turn, NewTurn(u, m.turn, "running", at))
           next(r) == [r EXCEPT !.assistant = m.id,
                                !.state = IF m.streaming \/ @ \in {"interrupted", "error"} THEN @
                                          ELSE "completed"]
<1>1. AssistantMessageSent(turns, u, m, at) = PutTurn(turns, next(row))
  BY DEF AssistantMessageSent
<1>2. \A r : RowOf(u, r) => RowOf(u, next(r))
  BY DEF TurnFields, RowOf
<1> HIDE DEF next
<1>3. RowOf(u, row)
  BY Zenon, StartedRow
<1> HIDE DEF row
<1>4. RowOf(u, next(row))
  BY Zenon, <1>2, <1>3
<1>5. OtherTurns(turns, turns, u)
  BY Zenon, SameOthers
<1>6. OtherTurns(turns, PutTurn(turns, next(row)), u)
  BY Zenon, <1>4, <1>5, PutTurnOthers
<1> QED BY Zenon, <1>1, <1>6

LEMMA InterruptOthers ==
  ASSUME NEW turns, TurnRows(turns), NEW u, NEW turn, NEW at
  PROVE  OtherTurns(turns, InterruptTurn(turns, u, turn, at), u)
<1> DEFINE row     == TurnRow(turns, u, turn, NewTurn(u, turn, "running", at))
           next(r) == [r EXCEPT !.state = "interrupted"]
<1>1. InterruptTurn(turns, u, turn, at) = PutTurn(turns, next(row))
  BY DEF InterruptTurn
<1>2. \A r : RowOf(u, r) => RowOf(u, next(r))
  BY DEF TurnFields, RowOf
<1> HIDE DEF next
<1>3. RowOf(u, row)
  BY Zenon, StartedRow
<1> HIDE DEF row
<1>4. RowOf(u, next(row))
  BY Zenon, <1>2, <1>3
<1>5. OtherTurns(turns, turns, u)
  BY Zenon, SameOthers
<1>6. OtherTurns(turns, PutTurn(turns, next(row)), u)
  BY Zenon, <1>4, <1>5, PutTurnOthers
<1> QED BY Zenon, <1>1, <1>6

LEMMA CheckpointTurnOthers ==
  ASSUME NEW turns, TurnRows(turns), NEW u, NEW c, NEW at
  PROVE  OtherTurns(turns, CheckpointTurn(turns, u, c, at), u)
<1> DEFINE row        == TurnRow(turns, u, c.turn, NewTurn(u, c.turn, "running", at))
           next(r)    == [r EXCEPT !.assistant = c.message,
                                   !.state     = IF c.status = "error" THEN "error"
                                                 ELSE "completed",
                                   !.count     = c.count,
                                   !.status    = c.status]
           cleared(r) == IF r.thread = u /\ r.count = c.count /\ r.turn # c.turn
                         THEN [r EXCEPT !.count = None, !.status = None] ELSE r
           mid        == {cleared(r) : r \in turns}
<1>1. CheckpointTurn(turns, u, c, at) = PutTurn(mid, next(row))
  BY Zenon DEF CheckpointTurn
<1>2. \A r : RowOf(u, r) => RowOf(u, next(r))
  BY DEF TurnFields, RowOf
<1>3. ASSUME NEW r, DOMAIN r = TurnFields
      PROVE  /\ DOMAIN cleared(r) = TurnFields /\ cleared(r).thread = r.thread
             /\ r.thread # u => cleared(r) = r
  BY <1>3 DEF TurnFields
<1> HIDE DEF next, cleared
<1>4. RowOf(u, row)
  BY Zenon, StartedRow
<1> HIDE DEF row
<1>5. RowOf(u, next(row))
  BY Zenon, <1>2, <1>4
<1>6. TurnRows(mid)
  BY <1>3 DEF TurnRows
<1>7. ASSUME NEW t, t # u PROVE OfThread(mid, t) = OfThread(turns, t)
  BY <1>3, <1>7 DEF OfThread, TurnRows
<1> HIDE DEF mid
<1>8. OtherTurns(turns, mid, u)
  BY Zenon, <1>6, <1>7 DEF OtherTurns
<1>9. OtherTurns(turns, PutTurn(mid, next(row)), u)
  <2>1. PICK base, after : base = mid /\ after = next(row)
    OBVIOUS
  <2>2. TurnRows(base) /\ RowOf(u, after) /\ OtherTurns(turns, base, u)
    BY Zenon, <1>5, <1>6, <1>8, <2>1
  <2>3. OtherTurns(turns, PutTurn(base, after), u)
    BY Zenon, <2>2, PutTurnOthers
  <2> QED BY Zenon, <2>1, <2>3
<1> QED BY Zenon, <1>1, <1>9

HomedRows(type, rows) == \A r \in rows : Known(type, r.id, r.thread)
HomedMessages(messages) == \E S : messages \in Seq(S) /\ HomedRows("thread.message-sent", S)

(* The rows of u are written, and all rows stay at home.                   *)
RowsKept(type, rows, next, u) ==
  HomedRows(type, next) /\ \A t : t # u => OfThread(next, t) = OfThread(rows, t)
MessagesKept(messages, next, u) ==
  HomedMessages(next) /\ \A t : t # u => MessagesOf(next, t) = MessagesOf(messages, t)

LEMMA WithThreadFields ==
  ASSUME NEW row, "id" \in DOMAIN row, NEW u
  PROVE  WithThread(row, u).thread = u /\ WithThread(row, u).id = row.id
BY DEF WithThread

LEMMA MessageOthers ==
  ASSUME OneThreadPerItem, NEW messages, HomedMessages(messages), NEW u,
         NEW m, "id" \in DOMAIN m, Known("thread.message-sent", m.id, u)
  PROVE  MessagesKept(messages, ApplyMessage(messages, u, m), u)
<1> DEFINE type == "thread.message-sent"
           same == {i \in DOMAIN messages : messages[i].id = m.id}
           text(old) == IF m.streaming THEN old.text + m.text
                        ELSE IF m.text = 0 THEN old.text ELSE m.text
           put(old) == WithThread([m EXCEPT !.text = text(old)], u)
<1>1. PICK S : messages \in Seq(S) /\ HomedRows(type, S)
  BY Zenon DEF HomedMessages
<1>2. CASE same = {}
  <2>1. PICK row : row = WithThread(m, u)
    OBVIOUS
  <2>2. row.thread = u /\ row.id = m.id
    BY Zenon, <2>1, WithThreadFields
  <2>3. PICK T : T = S \cup {row}
    OBVIOUS
  <2>4. messages \in Seq(T) /\ row \in T /\ Append(messages, row) \in Seq(T)
    BY <1>1, <2>3
  <2>5. HomedRows(type, T)
    BY <1>1, <2>2, <2>3 DEF HomedRows
  <2>6. ApplyMessage(messages, u, m) = Append(messages, row)
    BY Zenon, <1>2, <2>1 DEF ApplyMessage
  <2>7. HomedMessages(Append(messages, row))
    BY Zenon, <2>4, <2>5 DEF HomedMessages
  <2>8. ASSUME NEW t, t # u PROVE MessagesOf(Append(messages, row), t) = MessagesOf(messages, t)
    <3>1. MessagesOf(Append(messages, row), t) = MineStep(t, MessagesOf(messages, t), row)
      BY Zenon, <2>4, MessagesOfAppend
    <3> QED BY Zenon, <2>2, <2>8, <3>1 DEF MineStep
  <2> QED BY Zenon, <2>6, <2>7, <2>8 DEF MessagesKept
<1>3. CASE same # {}
  <2>1. PICK next : next = [i \in DOMAIN messages |->
                              IF i \in same THEN put(messages[i]) ELSE messages[i]]
    OBVIOUS
  <2>2. ApplyMessage(messages, u, m) = next
    BY Zenon, <1>3, <2>1 DEF ApplyMessage
  <2>3. ASSUME NEW old PROVE put(old).thread = u /\ put(old).id = m.id
    <3>1. PICK row : row = [m EXCEPT !.text = text(old)]
      OBVIOUS
    <3>2. "id" \in DOMAIN row /\ row.id = m.id
      BY <3>1
    <3>3. WithThread(row, u).thread = u /\ WithThread(row, u).id = row.id
      BY Zenon, <3>2, WithThreadFields
    <3> QED BY Zenon, <3>1, <3>2, <3>3
  <2> HIDE DEF put, text, same
  <2>4. PICK T : T = S \cup {put(messages[i]) : i \in same}
    OBVIOUS
  <2>5. next \in Seq(T) /\ messages \in Seq(T) /\ Len(next) = Len(messages)
    <3>1. \A i \in DOMAIN messages : messages[i] \in S
      BY <1>1
    <3>2. \A i \in DOMAIN messages : next[i] \in T
      BY <2>1, <2>4, <3>1 DEF same
    <3>3. /\ Len(messages) \in Nat /\ DOMAIN messages = 1..Len(messages)
          /\ DOMAIN next = DOMAIN messages
      BY <1>1, <2>1
    <3>4. next = [i \in 1..Len(messages) |-> next[i]]
      BY <2>1, <3>3
    <3>5. next \in [1..Len(messages) -> T]
      BY <3>2, <3>3, <3>4
    <3> QED BY <1>1, <2>4, <3>3, <3>5
  <2>6. HomedRows(type, T)
    BY <1>1, <2>3, <2>4 DEF HomedRows, same
  <2>7. HomedMessages(next)
    BY Zenon, <2>5, <2>6 DEF HomedMessages
  <2>8. ASSUME NEW t, t # u PROVE MessagesOf(next, t) = MessagesOf(messages, t)
    <3>1. ASSUME NEW k \in 1..Len(next)
          PROVE  next[k] = messages[k] \/ (next[k].thread # t /\ messages[k].thread # t)
      <4>1. k \in DOMAIN messages /\ messages[k] \in S
        BY <1>1, <2>5
      <4>2. CASE k \in same
        <5>1. messages[k].id = m.id
          BY <4>2 DEF same
        <5>2. Known(type, m.id, messages[k].thread)
          BY Zenon, <1>1, <4>1, <5>1 DEF HomedRows
        <5>3. messages[k].thread = u
          BY Zenon, <5>2, OneHome
        <5>4. next[k].thread = u
          BY <2>1, <2>3, <4>1, <4>2
        <5> QED BY Zenon, <2>8, <5>3, <5>4
      <4>3. CASE k \notin same
        <5>1. next[k] = IF k \in same THEN put(messages[k]) ELSE messages[k]
          BY <2>1, <4>1
        <5> QED BY Zenon, <4>3, <5>1
      <4> QED BY Zenon, <4>2, <4>3
    <3> QED BY Zenon, <2>5, <3>1, MessagesOfAlike
  <2> QED BY Zenon, <2>2, <2>7, <2>8 DEF MessagesKept
<1> QED BY Zenon, <1>2, <1>3

LEMMA RevertMessagesOthers ==
  ASSUME NEW rows, HomedMessages(rows.messages), NEW u, NEW count
  PROVE  MessagesKept(rows.messages, RevertMessages(rows, u, count), u)
<1>1. PICK S : rows.messages \in Seq(S) /\ HomedRows("thread.message-sent", S)
  BY Zenon DEF HomedMessages
<1> DEFINE turns == KeptTurns(rows.turns, u, count)
           mine  == Where(rows.messages, LAMBDA m : m.thread = u)
           them  == Range(RetainMessages(mine, {r.turn : r \in turns},
                     {r.pending : r \in turns} \cup {r.assistant : r \in turns}, count))
<1>2. RevertMessages(rows, u, count) = Rest(rows.messages, u, them)
  BY Zenon DEF RevertMessages, Rest
<1> HIDE DEF turns, mine, them
<1>3. PICK kept : RevertMessages(rows, u, count) = Rest(rows.messages, u, kept)
  BY Zenon, <1>2
<1>4. PICK messages : messages = rows.messages
  OBVIOUS
<1>5. messages \in Seq(S)
  BY Zenon, <1>1, <1>4
<1>6. Rest(messages, u, kept) \in Seq(S)
  BY <1>5, MessagesOfRest
<1>7. \A t : t # u => MessagesOf(Rest(messages, u, kept), t) = MessagesOf(messages, t)
  BY <1>5, MessagesOfRest
<1>8. HomedMessages(Rest(messages, u, kept))
  BY Zenon, <1>1, <1>6 DEF HomedMessages
<1> QED BY Zenon, <1>3, <1>4, <1>7, <1>8 DEF MessagesKept

LEMMA UpsertOthers ==
  ASSUME OneThreadPerItem, NEW type, NEW entries, HomedRows(type, entries), NEW u,
         NEW item, "id" \in DOMAIN item, Known(type, item.id, u)
  PROVE  RowsKept(type, entries, UpsertById(entries, WithThread(item, u)), u)
<1>1. PICK row : row = WithThread(item, u)
  OBVIOUS
<1>2. row.thread = u /\ row.id = item.id
  BY Zenon, <1>1, WithThreadFields
<1>3. HomedRows(type, UpsertById(entries, row))
  BY <1>2 DEF HomedRows, UpsertById
<1>4. ASSUME NEW r \in entries, r.id = row.id PROVE r.thread = u
  <2>1. Known(type, item.id, r.thread)
    BY Zenon, <1>2, <1>4 DEF HomedRows
  <2> QED BY Zenon, <2>1, OneHome
<1>5. ASSUME NEW t, t # u PROVE OfThread(UpsertById(entries, row), t) = OfThread(entries, t)
  BY <1>2, <1>4, <1>5 DEF OfThread, UpsertById
<1> QED BY Zenon, <1>1, <1>3, <1>5 DEF RowsKept

LEMMA RevertRowsOthers ==
  ASSUME NEW type, NEW entries, HomedRows(type, entries), NEW rows, NEW u, NEW count
  PROVE  RowsKept(type, entries, RevertRows(entries, rows, u, count), u)
<1>1. HomedRows(type, RevertRows(entries, rows, u, count))
  BY DEF HomedRows, RevertRows
<1>2. ASSUME NEW t, t # u
      PROVE  OfThread(RevertRows(entries, rows, u, count), t) = OfThread(entries, t)
  BY <1>2 DEF OfThread, RevertRows
<1> QED BY Zenon, <1>1, <1>2 DEF RowsKept

TableNames == {"projects", "threads", "messages", "plans", "activities", "sessions", "turns",
               "pending", "approvals"}
HomedTables(rows) ==
  /\ DOMAIN rows = TableNames
  /\ DOMAIN rows.threads = Threads /\ DOMAIN rows.sessions = Threads
  /\ HomedMessages(rows.messages)
  /\ HomedRows("thread.proposed-plan-upserted", rows.plans)
  /\ HomedRows("thread.activity-appended", rows.activities)
  /\ TurnRows(rows.turns)

(* What two states of the tables show of a thread.                         *)
Alike(rows, next, t) ==
  /\ next.threads[t] = rows.threads[t] /\ next.sessions[t] = rows.sessions[t]
  /\ MessagesOf(next.messages, t) = MessagesOf(rows.messages, t)
  /\ OfThread(next.plans, t) = OfThread(rows.plans, t)
  /\ OfThread(next.activities, t) = OfThread(rows.activities, t)
  /\ OfThread(next.turns, t) = OfThread(rows.turns, t)

OthersKept(rows, next, u) ==
  HomedTables(next) /\ \A t \in Threads : t # u => Alike(rows, next, t)

(* One table is written.                                                   *)
LEMMA KeepOthers ==
  ASSUME NEW rows, HomedTables(rows), NEW u
  PROVE  OthersKept(rows, rows, u)
BY Zenon DEF OthersKept, Alike

LEMMA PutThreads ==
  ASSUME NEW rows, HomedTables(rows), NEW u, NEW row
  PROVE  /\ OthersKept(rows, [rows EXCEPT !.threads[u] = row], u)
         /\ OthersKept(rows, [rows EXCEPT !.sessions[u] = row], u)
<1>1. PICK next : next = [rows EXCEPT !.threads[u] = row]
  OBVIOUS
<1>2. /\ DOMAIN next = TableNames /\ DOMAIN next.threads = Threads
      /\ \A t \in Threads : t # u => next.threads[t] = rows.threads[t]
      /\ next.messages = rows.messages /\ next.plans = rows.plans
      /\ next.activities = rows.activities /\ next.sessions = rows.sessions
      /\ next.turns = rows.turns
  BY <1>1 DEF HomedTables, TableNames
<1>3. OthersKept(rows, next, u)
  BY Zenon, <1>2 DEF OthersKept, HomedTables, Alike, RowsKept, MessagesKept
<1>4. PICK after : after = [rows EXCEPT !.sessions[u] = row]
  OBVIOUS
<1>5. /\ DOMAIN after = TableNames /\ DOMAIN after.sessions = Threads
      /\ \A t \in Threads : t # u => after.sessions[t] = rows.sessions[t]
      /\ after.messages = rows.messages /\ after.plans = rows.plans
      /\ after.activities = rows.activities /\ after.threads = rows.threads
      /\ after.turns = rows.turns
  BY <1>4 DEF HomedTables, TableNames
<1>6. OthersKept(rows, after, u)
  BY Zenon, <1>5 DEF OthersKept, HomedTables, Alike
<1> QED BY Zenon, <1>1, <1>3, <1>4, <1>6

LEMMA PutMessages ==
  ASSUME NEW rows, HomedTables(rows), NEW u, NEW messages, MessagesKept(rows.messages, messages, u)
  PROVE  OthersKept(rows, [rows EXCEPT !.messages = messages], u)
<1>1. PICK next : next = [rows EXCEPT !.messages = messages]
  OBVIOUS
<1>2. /\ DOMAIN next = TableNames /\ next.messages = messages
      /\ next.threads = rows.threads /\ next.plans = rows.plans
      /\ next.activities = rows.activities /\ next.sessions = rows.sessions
      /\ next.turns = rows.turns
  BY <1>1 DEF HomedTables, TableNames
<1>3. OthersKept(rows, next, u)
  BY Zenon, <1>2 DEF OthersKept, HomedTables, Alike, RowsKept, MessagesKept
<1> QED BY Zenon, <1>1, <1>3

LEMMA PutPlans ==
  ASSUME NEW rows, HomedTables(rows), NEW u,
         NEW plans, RowsKept("thread.proposed-plan-upserted", rows.plans, plans, u)
  PROVE  OthersKept(rows, [rows EXCEPT !.plans = plans], u)
<1>1. PICK next : next = [rows EXCEPT !.plans = plans]
  OBVIOUS
<1>2. /\ DOMAIN next = TableNames /\ next.plans = plans
      /\ next.threads = rows.threads /\ next.messages = rows.messages
      /\ next.activities = rows.activities /\ next.sessions = rows.sessions
      /\ next.turns = rows.turns
  BY <1>1 DEF HomedTables, TableNames
<1>3. OthersKept(rows, next, u)
  BY Zenon, <1>2 DEF OthersKept, HomedTables, Alike, RowsKept, MessagesKept
<1> QED BY Zenon, <1>1, <1>3

LEMMA PutActivities ==
  ASSUME NEW rows, HomedTables(rows), NEW u,
         NEW activities, RowsKept("thread.activity-appended", rows.activities, activities, u)
  PROVE  OthersKept(rows, [rows EXCEPT !.activities = activities], u)
<1>1. PICK next : next = [rows EXCEPT !.activities = activities]
  OBVIOUS
<1>2. /\ DOMAIN next = TableNames /\ next.activities = activities
      /\ next.threads = rows.threads /\ next.messages = rows.messages
      /\ next.plans = rows.plans /\ next.sessions = rows.sessions
      /\ next.turns = rows.turns
  BY <1>1 DEF HomedTables, TableNames
<1>3. OthersKept(rows, next, u)
  BY Zenon, <1>2 DEF OthersKept, HomedTables, Alike, RowsKept, MessagesKept
<1> QED BY Zenon, <1>1, <1>3

(* A table that no thread shows, or only its turns.                        *)
LEMMA PutTurns ==
  ASSUME NEW rows, HomedTables(rows), NEW u, NEW next, DOMAIN next = DOMAIN rows,
         \A f \in {"threads", "messages", "plans", "activities", "sessions"} : next[f] = rows[f],
         OtherTurns(rows.turns, next.turns, u)
  PROVE  OthersKept(rows, next, u)
<1>1. /\ next.threads = rows.threads /\ next.messages = rows.messages
      /\ next.plans = rows.plans /\ next.sessions = rows.sessions
      /\ next.activities = rows.activities
  OBVIOUS
<1> QED BY Zenon, <1>1 DEF OthersKept, HomedTables, Alike, OtherTurns

LEMMA TurnsOthers ==
  ASSUME NEW rows, HomedTables(rows), NEW e
  PROVE  OthersKept(rows, ApplyTurns(rows, e), e.stream)
<1> DEFINE next == ApplyTurns(rows, e)
           u == e.stream
           at == e.sequence
<1>1. TurnRows(rows.turns) /\ DOMAIN rows = TableNames
  BY Zenon DEF HomedTables
<1>2. /\ DOMAIN next = DOMAIN rows
      /\ \A f \in {"threads", "messages", "plans", "activities", "sessions"} : next[f] = rows[f]
  BY <1>1 DEF ApplyTurns, TableNames
<1>3. \/ next.turns = rows.turns
      \/ next.turns = RunTurn(rows, u, e.arg.turn, at)
      \/ next.turns = AssistantMessageSent(rows.turns, u, e.arg, at)
      \/ next.turns = InterruptTurn(rows.turns, u, e.arg, at)
      \/ next.turns = CheckpointTurn(rows.turns, u, e.arg, at)
      \/ next.turns = (rows.turns \ OfThread(rows.turns, u))
                        \cup KeptTurns(rows.turns, u, e.arg.turnCount)
  BY <1>1 DEF ApplyTurns, TableNames
<1> HIDE DEF next
<1>4. OtherTurns(rows.turns, next.turns, u)
  <2>1. OtherTurns(rows.turns, rows.turns, u)
    BY Zenon, <1>1, SameOthers
  <2>2. OtherTurns(rows.turns, RunTurn(rows, u, e.arg.turn, at), u)
    BY Zenon, <1>1, RunTurnOthers
  <2>3. OtherTurns(rows.turns, AssistantMessageSent(rows.turns, u, e.arg, at), u)
    BY Zenon, <1>1, AssistantMessageOthers
  <2>4. OtherTurns(rows.turns, InterruptTurn(rows.turns, u, e.arg, at), u)
    BY Zenon, <1>1, InterruptOthers
  <2>5. OtherTurns(rows.turns, CheckpointTurn(rows.turns, u, e.arg, at), u)
    BY Zenon, <1>1, CheckpointTurnOthers
  <2>6. OtherTurns(rows.turns, (rows.turns \ OfThread(rows.turns, u))
                        \cup KeptTurns(rows.turns, u, e.arg.turnCount), u)
    BY <1>1 DEF OtherTurns, TurnRows, OfThread, KeptTurns
  <2> QED BY Zenon, <1>3, <2>1, <2>2, <2>3, <2>4, <2>5, <2>6
<1> QED BY Zenon, <1>2, <1>4, PutTurns DEF next

PutProjects(rows, p, e) == [rows EXCEPT !.projects[p] = ProjectAfter(@, e)]
LEMMA ProjectsOthers ==
  ASSUME NEW rows, HomedTables(rows), NEW p, NEW e
  PROVE  OthersKept(rows, PutProjects(rows, p, e), p)
<1>1. PICK next : next = PutProjects(rows, p, e)
  OBVIOUS
<1>2. /\ DOMAIN next = TableNames
      /\ next.threads = rows.threads /\ next.messages = rows.messages
      /\ next.plans = rows.plans /\ next.sessions = rows.sessions
      /\ next.activities = rows.activities /\ next.turns = rows.turns
  BY <1>1 DEF HomedTables, TableNames, PutProjects
<1>3. OthersKept(rows, next, p)
  BY Zenon, <1>2 DEF OthersKept, HomedTables, Alike
<1> QED BY Zenon, <1>1, <1>3

PutApprovals(rows, e) == [rows EXCEPT !.approvals = ApplyApprovals(@, e)]
LEMMA ApprovalsOthers ==
  ASSUME NEW rows, HomedTables(rows), NEW e, NEW u
  PROVE  OthersKept(rows, PutApprovals(rows, e), u)
<1>1. PICK next : next = PutApprovals(rows, e)
  OBVIOUS
<1>2. /\ DOMAIN next = TableNames
      /\ next.threads = rows.threads /\ next.messages = rows.messages
      /\ next.plans = rows.plans /\ next.sessions = rows.sessions
      /\ next.activities = rows.activities /\ next.turns = rows.turns
  BY <1>1 DEF HomedTables, TableNames, PutApprovals
<1>3. OthersKept(rows, next, u)
  BY Zenon, <1>2 DEF OthersKept, HomedTables, Alike
<1> QED BY Zenon, <1>1, <1>3

(* A projector changes what other threads show only if the event carries   *)
(* an id that is theirs.                                                   *)
LEMMA ProjectorKeepsOthers ==
  ASSUME OneThreadPerItem, NEW name, NEW rows, HomedTables(rows), NEW e, Homed(e)
  PROVE  OthersKept(rows, ApplyProjector(name, rows, e), e.stream)
<1> DEFINE next == ApplyProjector(name, rows, e)
           u == e.stream
           count == e.arg.turnCount
<1>1. OthersKept(rows, rows, u)
  BY Zenon, KeepOthers
<1>2. OthersKept(rows, PutProjects(rows, u, e), u)
  BY Zenon, ProjectsOthers
<1>3. OthersKept(rows, PutApprovals(rows, e), u)
  BY Zenon, ApprovalsOthers
<1>4. OthersKept(rows, ApplyTurns(rows, e), u)
  BY Zenon, TurnsOthers
<1>5. /\ OthersKept(rows, [rows EXCEPT !.threads[u] = ApplyThreads(rows, e)], u)
      /\ OthersKept(rows, [rows EXCEPT !.sessions[u] = e.arg], u)
  BY Zenon, PutThreads
<1>6. ASSUME e.type = "thread.message-sent"
      PROVE  OthersKept(rows, [rows EXCEPT !.messages = ApplyMessage(rows.messages, u, e.arg)], u)
  <2>1. "id" \in DOMAIN e.arg /\ Known("thread.message-sent", e.arg.id, u)
    BY Zenon, <1>6 DEF Homed, ItemTypes
  <2>2. PICK messages, arg : messages = rows.messages /\ arg = e.arg
    OBVIOUS
  <2>3. "id" \in DOMAIN arg /\ Known("thread.message-sent", arg.id, u) /\ HomedMessages(messages)
    BY Zenon, <2>1, <2>2 DEF HomedTables
  <2>4. MessagesKept(messages, ApplyMessage(messages, u, arg), u)
    BY Zenon, <2>3, MessageOthers
  <2>5. PICK after : after = ApplyMessage(messages, u, arg)
    OBVIOUS
  <2>6. OthersKept(rows, [rows EXCEPT !.messages = after], u)
    BY Zenon, <2>2, <2>4, <2>5, PutMessages
  <2> QED BY Zenon, <2>2, <2>5, <2>6
<1>7. OthersKept(rows, [rows EXCEPT !.messages = RevertMessages(rows, u, count)], u)
  <2>1. PICK after : after = RevertMessages(rows, u, count)
    OBVIOUS
  <2>2. MessagesKept(rows.messages, after, u)
    BY Zenon, <2>1, RevertMessagesOthers DEF HomedTables
  <2>3. OthersKept(rows, [rows EXCEPT !.messages = after], u)
    BY Zenon, <2>2, PutMessages
  <2> QED BY Zenon, <2>1, <2>3
<1>8. ASSUME e.type = "thread.proposed-plan-upserted"
      PROVE  OthersKept(rows, [rows EXCEPT !.plans =
                                 UpsertById(rows.plans, WithThread(e.arg, u))], u)
  <2>1. "id" \in DOMAIN e.arg /\ Known("thread.proposed-plan-upserted", e.arg.id, u)
    BY Zenon, <1>8 DEF Homed, ItemTypes
  <2>2. PICK plans, arg : plans = rows.plans /\ arg = e.arg
    OBVIOUS
  <2>3. /\ "id" \in DOMAIN arg /\ Known("thread.proposed-plan-upserted", arg.id, u)
        /\ HomedRows("thread.proposed-plan-upserted", plans)
    BY Zenon, <2>1, <2>2 DEF HomedTables
  <2>5. PICK after : after = UpsertById(plans, WithThread(arg, u))
    OBVIOUS
  <2>4. RowsKept("thread.proposed-plan-upserted", plans, after, u)
    BY Zenon, <2>3, <2>5, UpsertOthers
  <2>6. OthersKept(rows, [rows EXCEPT !.plans = after], u)
    BY Zenon, <2>2, <2>4, PutPlans
  <2> QED BY Zenon, <2>2, <2>5, <2>6
<1>9. OthersKept(rows, [rows EXCEPT !.plans = RevertRows(rows.plans, rows, u, count)], u)
  <2>1. PICK after : after = RevertRows(rows.plans, rows, u, count)
    OBVIOUS
  <2>2. RowsKept("thread.proposed-plan-upserted", rows.plans, after, u)
    BY Zenon, <2>1, RevertRowsOthers DEF HomedTables
  <2>3. OthersKept(rows, [rows EXCEPT !.plans = after], u)
    BY Zenon, <2>2, PutPlans
  <2> QED BY Zenon, <2>1, <2>3
<1>10. ASSUME e.type = "thread.activity-appended"
       PROVE  OthersKept(rows, [rows EXCEPT !.activities =
                                  UpsertById(rows.activities, WithThread(e.arg, u))], u)
  <2>1. "id" \in DOMAIN e.arg /\ Known("thread.activity-appended", e.arg.id, u)
    BY Zenon, <1>10 DEF Homed, ItemTypes
  <2>2. PICK activities, arg : activities = rows.activities /\ arg = e.arg
    OBVIOUS
  <2>3. /\ "id" \in DOMAIN arg /\ Known("thread.activity-appended", arg.id, u)
        /\ HomedRows("thread.activity-appended", activities)
    BY Zenon, <2>1, <2>2 DEF HomedTables
  <2>5. PICK after : after = UpsertById(activities, WithThread(arg, u))
    OBVIOUS
  <2>4. RowsKept("thread.activity-appended", activities, after, u)
    BY Zenon, <2>3, <2>5, UpsertOthers
  <2>6. OthersKept(rows, [rows EXCEPT !.activities = after], u)
    BY Zenon, <2>2, <2>4, PutActivities
  <2> QED BY Zenon, <2>2, <2>5, <2>6
<1>11. OthersKept(rows, [rows EXCEPT !.activities =
                           RevertRows(rows.activities, rows, u, count)], u)
  <2>1. PICK after : after = RevertRows(rows.activities, rows, u, count)
    OBVIOUS
  <2>2. RowsKept("thread.activity-appended", rows.activities, after, u)
    BY Zenon, <2>1, RevertRowsOthers DEF HomedTables
  <2>3. OthersKept(rows, [rows EXCEPT !.activities = after], u)
    BY Zenon, <2>2, PutActivities
  <2> QED BY Zenon, <2>1, <2>3
<1>12. \/ next = rows \/ next = PutProjects(rows, u, e) \/ next = PutApprovals(rows, e)
       \/ next = ApplyTurns(rows, e)
       \/ next = [rows EXCEPT !.threads[u] = ApplyThreads(rows, e)]
       \/ next = [rows EXCEPT !.sessions[u] = e.arg]
       \/ /\ e.type = "thread.message-sent"
          /\ next = [rows EXCEPT !.messages = ApplyMessage(rows.messages, u, e.arg)]
       \/ next = [rows EXCEPT !.messages = RevertMessages(rows, u, count)]
       \/ /\ e.type = "thread.proposed-plan-upserted"
          /\ next = [rows EXCEPT !.plans = UpsertById(rows.plans, WithThread(e.arg, u))]
       \/ next = [rows EXCEPT !.plans = RevertRows(rows.plans, rows, u, count)]
       \/ /\ e.type = "thread.activity-appended"
          /\ next = [rows EXCEPT !.activities = UpsertById(rows.activities, WithThread(e.arg, u))]
       \/ next = [rows EXCEPT !.activities = RevertRows(rows.activities, rows, u, count)]
  BY Zenon DEF ApplyProjector, PutProjects, PutApprovals
<1> HIDE DEF next
<1> QED BY Zenon, <1>1, <1>2, <1>3, <1>4, <1>5, <1>6, <1>7, <1>8, <1>9, <1>10, <1>11, <1>12 DEF next

LEMMA OthersKeptOn ==
  ASSUME NEW rows, NEW mid, NEW next, NEW u, OthersKept(rows, mid, u), OthersKept(mid, next, u)
  PROVE  OthersKept(rows, next, u)
BY Zenon DEF OthersKept, Alike

(* An event into the tables, projector after projector.                    *)
KeptClaim(x, k, acc) == OthersKept(x.base, acc, x.event.stream)
KeptRows == INSTANCE FoldLaws WITH Op <- RowsStep, P <- KeptClaim
KeptRecorded == INSTANCE FoldLaws WITH Op <- RecordedStep, P <- KeptClaim

LEMMA KeptRowsLeast == KeptRows!LeastMembers
BY LeastNatural DEF KeptRows!LeastMembers

LEMMA KeptRecordedLeast == KeptRecorded!LeastMembers
BY LeastNatural DEF KeptRecorded!LeastMembers

LEMMA KeptFolds ==
  /\ \A x, rows : KeptRows!Fold(x, rows, Projectors) = ApplyEvent(rows, x.event)
  /\ \A x, rows : KeptRecorded!Fold(x, rows, Projectors) = ApplyWhatIsRecorded(rows, x.event)
<1>1. \A x, rows : KeptRows!Fold(x, rows, Projectors) = ApplyEvent(rows, x.event)
  BY Zenon DEF KeptRows!Fold, KeptRows!Greatest, FoldLeft, MapThenFoldSet, Max, RowsStep, ApplyEvent
<1>2. \A x, rows :
        KeptRecorded!Fold(x, rows, Projectors) = ApplyWhatIsRecorded(rows, x.event)
  BY Zenon DEF KeptRecorded!Fold, KeptRecorded!Greatest, FoldLeft, MapThenFoldSet,
               Max, RecordedStep, ApplyWhatIsRecorded
<1> QED BY Zenon, <1>1, <1>2

LEMMA EventKeepsOthers ==
  ASSUME OneThreadPerItem, NEW rows, HomedTables(rows), NEW e, Homed(e)
  PROVE  /\ OthersKept(rows, ApplyEvent(rows, e), e.stream)
         /\ OthersKept(rows, ApplyWhatIsRecorded(rows, e), e.stream)
<1> DEFINE x == [base |-> rows, event |-> e]
<1>1. x.base = rows /\ x.event = e
  OBVIOUS
<1> HIDE DEF x
<1>2. KeptClaim(x, 0, rows)
  BY Zenon, <1>1, KeepOthers DEF KeptClaim
<1>3. ASSUME NEW k \in 1..Len(Projectors), NEW acc, KeptClaim(x, k - 1, acc)
      PROVE  /\ KeptClaim(x, k, RowsStep(x, acc, Projectors[k]))
             /\ KeptClaim(x, k, RecordedStep(x, acc, Projectors[k]))
  <2>1. PICK name, next : name = Projectors[k] /\ next = ApplyProjector(name, acc, e)
    OBVIOUS
  <2>2. OthersKept(rows, acc, e.stream)
    BY Zenon, <1>1, <1>3 DEF KeptClaim
  <2>3. HomedTables(acc)
    BY Zenon, <2>2 DEF OthersKept
  <2>4. OthersKept(acc, next, e.stream)
    BY Zenon, <2>1, <2>3, ProjectorKeepsOthers
  <2>5. OthersKept(rows, next, e.stream)
    BY Zenon, <2>2, <2>4, OthersKeptOn
  <2>6. RowsStep(x, acc, name) = next
    BY Zenon, <1>1, <2>1 DEF RowsStep
  <2>7. RecordedStep(x, acc, name) = next \/ RecordedStep(x, acc, name) = acc
    BY Zenon, <1>1, <2>1 DEF RecordedStep
  <2> QED BY Zenon, <1>1, <2>1, <2>2, <2>5, <2>6, <2>7 DEF KeptClaim
<1>4. KeptClaim(x, Len(Projectors), KeptRows!Fold(x, rows, Projectors))
  BY Zenon, <1>2, <1>3, ProjectorsType, KeptRowsLeast, KeptRows!FoldInvariant
<1>5. KeptClaim(x, Len(Projectors), KeptRecorded!Fold(x, rows, Projectors))
  BY Zenon, <1>2, <1>3, ProjectorsType, KeptRecordedLeast, KeptRecorded!FoldInvariant
<1> QED BY Zenon, <1>1, <1>4, <1>5, KeptFolds DEF KeptClaim

(* A block of events into the tables.                                      *)
AllHomed(events) == \A i \in DOMAIN events : Homed(events[i])
OutsideClaim(x, k, acc) ==
  /\ HomedTables(acc)
  /\ \A t \in Threads : (\A i \in 1..k : x.events[i].stream # t) => Alike(x.base, acc, t)
OutsideFold == INSTANCE FoldLaws WITH Op <- TablesStep, P <- OutsideClaim
HomedClaim(x, k, acc) == HomedTables(acc)
HomedEarlier == INSTANCE FoldLaws WITH Op <- EarlierStep, P <- HomedClaim

LEMMA OutsideFoldLeast == OutsideFold!LeastMembers
BY LeastNatural DEF OutsideFold!LeastMembers

LEMMA HomedEarlierLeast == HomedEarlier!LeastMembers
BY LeastNatural DEF HomedEarlier!LeastMembers

LEMMA HomedFolds ==
  /\ \A x, rows, events :
       OutsideFold!Fold(x, rows, events) = FoldLeft(ApplyEvent, rows, events)
  /\ \A x, rows, events :
       HomedEarlier!Fold(x, rows, events) = FoldLeft(ApplyWhatIsRecorded, rows, events)
<1>1. \A x, rows, events :
        OutsideFold!Fold(x, rows, events) = FoldLeft(ApplyEvent, rows, events)
  BY Zenon DEF OutsideFold!Fold, OutsideFold!Greatest, FoldLeft, MapThenFoldSet, Max, TablesStep
<1>2. \A x, rows, events :
        HomedEarlier!Fold(x, rows, events) = FoldLeft(ApplyWhatIsRecorded, rows, events)
  BY Zenon DEF HomedEarlier!Fold, HomedEarlier!Greatest, FoldLeft, MapThenFoldSet, Max, EarlierStep
<1> QED BY Zenon, <1>1, <1>2

LEMMA EventsKeepOthers ==
  ASSUME OneThreadPerItem, NEW rows, HomedTables(rows), NEW S, NEW events \in Seq(S),
         AllHomed(events)
  PROVE  /\ HomedTables(FoldLeft(ApplyEvent, rows, events))
         /\ \A t \in Threads : (\A i \in DOMAIN events : events[i].stream # t) =>
              Alike(rows, FoldLeft(ApplyEvent, rows, events), t)
<1> DEFINE x == [base |-> rows, events |-> events]
<1>0. Len(events) \in Nat /\ DOMAIN events = 1..Len(events)
  OBVIOUS
<1>1. x.base = rows /\ x.events = events
  OBVIOUS
<1> HIDE DEF x
<1>2. OutsideClaim(x, 0, rows)
  BY Zenon, <1>1 DEF OutsideClaim, Alike
<1>3. ASSUME NEW k \in 1..Len(events), NEW acc, OutsideClaim(x, k - 1, acc)
      PROVE  OutsideClaim(x, k, TablesStep(x, acc, events[k]))
  <2>1. PICK e, next : e = events[k] /\ next = ApplyEvent(acc, e)
    OBVIOUS
  <2>2. Homed(e)
    BY Zenon, <1>0, <2>1 DEF AllHomed
  <2>3. /\ HomedTables(acc)
        /\ \A t \in Threads : (\A i \in 1..k - 1 : events[i].stream # t) => Alike(rows, acc, t)
    BY Zenon, <1>1, <1>3 DEF OutsideClaim
  <2>4. OthersKept(acc, next, e.stream)
    BY Zenon, <2>1, <2>2, <2>3, EventKeepsOthers
  <2>5. k \in 1..k /\ \A i \in 1..k - 1 : i \in 1..k
    BY <1>0
  <2>6. ASSUME NEW t \in Threads, \A i \in 1..k : events[i].stream # t
        PROVE  Alike(rows, next, t)
    <3>1. Alike(rows, acc, t)
      BY Zenon, <2>3, <2>5, <2>6
    <3>2. Alike(acc, next, t)
      BY Zenon, <2>1, <2>4, <2>5, <2>6 DEF OthersKept
    <3> QED BY Zenon, <3>1, <3>2 DEF Alike
  <2>7. HomedTables(next)
    BY Zenon, <2>4 DEF OthersKept
  <2>8. OutsideClaim(x, k, next)
    BY Zenon, <1>1, <2>6, <2>7 DEF OutsideClaim
  <2>9. TablesStep(x, acc, e) = next
    BY Zenon, <2>1 DEF TablesStep
  <2> QED BY Zenon, <2>1, <2>8, <2>9
<1>4. OutsideClaim(x, Len(events), OutsideFold!Fold(x, rows, events))
  BY Zenon, <1>2, <1>3, OutsideFoldLeast, OutsideFold!FoldInvariant
<1>5. PICK after : after = FoldLeft(ApplyEvent, rows, events)
  OBVIOUS
<1>6. OutsideFold!Fold(x, rows, events) = after
  BY Zenon, <1>5, HomedFolds
<1>7. /\ HomedTables(after)
      /\ \A t \in Threads :
           (\A i \in 1..Len(events) : events[i].stream # t) => Alike(rows, after, t)
  BY Zenon, <1>1, <1>4, <1>6 DEF OutsideClaim
<1> QED BY Zenon, <1>0, <1>5, <1>7

LEMMA EmptyTablesHomed == HomedTables(EmptyTables)
<1>1. /\ DOMAIN EmptyTables = TableNames
      /\ DOMAIN EmptyTables.threads = Threads /\ DOMAIN EmptyTables.sessions = Threads
      /\ EmptyTables.messages = <<>> /\ EmptyTables.plans = {} /\ EmptyTables.activities = {}
      /\ EmptyTables.turns = {}
  BY DEF EmptyTables, TableNames
<1>2. <<>> \in Seq({}) /\ HomedRows("thread.message-sent", {})
  BY DEF HomedRows
<1>3. HomedMessages(<<>>)
  BY Zenon, <1>2 DEF HomedMessages
<1> QED BY Zenon, <1>1, <1>3 DEF HomedTables, HomedRows, TurnRows

LEMMA InitialTablesHomed ==
  ASSUME OneThreadPerItem, AllHomed(InitialLog)
  PROVE  HomedTables(FoldLeft(ApplyWhatIsRecorded, EmptyTables, InitialLog))
<1>0. InitialLog \in Seq(StoredEvent) /\ DOMAIN InitialLog = 1..Len(InitialLog)
  BY InitialLogAssumption
<1>2. HomedClaim(0, 0, EmptyTables)
  BY Zenon, EmptyTablesHomed DEF HomedClaim
<1>3. ASSUME NEW k \in 1..Len(InitialLog), NEW acc, HomedClaim(0, k - 1, acc)
      PROVE  HomedClaim(0, k, EarlierStep(0, acc, InitialLog[k]))
  <2>1. Homed(InitialLog[k])
    BY Zenon, <1>0 DEF AllHomed
  <2>2. OthersKept(acc, ApplyWhatIsRecorded(acc, InitialLog[k]), InitialLog[k].stream)
    BY Zenon, <1>3, <2>1, EventKeepsOthers DEF HomedClaim
  <2> QED BY Zenon, <2>2 DEF HomedClaim, OthersKept, EarlierStep
<1>4. HomedClaim(0, Len(InitialLog), HomedEarlier!Fold(0, EmptyTables, InitialLog))
  BY Zenon, <1>0, <1>2, <1>3, HomedEarlierLeast, HomedEarlier!FoldInvariant
<1> QED BY Zenon, <1>4, HomedFolds DEF HomedClaim

(* What a snapshot shows of a thread is what Alike compares.               *)
LEMMA AlikeSnapshots ==
  ASSUME NEW rows, NEW next, NEW t \in Threads, Alike(rows, next, t)
  PROVE  Snapshot(next).threads[t] = Snapshot(rows).threads[t]
<1>1. \A a : Snapshot(a).threads[t] =
               IF a.threads[t].exists THEN SnapshotThread(a, t) ELSE AbsentThread
  BY DEF Snapshot
<1>2. SnapshotThread(next, t) = SnapshotThread(rows, t)
  BY Zenon DEF SnapshotThread, Alike, MessagesOf
<1> QED BY Zenon, <1>1, <1>2 DEF Alike

(* What the events of the log and of every transaction are made of: drafts,*)
(* but for the deletions of a project and its threads.                     *)
Drafted(e) ==
  e.type \notin {"thread.deleted", "project.deleted"} =>
    \E d \in DraftsOf(e.type) : d.stream = e.stream /\ d.arg = e.arg

LEMMA InitialLogDrafted ==
  ASSUME NEW i \in DOMAIN InitialLog
  PROVE  Drafted(InitialLog[i])
<1>1. PICK e : e = InitialLog[i]
  OBVIOUS
<1>2. e \in DraftsOf(e.type)
  BY <1>1 DEF DraftsOf, Drafts, Range
<1> QED BY Zenon, <1>1, <1>2 DEF Drafted

(* What a command plans is drafted: it does not depend on the model,       *)
(* deletions excepted.                                                     *)
LEMMA DeletesAreDrafted ==
  ASSUME NEW model, NEW project,
         NEW i \in DOMAIN PlanProjectDelete(model, project)
  PROVE  Drafted(PlanProjectDelete(model, project)[i])
<1> DEFINE doomed == SetToSeq(ActiveThreads(model, project))
           deletions == [k \in DOMAIN doomed |-> Planned(doomed[k], "thread.deleted", None)]
           last == <<Planned(project, "project.deleted", None)>>
           plan == deletions \o last
<1>1. doomed \in Seq(ActiveThreads(model, project))
  <2>1. ActiveThreads(model, project) \in SUBSET Threads
    BY DEF ActiveThreads
  <2> HIDE DEF doomed
  <2> QED BY <2>1, ListOfThreads DEF doomed
<1> HIDE DEF doomed
<1>2. DOMAIN doomed = 1..Len(doomed) /\ Len(doomed) \in Nat
  BY <1>1
<1>3. deletions = [k \in 1..Len(doomed) |-> Planned(doomed[k], "thread.deleted", None)]
  BY <1>2
<1>4. plan = PlanProjectDelete(model, project)
  BY DEF PlanProjectDelete, doomed
<1>5. DOMAIN plan = 1..Len(doomed) + 1
      /\ (\A k \in 1..Len(doomed) : plan[k] = Planned(doomed[k], "thread.deleted", None))
      /\ plan[Len(doomed) + 1] = Planned(project, "project.deleted", None)
  BY <1>2, <1>3
<1> HIDE DEF plan
<1>6. \A k \in DOMAIN plan : plan[k].type \in {"thread.deleted", "project.deleted"}
  <2>1. ASSUME NEW k \in DOMAIN plan
        PROVE  plan[k].type \in {"thread.deleted", "project.deleted"}
    <3>1. k \in 1..Len(doomed) \/ k = Len(doomed) + 1
      BY <1>2, <1>5
    <3> QED BY <1>5, <3>1, PlannedFields
  <2> QED BY <2>1
<1> QED BY Zenon, <1>4, <1>6 DEF Drafted

PlanImport(stream, messages, project) ==
  <<Planned(stream, "thread.created", project)>>
    \o [i \in DOMAIN messages |-> Planned(stream, "thread.message-sent", messages[i])]

LEMMA PlannedDrafted ==
  ASSUME NEW model, NEW cmd \in Commands, NEW i \in DOMAIN Plan(model, cmd)
  PROVE  Drafted(Plan(model, cmd)[i])
<1>1. PICK id \in CommandIds, r \in Requests : cmd = CommandFor(id, r)
  BY DEF Commands
<1>2. PICK bare : bare = CommandFor(None, r)
  OBVIOUS
<1>3. /\ cmd.type = r.type /\ cmd.stream = r.stream /\ cmd.arg = r.arg /\ cmd.source = r.source
      /\ bare.type = r.type /\ bare.stream = r.stream /\ bare.arg = r.arg
      /\ bare.source = r.source
  BY <1>1, <1>2 DEF CommandFor
<1>4. CASE cmd.type = "project.delete"
  <2>1. Plan(model, cmd) = PlanProjectDelete(model, cmd.stream)
    BY <1>4 DEF Plan, ThreadEventOf, OrchestratorEventOf
  <2> QED BY Zenon, <2>1, DeletesAreDrafted
<1>5. CASE cmd.type # "project.delete"
  <2>1. Plan(model, cmd) = Plan(EmptyReadModel, bare)
    <3>1. CASE cmd.type = "chat.import"
      <4>1. Plan(model, cmd) = PlanImport(cmd.stream, cmd.arg, cmd.source)
        BY <3>1 DEF Plan, PlanImport, ThreadEventOf, OrchestratorEventOf
      <4>2. Plan(EmptyReadModel, bare) = PlanImport(bare.stream, bare.arg, bare.source)
        BY <1>3, <3>1 DEF Plan, PlanImport, ThreadEventOf, OrchestratorEventOf
      <4> QED BY Zenon, <1>3, <4>1, <4>2
    <3>2. CASE cmd.type # "chat.import"
      BY <1>3, <1>5, <3>2 DEF Plan, ThreadEventOf, OrchestratorEventOf
    <3> QED BY Zenon, <3>1, <3>2
  <2>2. PICK plan, e : plan = Plan(model, cmd) /\ e = plan[i]
    OBVIOUS
  <2>3. e \in Range(Plan(EmptyReadModel, CommandFor(None, r)))
    BY <1>2, <2>1, <2>2 DEF Range
  <2>4. e \in Drafts
    BY Zenon, <2>3 DEF Drafts
  <2>5. e \in DraftsOf(e.type)
    BY <2>4 DEF DraftsOf
  <2>6. Drafted(e)
    BY Zenon, <2>5 DEF Drafted
  <2> QED BY Zenon, <2>2, <2>6
<1> QED BY Zenon, <1>4, <1>5

(* A draft that carries an item is at home.                                *)
LEMMA DraftHomed ==
  ASSUME OneThreadPerItem, NEW e, Drafted(e)
  PROVE  Homed(e)
<1> SUFFICES ASSUME e.type \in ItemTypes
             PROVE  "id" \in DOMAIN e.arg /\ Known(e.type, e.arg.id, e.stream)
  BY DEF Homed
<1>1. e.type \notin {"thread.deleted", "project.deleted"}
  BY DEF ItemTypes
<1>2. PICK d \in Drafts : d.type = e.type /\ d.stream = e.stream /\ d.arg = e.arg
  BY <1>1 DEF Drafted, DraftsOf
<1>3. d \in Carriers
  BY <1>2 DEF Carriers
<1>4. "id" \in DOMAIN d.arg
  BY <1>3 DEF OneThreadPerItem
<1> QED BY <1>2, <1>3, <1>4 DEF Known

LEMMA InitialLogHomed ==
  ASSUME OneThreadPerItem
  PROVE  AllHomed(InitialLog)
<1>1. \A i \in DOMAIN InitialLog : Homed(InitialLog[i])
  BY Zenon, InitialLogDrafted, DraftHomed
<1> QED BY Zenon, <1>1 DEF AllHomed

LEMMA PlannedHomed ==
  ASSUME OneThreadPerItem, NEW model, NEW cmd \in Commands,
         NEW i \in DOMAIN Plan(model, cmd)
  PROVE  Homed(Plan(model, cmd)[i])
BY Zenon, PlannedDrafted, DraftHomed

HomedState ==
  /\ HomedTables(tables) /\ AllHomed(log) /\ AllHomed(saved)
  /\ \A row \in todo : Homed(row.event)

LEMMA HomedInit ==
  ASSUME OneThreadPerItem, Init
  PROVE  HomedState
<1>1. AllHomed(InitialLog) /\ AllHomed(<<>>)
  <2>1. AllHomed(<<>>)
    BY DEF AllHomed
  <2> QED BY Zenon, <2>1, InitialLogHomed
<1>2. HomedTables(FoldLeft(ApplyWhatIsRecorded, EmptyTables, InitialLog))
  BY Zenon, <1>1, InitialTablesHomed
<1>3. log = InitialLog /\ saved = <<>> /\ todo = {}
  BY DEF Init
<1>4. tables = FoldLeft(ApplyWhatIsRecorded, EmptyTables, InitialLog)
  BY Zenon DEF Init
<1>5. \A row \in todo : Homed(row.event)
  BY <1>3
<1> QED BY Zenon, <1>1, <1>2, <1>3, <1>4, <1>5 DEF HomedState

LEMMA HomedConcat ==
  ASSUME NEW events \in Seq(StoredEvent), NEW more \in Seq(StoredEvent),
         AllHomed(events), AllHomed(more)
  PROVE  AllHomed(events \o more)
<1>1. \A i \in DOMAIN (events \o more) :
        \/ i \in DOMAIN events /\ (events \o more)[i] = events[i]
        \/ i - Len(events) \in DOMAIN more /\ (events \o more)[i] = more[i - Len(events)]
  OBVIOUS
<1> QED BY Zenon, <1>1 DEF AllHomed

(* The tables change in a replay, by an event of the log, or in a commit,  *)
(* by the events it stores.                                                *)
LEMMA TablesChange ==
  ASSUME TypeOK, Working, Cursors, OneThreadPerItem, HomedState, [Next]_vars
  PROVE  /\ HomedTables(tables')
         /\ phase = "append" => \A t \in Threads :
              (\A i \in DOMAIN saved : saved[i].stream # t) => Alike(tables, tables', t)
<1>0. /\ log \in Seq(StoredEvent) /\ saved \in Seq(StoredEvent) /\ Ordered
      /\ HomedTables(tables) /\ AllHomed(log) /\ AllHomed(saved)
  BY VisibleLog DEF HomedState, Cursors
<1>1. CASE tables' = tables
  BY Zenon, <1>0, <1>1 DEF Alike
<1>2. CASE BootstrapEvent
  <2>1. PICK n, m \in Nat : ReplaysFrom(n, m)
    BY <1>2 DEF BootstrapEvent, Cursors, Replaying
  <2>2. n # m /\ n < m /\ m <= Len(log) /\ Len(log) \in Nat
    <3>1. replay # <<>> /\ n <= m /\ m <= Len(log) /\ replay = Slice(log, n, m)
      BY <1>2, <2>1 DEF BootstrapEvent, ReplaysFrom
    <3>2. n # m
      BY <1>0, <3>1, SliceEmpty
    <3> QED BY <1>0, <3>1, <3>2
  <2>3. Head(replay) = log[n + 1]
    BY <1>0, <2>1, <2>2, SliceHeadTail DEF ReplaysFrom
  <2>4. n + 1 \in DOMAIN log
    BY <1>0, <2>2
  <2>5. PICK name, e : name = Projectors[projector] /\ e = log[n + 1]
    OBVIOUS
  <2>6. tables' = ApplyProjector(name, tables, e) /\ phase # "append"
    BY <1>2, <2>3, <2>5 DEF BootstrapEvent
  <2>7. Homed(e)
    BY Zenon, <1>0, <2>4, <2>5 DEF AllHomed
  <2>8. OthersKept(tables, ApplyProjector(name, tables, e), e.stream)
    BY Zenon, <1>0, <2>7, ProjectorKeepsOthers
  <2> QED BY Zenon, <2>6, <2>8 DEF OthersKept
<1>3. CASE Commit
  <2>1. PICK next : next = FoldLeft(ApplyEvent, tables, saved)
    OBVIOUS
  <2>2. tables' = FoldLeft(ApplyEvent, tables, saved)
    BY Zenon, <1>3 DEF Commit
  <2>3. HomedTables(next)
    BY Zenon, <1>0, <2>1, EventsKeepOthers
  <2>4. \A t \in Threads : (\A i \in DOMAIN saved : saved[i].stream # t) => Alike(tables, next, t)
    BY Zenon, <1>0, <2>1, EventsKeepOthers
  <2> QED BY Zenon, <2>1, <2>2, <2>3, <2>4
<1>4. CASE CommitAcknowledged \/ CommitUnacknowledged
  BY Zenon, <1>3, <1>4 DEF CommitAcknowledged, CommitUnacknowledged
<1>5. CASE StartServer \/ BootstrapNext \/ LoadSnapshot
  BY <1>1, <1>5 DEF StartServer, BootstrapNext, LoadSnapshot
<1>6. CASE Client \/ ReplayReceipt \/ BreakInvariant \/ FailLookup \/ BeginTransaction
           \/ UNCHANGED vars
  BY <1>1, <1>6 DEF Client, Redispatch, Dispatch, Enqueue, ReplayReceipt, BreakInvariant,
     FailLookup, BeginTransaction, Take, vars
<1>7. CASE \/ AppendEvent \/ ViolateUnique \/ FailTransaction \/ Reconcile \/ FailReconcile
           \/ PublishEvent \/ RecordRejection \/ AnswerClient \/ Crash
  BY <1>1, <1>7 DEF AppendEvent, ViolateUnique, FailTransaction, Rollback, Reconcile,
     FailReconcile, PublishEvent, RecordRejection, AnswerClient, Crash
<1> QED BY Zenon, <1>2, <1>4, <1>5, <1>6, <1>7 DEF Next, Startup, Process, StorageFailure

LEMMA HomedKept ==
  ASSUME TypeOK, Working, Cursors, OneThreadPerItem, HomedState, [Next]_vars
  PROVE  HomedState'
<1>0. /\ log \in Seq(StoredEvent) /\ saved \in Seq(StoredEvent)
      /\ AllHomed(log) /\ AllHomed(saved) /\ AllHomed(<<>>)
  BY DEF HomedState, TypeOK, AllHomed
<1>t. HomedTables(tables')
  BY Zenon, TablesChange
<1>1. ASSUME log' = log, saved' \in {saved, <<>>}, todo' \subseteq todo PROVE HomedState'
  BY <1>0, <1>t, <1>1 DEF HomedState
<1>2. CASE Startup \/ Client \/ ReplayReceipt \/ BreakInvariant \/ FailLookup \/ UNCHANGED vars
  <2>1. log' = log /\ saved' = saved /\ todo' = todo
    BY <1>2 DEF Startup, StartServer, BootstrapEvent, BootstrapNext, LoadSnapshot, Client,
       Redispatch, Dispatch, Enqueue, ReplayReceipt, BreakInvariant, FailLookup, Take, vars
  <2> QED BY <1>1, <2>1
<1>3. CASE BeginTransaction
  <2>1. /\ log' = log /\ saved' = <<>> /\ todo' = RowsToInsert(Head(queue)) /\ queue # <<>>
    BY <1>3 DEF BeginTransaction, Take
  <2>2. Head(queue) \in Commands
    BY <2>1 DEF TypeOK
  <2>3. PICK cmd \in Commands : cmd = Head(queue)
    BY <2>2
  <2>4. cmd.type # "chat.fork"
    <3>1. PICK id \in CommandIds, r \in Requests : cmd = CommandFor(id, r)
      BY DEF Commands
    <3>2. cmd.type = r.type /\ r.type # "chat.fork"
      BY <3>1 DEF CommandFor, OneThreadPerItem
    <3> QED BY <3>2
  <2>5. ASSUME NEW row \in todo' PROVE Homed(row.event)
    <3>1. PICK i \in DOMAIN Plan(readModel, cmd) :
            row = [event |-> Plan(readModel, cmd)[i], version |-> None, rank |-> i]
      BY <2>1, <2>3, <2>4 DEF RowsToInsert
    <3>2. Homed(Plan(readModel, cmd)[i])
      BY Zenon, PlannedHomed
    <3>3. row.event = Plan(readModel, cmd)[i]
      BY <3>1
    <3> QED BY Zenon, <3>2, <3>3
  <2> QED BY Zenon, <1>0, <1>t, <2>1, <2>5 DEF HomedState
<1>4. CASE AppendEvent
  <2>1. PICK row \in todo : \E e \in StoredEvent :
          /\ e.stream = row.event.stream /\ e.type = row.event.type /\ e.arg = row.event.arg
          /\ saved' = Append(saved, e) /\ todo' = todo \ {row} /\ log' = log
    BY Zenon, <1>4, AppendsRow
  <2>2. PICK e \in StoredEvent :
          /\ e.stream = row.event.stream /\ e.type = row.event.type /\ e.arg = row.event.arg
          /\ saved' = Append(saved, e) /\ todo' = todo \ {row} /\ log' = log
    BY Zenon, <2>1
  <2>3. Homed(row.event)
    BY Zenon DEF HomedState
  <2>4. Homed(e)
    BY Zenon, <2>2, <2>3 DEF Homed
  <2>5. \A i \in DOMAIN Append(saved, e) :
          \/ i \in DOMAIN saved /\ Append(saved, e)[i] = saved[i]
          \/ Append(saved, e)[i] = e
    BY <1>0
  <2>6. AllHomed(Append(saved, e))
    BY Zenon, <1>0, <2>4, <2>5 DEF AllHomed
  <2>7. \A r \in todo' : Homed(r.event)
    BY <2>2 DEF HomedState
  <2> QED BY Zenon, <1>0, <1>t, <2>2, <2>6, <2>7 DEF HomedState
<1>5. CASE CommitAcknowledged \/ CommitUnacknowledged
  <2>1. log' = log \o saved /\ saved' \in {saved, <<>>} /\ todo' = todo
    BY <1>5 DEF CommitAcknowledged, CommitUnacknowledged, Commit
  <2>2. AllHomed(log \o saved)
    BY Zenon, <1>0, HomedConcat
  <2> QED BY <1>0, <1>t, <2>1, <2>2 DEF HomedState
<1>6. CASE \/ ViolateUnique \/ FailTransaction \/ Reconcile \/ FailReconcile \/ PublishEvent
           \/ RecordRejection \/ AnswerClient \/ Crash
  <2>1. log' = log /\ saved' \in {saved, <<>>} /\ todo' \in {todo, {}}
    BY <1>6 DEF ViolateUnique, FailTransaction, Rollback, Reconcile, FailReconcile, PublishEvent,
       RecordRejection, AnswerClient, Crash
  <2> QED BY <1>1, <2>1
<1> QED BY <1>2, <1>3, <1>4, <1>5, <1>6 DEF Next, Process, StorageFailure

(* Where no two threads share the id of an item, the transaction of a      *)
(* command, committed, rolled back or cut off, changes nothing a snapshot  *)
(* shows of a thread none of its events is of: the upserts by id and the   *)
(* rewrites of whole tables stay with the thread of the event.             *)
THEOREM OthersAreUntouched == OneThreadPerItem => (Spec => OthersUntouched)
<1> SUFFICES ASSUME OneThreadPerItem PROVE Spec => OthersUntouched
  OBVIOUS
<1>1. Init => HomedState
  BY Zenon, HomedInit
<1>2. TypeOK /\ Working /\ Cursors /\ HomedState /\ [Next]_vars => HomedState'
  BY Zenon, HomedKept
<1>3. TypeOK /\ Working /\ Cursors /\ HomedState /\ [Next]_vars =>
        [\A t \in Threads :
           phase = "append" /\ (\A i \in DOMAIN saved : saved[i].stream # t)
             => Snapshot(tables').threads[t] = Snapshot(tables).threads[t]]_vars
  <2> SUFFICES ASSUME TypeOK, Working, Cursors, HomedState, [Next]_vars, NEW t \in Threads,
                      phase = "append", \A i \in DOMAIN saved : saved[i].stream # t
               PROVE  Snapshot(tables').threads[t] = Snapshot(tables).threads[t]
    OBVIOUS
  <2>1. Alike(tables, tables', t)
    BY Zenon, TablesChange
  <2>2. PICK rows, next : rows = tables /\ next = tables'
    OBVIOUS
  <2>3. Snapshot(next).threads[t] = Snapshot(rows).threads[t]
    BY Zenon, <2>1, <2>2, AlikeSnapshots
  <2> QED BY Zenon, <2>2, <2>3
<1> QED BY <1>1, <1>2, <1>3, CursorsReachable, PTL DEF Spec, OthersUntouched

-----------------------------------------------------------------------------
(* What one event of a thread makes of every table: each projector writes  *)
(* its own, and reads no table that an earlier one wrote, but the threads  *)
(* projector, which counts the approvals.                                  *)
MessagesAfter(rows, e) ==
  CASE e.type = "thread.message-sent" -> ApplyMessage(rows.messages, e.stream, e.arg)
    [] e.type = "thread.reverted" -> RevertMessages(rows, e.stream, e.arg.turnCount)
    [] OTHER -> rows.messages
PlansAfter(rows, e) ==
  CASE e.type = "thread.proposed-plan-upserted" ->
         UpsertById(rows.plans, WithThread(e.arg, e.stream))
    [] e.type = "thread.reverted" -> RevertRows(rows.plans, rows, e.stream, e.arg.turnCount)
    [] OTHER -> rows.plans
ActivitiesAfter(rows, e) ==
  CASE e.type = "thread.activity-appended" ->
         UpsertById(rows.activities, WithThread(e.arg, e.stream))
    [] e.type = "thread.reverted" -> RevertRows(rows.activities, rows, e.stream, e.arg.turnCount)
    [] OTHER -> rows.activities
SessionsAfter(rows, e) ==
  IF e.type = "thread.session-set" THEN [rows.sessions EXCEPT ![e.stream] = e.arg]
  ELSE rows.sessions
Counted(rows, approvals) == [threads |-> rows.threads, approvals |-> approvals]
PutThread(threads, e, row) == [threads EXCEPT ![e.stream] = row]
ThreadsAfter(rows, e) ==
  PutThread(rows.threads, e, ApplyThreads(Counted(rows, ApplyApprovals(rows.approvals, e)), e))

Writes(rows, next, f) == DOMAIN next = TableNames /\ \A g \in TableNames \ {f} : next[g] = rows[g]

LEMMA MessagesWritten ==
  ASSUME NEW rows, DOMAIN rows = TableNames, NEW e, e.stream \notin Projects
  PROVE  /\ Writes(rows, ApplyProjector("thread-messages", rows, e), "messages")
         /\ ApplyProjector("thread-messages", rows, e).messages = MessagesAfter(rows, e)
BY DEF Writes, ApplyProjector, MessagesAfter, TableNames

LEMMA PlansWritten ==
  ASSUME NEW rows, DOMAIN rows = TableNames, NEW e, e.stream \notin Projects
  PROVE  /\ Writes(rows, ApplyProjector("thread-proposed-plans", rows, e), "plans")
         /\ ApplyProjector("thread-proposed-plans", rows, e).plans = PlansAfter(rows, e)
BY DEF Writes, ApplyProjector, PlansAfter, TableNames

LEMMA ActivitiesWritten ==
  ASSUME NEW rows, DOMAIN rows = TableNames, NEW e, e.stream \notin Projects
  PROVE  /\ Writes(rows, ApplyProjector("thread-activities", rows, e), "activities")
         /\ ApplyProjector("thread-activities", rows, e).activities = ActivitiesAfter(rows, e)
BY DEF Writes, ApplyProjector, ActivitiesAfter, TableNames

LEMMA SessionsWritten ==
  ASSUME NEW rows, DOMAIN rows = TableNames, NEW e, e.stream \notin Projects
  PROVE  /\ Writes(rows, ApplyProjector("thread-sessions", rows, e), "sessions")
         /\ ApplyProjector("thread-sessions", rows, e).sessions = SessionsAfter(rows, e)
BY DEF Writes, ApplyProjector, SessionsAfter, TableNames

LEMMA ApprovalsWritten ==
  ASSUME NEW rows, DOMAIN rows = TableNames, NEW e, e.stream \notin Projects
  PROVE  /\ Writes(rows, ApplyProjector("pending-approvals", rows, e), "approvals")
         /\ ApplyProjector("pending-approvals", rows, e).approvals
              = ApplyApprovals(rows.approvals, e)
BY DEF Writes, ApplyProjector, TableNames

LEMMA ThreadsWritten ==
  ASSUME NEW rows, DOMAIN rows = TableNames, NEW e, e.stream \notin Projects
  PROVE  /\ Writes(rows, ApplyProjector("threads", rows, e), "threads")
         /\ ApplyProjector("threads", rows, e).threads
              = PutThread(rows.threads, e, ApplyThreads(rows, e))
BY DEF Writes, ApplyProjector, TableNames, PutThread

(* The turns projector writes two tables.                                  *)
WritesTurns(rows, next) ==
  /\ DOMAIN next = TableNames
  /\ \A g \in TableNames \ {"turns", "pending"} : next[g] = rows[g]
LEMMA TurnsWritten ==
  ASSUME NEW rows, DOMAIN rows = TableNames, NEW e, e.stream \notin Projects
  PROVE  /\ ApplyProjector("thread-turns", rows, e) = ApplyTurns(rows, e)
         /\ WritesTurns(rows, ApplyTurns(rows, e))
<1>1. ApplyProjector("thread-turns", rows, e) = ApplyTurns(rows, e)
  BY DEF ApplyProjector
<1>2. DOMAIN ApplyTurns(rows, e) = TableNames
  BY DEF ApplyTurns, TableNames
<1>3. \A g \in TableNames \ {"turns", "pending"} : ApplyTurns(rows, e)[g] = rows[g]
  BY DEF ApplyTurns, TableNames
<1> QED BY <1>1, <1>2, <1>3 DEF WritesTurns

LEMMA NothingWritten ==
  ASSUME NEW rows, NEW e, e.stream \notin Projects, NEW name \in {"projects", "checkpoints"}
  PROVE  ApplyProjector(name, rows, e) = rows
BY DEF ApplyProjector

LEMMA ProjectWritten ==
  ASSUME NEW rows, NEW e, e.stream \in Projects, NEW name
  PROVE  ApplyProjector(name, rows, e)
           = IF name = "projects" THEN PutProjects(rows, e.stream, e) ELSE rows
BY DEF ApplyProjector, PutProjects

TurnsAlike(rows, acc) ==
  /\ DOMAIN rows = TableNames /\ DOMAIN acc = TableNames
  /\ acc.turns = rows.turns /\ acc.pending = rows.pending
LEMMA SameTurnsWritten ==
  ASSUME NEW rows, NEW acc, TurnsAlike(rows, acc), NEW e
  PROVE  /\ ApplyTurns(acc, e).turns = ApplyTurns(rows, e).turns
         /\ ApplyTurns(acc, e).pending = ApplyTurns(rows, e).pending
<1>1. \A u, turn, at : RunTurn(acc, u, turn, at) = RunTurn(rows, u, turn, at)
  BY DEF TurnsAlike, RunTurn
<1>2. ApplyTurns(acc, e).turns = ApplyTurns(rows, e).turns
  BY <1>1 DEF TurnsAlike, ApplyTurns, TableNames
<1>3. ApplyTurns(acc, e).pending = ApplyTurns(rows, e).pending
  BY <1>1 DEF TurnsAlike, ApplyTurns, TableNames
<1> QED BY <1>2, <1>3

LEMMA SameRowsWritten ==
  ASSUME NEW rows, NEW acc, NEW e, acc.turns = rows.turns
  PROVE  /\ acc.plans = rows.plans => PlansAfter(acc, e) = PlansAfter(rows, e)
         /\ acc.activities = rows.activities => ActivitiesAfter(acc, e) = ActivitiesAfter(rows, e)
BY Zenon DEF PlansAfter, ActivitiesAfter, RevertRows

LEMMA SameThreadsWritten ==
  ASSUME NEW rows, NEW acc, NEW e, acc.threads = rows.threads
  PROVE  ApplyThreads(acc, e) = ApplyThreads(Counted(rows, acc.approvals), e)
<1>1. PICK counted : counted = Counted(rows, acc.approvals)
  OBVIOUS
<1>2. counted.threads = acc.threads /\ counted.approvals = acc.approvals
  BY <1>1 DEF Counted
<1>3. ApplyThreads(acc, e) = ApplyThreads(counted, e)
  BY <1>2 DEF ApplyThreads
<1> QED BY Zenon, <1>1, <1>3

LEMMA WritesKeeps ==
  ASSUME NEW rows, NEW next, NEW f, Writes(rows, next, f)
  PROVE  /\ DOMAIN next = TableNames
         /\ f # "projects" => next.projects = rows.projects
         /\ f # "threads" => next.threads = rows.threads
         /\ f # "messages" => next.messages = rows.messages
         /\ f # "plans" => next.plans = rows.plans
         /\ f # "activities" => next.activities = rows.activities
         /\ f # "sessions" => next.sessions = rows.sessions
         /\ f # "turns" => next.turns = rows.turns
         /\ f # "pending" => next.pending = rows.pending
         /\ f # "approvals" => next.approvals = rows.approvals
BY DEF Writes, TableNames

EventWritten(rows, e, next) ==
  /\ DOMAIN next = TableNames /\ next.projects = rows.projects
  /\ next.messages = MessagesAfter(rows, e) /\ next.plans = PlansAfter(rows, e)
  /\ next.activities = ActivitiesAfter(rows, e) /\ next.sessions = SessionsAfter(rows, e)
  /\ next.turns = ApplyTurns(rows, e).turns /\ next.pending = ApplyTurns(rows, e).pending
  /\ next.approvals = ApplyApprovals(rows.approvals, e) /\ next.threads = ThreadsAfter(rows, e)

(* The tables between the projectors.                                      *)
Iterated(rows, e, s) ==
  /\ s[0] = rows /\ s[9] = ApplyEvent(rows, e)
  /\ \A k \in 1..9 : s[k] = ApplyProjector(Projectors[k], s[k - 1], e)

LEMMA EventIterates ==
  ASSUME NEW rows, NEW e
  PROVE  \E s : Iterated(rows, e, s)
<1> DEFINE x == [event |-> e]
<1>1. x.event = e
  OBVIOUS
<1> HIDE DEF x
<1>2. PICK it : RowsFold!Steps(x, rows, Projectors, 9, it)
                /\ RowsFold!Fold(x, rows, Projectors) = it[1..9]
  <2>1. PICK n \in Nat : n = 9
    OBVIOUS
  <2>2. DOMAIN Projectors = 1..n
    BY <2>1, ProjectorsType
  <2>3. \E it : RowsFold!Steps(x, rows, Projectors, n, it)
                /\ RowsFold!Fold(x, rows, Projectors) = it[1..n]
    BY <2>2, RowsFoldIterates
  <2> QED BY Zenon, <2>1, <2>3
<1>3. ApplyEvent(rows, e) = it[1..9]
  BY Zenon, <1>1, <1>2, RowsFoldIsFold
<1>4. it[1..0] = rows /\ \A k \in 1..9 : it[1..k] = ApplyProjector(Projectors[k], it[1..k - 1], e)
  BY Zenon, <1>1, <1>2 DEF RowsFold!Steps, RowsStep
<1> DEFINE s == [k \in 0..9 |-> it[1..k]]
<1>5. /\ s[0] = it[1..0] /\ s[9] = it[1..9]
      /\ \A k \in 1..9 : s[k] = it[1..k] /\ s[k - 1] = it[1..k - 1]
  OBVIOUS
<1> HIDE DEF s
<1>6. s[0] = rows /\ s[9] = ApplyEvent(rows, e)
  BY Zenon, <1>3, <1>4, <1>5
<1>7. \A k \in 1..9 : s[k] = ApplyProjector(Projectors[k], s[k - 1], e)
  BY Zenon, <1>4, <1>5
<1> QED BY Zenon, <1>6, <1>7 DEF Iterated

LEMMA EventIsWritten ==
  ASSUME NEW rows, DOMAIN rows = TableNames, NEW e, e.stream \notin Projects
  PROVE  EventWritten(rows, e, ApplyEvent(rows, e))
<1>1. PICK s : Iterated(rows, e, s)
  BY Zenon, EventIterates
<1>4. s[0] = rows /\ \A k \in 1..9 : s[k] = ApplyProjector(Projectors[k], s[k - 1], e)
  BY Zenon, <1>1 DEF Iterated
<1>5. /\ s[1] = ApplyProjector("projects", s[0], e)
      /\ s[2] = ApplyProjector("thread-messages", s[1], e)
      /\ s[3] = ApplyProjector("thread-proposed-plans", s[2], e)
      /\ s[4] = ApplyProjector("thread-activities", s[3], e)
      /\ s[5] = ApplyProjector("thread-sessions", s[4], e)
      /\ s[6] = ApplyProjector("thread-turns", s[5], e)
      /\ s[7] = ApplyProjector("checkpoints", s[6], e)
      /\ s[8] = ApplyProjector("pending-approvals", s[7], e)
      /\ s[9] = ApplyProjector("threads", s[8], e)
  BY <1>4 DEF Projectors
<1>6. s[0] = rows /\ ApplyEvent(rows, e) = s[9]
  BY <1>1, <1>4 DEF Iterated
<1>7. s[1] = rows
  BY Zenon, <1>5, <1>6, NothingWritten
<1>8. Writes(s[1], s[2], "messages") /\ s[2].messages = MessagesAfter(rows, e)
  BY Zenon, <1>5, <1>7, MessagesWritten
<1>9. DOMAIN s[2] = TableNames
  BY Zenon, <1>8 DEF Writes
<1>10. Writes(s[2], s[3], "plans") /\ s[3].plans = PlansAfter(s[2], e)
  BY Zenon, <1>5, <1>9, PlansWritten
<1>11. DOMAIN s[3] = TableNames
  BY Zenon, <1>10 DEF Writes
<1>12. Writes(s[3], s[4], "activities") /\ s[4].activities = ActivitiesAfter(s[3], e)
  BY Zenon, <1>5, <1>11, ActivitiesWritten
<1>13. DOMAIN s[4] = TableNames
  BY Zenon, <1>12 DEF Writes
<1>14. Writes(s[4], s[5], "sessions") /\ s[5].sessions = SessionsAfter(s[4], e)
  BY Zenon, <1>5, <1>13, SessionsWritten
<1>15. DOMAIN s[5] = TableNames
  BY Zenon, <1>14 DEF Writes
<1>16. s[6] = ApplyTurns(s[5], e) /\ WritesTurns(s[5], s[6])
  BY Zenon, <1>5, <1>15, TurnsWritten
<1>17. s[7] = s[6]
  BY Zenon, <1>5, NothingWritten
<1>18. Writes(s[7], s[8], "approvals") /\ s[8].approvals = ApplyApprovals(s[7].approvals, e)
  <2>1. DOMAIN s[7] = TableNames
    BY Zenon, <1>16, <1>17 DEF WritesTurns
  <2> QED BY Zenon, <1>5, <2>1, ApprovalsWritten
<1>19. DOMAIN s[8] = TableNames
  BY Zenon, <1>18 DEF Writes
<1>20. /\ Writes(s[8], s[9], "threads")
       /\ s[9].threads = PutThread(s[8].threads, e, ApplyThreads(s[8], e))
  BY Zenon, <1>5, <1>19, ThreadsWritten
<1>21. /\ s[2].turns = rows.turns /\ s[2].plans = rows.plans /\ s[2].activities = rows.activities
       /\ s[2].projects = rows.projects /\ s[2].threads = rows.threads
       /\ s[2].sessions = rows.sessions /\ s[2].pending = rows.pending
       /\ s[2].approvals = rows.approvals
  BY <1>7, <1>8, WritesKeeps
<1>22. /\ s[3].turns = rows.turns /\ s[3].activities = rows.activities
       /\ s[3].projects = rows.projects /\ s[3].threads = rows.threads
       /\ s[3].sessions = rows.sessions /\ s[3].pending = rows.pending
       /\ s[3].approvals = rows.approvals /\ s[3].messages = s[2].messages
  BY <1>10, <1>21, WritesKeeps
<1>23. /\ s[4].turns = rows.turns /\ s[4].plans = s[3].plans
       /\ s[4].projects = rows.projects /\ s[4].threads = rows.threads
       /\ s[4].sessions = rows.sessions /\ s[4].pending = rows.pending
       /\ s[4].approvals = rows.approvals /\ s[4].messages = s[2].messages
  BY <1>12, <1>22, WritesKeeps
<1>24. /\ s[5].turns = rows.turns /\ s[5].plans = s[3].plans
       /\ s[5].projects = rows.projects /\ s[5].threads = rows.threads
       /\ s[5].activities = s[4].activities /\ s[5].pending = rows.pending
       /\ s[5].approvals = rows.approvals /\ s[5].messages = s[2].messages
  BY <1>14, <1>23, WritesKeeps
<1>25. /\ s[7].plans = s[3].plans /\ s[7].projects = rows.projects
       /\ s[7].threads = rows.threads /\ s[7].sessions = s[5].sessions
       /\ s[7].activities = s[4].activities /\ s[7].approvals = rows.approvals
       /\ s[7].messages = s[2].messages
  BY <1>16, <1>17, <1>24 DEF WritesTurns, TableNames
<1>26. s[7].turns = ApplyTurns(rows, e).turns /\ s[7].pending = ApplyTurns(rows, e).pending
  <2>1. s[5].turns = rows.turns /\ s[5].pending = rows.pending
    BY <1>24
  <2>2. PICK acc : acc = s[5]
    OBVIOUS
  <2>3. TurnsAlike(rows, acc)
    BY Zenon, <1>15, <2>1, <2>2 DEF TurnsAlike
  <2>4. /\ ApplyTurns(acc, e).turns = ApplyTurns(rows, e).turns
        /\ ApplyTurns(acc, e).pending = ApplyTurns(rows, e).pending
    BY Zenon, <2>3, SameTurnsWritten
  <2>5. s[6].turns = ApplyTurns(s[5], e).turns /\ s[6].pending = ApplyTurns(s[5], e).pending
    BY Zenon, <1>16
  <2> QED BY Zenon, <1>17, <2>2, <2>4, <2>5
<1>27. /\ s[8].plans = s[3].plans /\ s[8].projects = rows.projects
       /\ s[8].threads = rows.threads /\ s[8].sessions = s[5].sessions
       /\ s[8].activities = s[4].activities /\ s[8].messages = s[2].messages
       /\ s[8].turns = s[7].turns /\ s[8].pending = s[7].pending
  BY <1>18, <1>25, WritesKeeps
<1>28. /\ DOMAIN s[9] = TableNames
       /\ s[9].plans = s[3].plans /\ s[9].projects = rows.projects
       /\ s[9].sessions = s[5].sessions /\ s[9].approvals = s[8].approvals
       /\ s[9].activities = s[4].activities /\ s[9].messages = s[2].messages
       /\ s[9].turns = s[7].turns /\ s[9].pending = s[7].pending
  BY <1>20, <1>27, WritesKeeps
<1>29. s[3].plans = PlansAfter(rows, e) /\ s[4].activities = ActivitiesAfter(rows, e)
  <2>1. PlansAfter(s[2], e) = PlansAfter(rows, e)
    BY Zenon, <1>21, SameRowsWritten
  <2>2. ActivitiesAfter(s[3], e) = ActivitiesAfter(rows, e)
    BY Zenon, <1>22, SameRowsWritten
  <2> QED BY Zenon, <1>10, <1>12, <2>1, <2>2
<1>30. s[5].sessions = SessionsAfter(rows, e)
  BY Zenon, <1>14, <1>23 DEF SessionsAfter
<1>31. s[9].approvals = ApplyApprovals(rows.approvals, e)
  BY Zenon, <1>18, <1>25, <1>28
<1>32. s[9].threads = ThreadsAfter(rows, e)
  <2>1. s[8].approvals = ApplyApprovals(rows.approvals, e)
    BY Zenon, <1>28, <1>31
  <2>2. PICK acc : acc = s[8]
    OBVIOUS
  <2>3. acc.threads = rows.threads
    BY <1>27, <2>2
  <2>4. ApplyThreads(acc, e) = ApplyThreads(Counted(rows, acc.approvals), e)
    BY Zenon, <2>3, SameThreadsWritten
  <2>5. s[9].threads = PutThread(acc.threads, e, ApplyThreads(acc, e))
    BY Zenon, <1>20, <2>2
  <2>6. acc.approvals = ApplyApprovals(rows.approvals, e)
    BY Zenon, <2>1, <2>2
  <2> QED BY Zenon, <2>3, <2>4, <2>5, <2>6 DEF ThreadsAfter
<1> QED BY Zenon, <1>6, <1>8, <1>26, <1>28, <1>29, <1>30, <1>31, <1>32 DEF EventWritten

LEMMA ProjectEventWritten ==
  ASSUME NEW rows, DOMAIN rows = TableNames, NEW e, e.stream \in Projects
  PROVE  ApplyEvent(rows, e) = PutProjects(rows, e.stream, e)
<1>1. PICK s : Iterated(rows, e, s)
  BY Zenon, EventIterates
<1>4. s[0] = rows /\ \A k \in 1..9 : s[k] = ApplyProjector(Projectors[k], s[k - 1], e)
  BY Zenon, <1>1 DEF Iterated
<1> DEFINE after == PutProjects(rows, e.stream, e)
<1>5. s[1] = after
  <2>1. s[1] = ApplyProjector("projects", s[0], e)
    BY <1>4 DEF Projectors
  <2> QED BY <1>4, <2>1, ProjectWritten DEF after
<1>6. ASSUME NEW k \in 2..9, s[k - 1] = after PROVE s[k] = after
  <2>1. s[k] = ApplyProjector(Projectors[k], after, e)
    <3>1. k \in 1..9
      OBVIOUS
    <3> QED BY Zenon, <1>4, <1>6, <3>1
  <2>2. Projectors[k] # "projects"
    BY DEF Projectors
  <2> QED BY Zenon, <2>1, <2>2, ProjectWritten
<1> HIDE DEF after
<1>7. \A k \in 2..9 : s[k - 1] = after => s[k] = after
  BY <1>6
<1>8. s[2] = after
  BY <1>5, <1>7
<1>9. s[3] = after
  BY <1>8, <1>7
<1>10. s[4] = after
  BY <1>9, <1>7
<1>11. s[5] = after
  BY <1>10, <1>7
<1>12. s[6] = after
  BY <1>11, <1>7
<1>13. s[7] = after
  BY <1>12, <1>7
<1>14. s[8] = after
  BY <1>13, <1>7
<1>15. s[9] = after
  BY <1>14, <1>7
<1> QED BY <1>1, <1>15 DEF after, Iterated

-----------------------------------------------------------------------------
(* What the drafts say of turns.                                           *)
MessageFields == {"id", "role", "turn", "streaming", "text"}
Captured(t, turn, count) ==
  \E e \in DraftsOf("thread.turn-diff-completed") :
    e.stream = t /\ e.arg.turn = turn /\ e.arg.count = count
NamesTurn(id, turn) ==
  id \in StreamedIds =>
    \A e \in DraftsOf("thread.message-sent") : e.arg.id = id => e.arg.turn = turn
Spoken(m) ==
  /\ m.streaming \in BOOLEAN /\ (m.streaming => m.id \in StreamedIds)
  /\ m.id \in StreamedIds => m.role = "assistant" /\ m.turn # None
  /\ NamesTurn(m.id, m.turn)

LEMMA CapturedOnce ==
  ASSUME TurnsToldApart, NEW t, NEW a, NEW n, NEW b, NEW k, Captured(t, a, n), Captured(t, b, k)
  PROVE  (a = b <=> n = k) /\ n \in Nat /\ n # None
<1>1. PICK c, d \in DraftsOf("thread.turn-diff-completed") :
        /\ c.stream = t /\ c.arg.turn = a /\ c.arg.count = n
        /\ d.stream = t /\ d.arg.turn = b /\ d.arg.count = k
  BY Zenon DEF Captured
<1>2. \A x, y \in DraftsOf("thread.turn-diff-completed") :
        /\ x.arg.count \in Nat
        /\ x.stream = y.stream => (x.arg.turn = y.arg.turn <=> x.arg.count = y.arg.count)
  BY Zenon DEF TurnsToldApart
<1>3. c.arg.count \in Nat /\ (c.arg.turn = d.arg.turn <=> c.arg.count = d.arg.count)
  BY Zenon, <1>1, <1>2
<1>4. n \in Nat /\ (a = b <=> n = k)
  BY Zenon, <1>1, <1>3
<1>5. n # None
  BY <1>4, NamesAssumption
<1> QED BY Zenon, <1>4, <1>5

LEMMA DraftSpoken ==
  ASSUME ItemShapes, TurnsToldApart, NEW e, Drafted(e), e.type = "thread.message-sent"
  PROVE  Spoken(e.arg) /\ DOMAIN e.arg = MessageFields
<1>1. PICK d \in DraftsOf("thread.message-sent") : d.arg = e.arg
  BY DEF Drafted
<1>2. DOMAIN e.arg = MessageFields /\ e.arg.streaming \in BOOLEAN
  BY Zenon, <1>1 DEF ItemShapes, MessageFields
<1>3. e.arg.streaming => e.arg.id \in StreamedIds
  BY Zenon, <1>1 DEF StreamedIds
<1>4. e.arg.id \in StreamedIds => e.arg.role = "assistant" /\ e.arg.turn # None
  BY Zenon, <1>1 DEF TurnsToldApart
<1>5. NamesTurn(e.arg.id, e.arg.turn)
  BY <1>1 DEF TurnsToldApart, NamesTurn
<1> QED BY Zenon, <1>2, <1>3, <1>4, <1>5 DEF Spoken

LEMMA DraftCaptured ==
  ASSUME TurnsToldApart, NEW e, Drafted(e), e.type = "thread.turn-diff-completed"
  PROVE  /\ Captured(e.stream, e.arg.turn, e.arg.count)
         /\ NamesTurn(e.arg.message, e.arg.turn)
<1>1. PICK d \in DraftsOf("thread.turn-diff-completed") : d.stream = e.stream /\ d.arg = e.arg
  BY DEF Drafted
<1>2. Captured(e.stream, e.arg.turn, e.arg.count)
  BY Zenon, <1>1 DEF Captured
<1>3. NamesTurn(e.arg.message, e.arg.turn)
  BY <1>1 DEF TurnsToldApart, NamesTurn
<1> QED BY <1>2, <1>3

LEMMA DraftAsked ==
  ASSUME TurnsToldApart, NEW e, Drafted(e), e.type = "thread.turn-start-requested"
  PROVE  e.arg \notin StreamedIds
<1>1. PICK d \in DraftsOf("thread.turn-start-requested") : d.arg = e.arg
  BY DEF Drafted
<1> QED BY Zenon, <1>1 DEF TurnsToldApart

-----------------------------------------------------------------------------
(* The turn rows: one per turn, its count that of a checkpoint of the turn,*)
(* and no message of another turn named as its prompt or its answer.       *)
TurnTold(r) ==
  /\ r.count # None => Captured(r.thread, r.turn, r.count)
  /\ r.pending \notin StreamedIds /\ NamesTurn(r.assistant, r.turn)
SameKey(r, q) == r.thread = q.thread /\ r.turn = q.turn
TurnsApart(turns) ==
  /\ TurnRows(turns) /\ \A r \in turns : TurnTold(r)
  /\ \A r, q \in turns : SameKey(r, q) => r = q

(* What a revert can go back to: the turns of a thread and their counts.   *)
Counts(turns, t, a, n) ==
  \E r \in turns : r.thread = t /\ r.turn = a /\ r.count = n /\ n # None
SameCounts(turns, next) == \A t, a, n : Counts(next, t, a, n) <=> Counts(turns, t, a, n)

(* A row to put that counts as the row it replaces did.                    *)
KeepsCount(turns, row) ==
  /\ \A r \in turns : SameKey(r, row) => r.count = row.count
  /\ (\A r \in turns : ~SameKey(r, row)) => row.count = None
RowTold(turns, t, turn, row) ==
  RowOf(t, row) /\ row.turn = turn /\ TurnTold(row) /\ KeepsCount(turns, row)

LEMMA PutTurnApart ==
  ASSUME NEW turns, TurnsApart(turns), NEW t, NEW row, RowOf(t, row), TurnTold(row)
  PROVE  TurnsApart(PutTurn(turns, row))
BY DEF TurnsApart, TurnRows, PutTurn, RowOf, SameKey

LEMMA PutTurnCounts ==
  ASSUME NEW turns, NEW row, KeepsCount(turns, row)
  PROVE  SameCounts(turns, PutTurn(turns, row))
<1> SUFFICES ASSUME NEW u, NEW a, NEW n
             PROVE  Counts(PutTurn(turns, row), u, a, n) <=> Counts(turns, u, a, n)
  BY Zenon DEF SameCounts
<1>1. ASSUME Counts(turns, u, a, n) PROVE Counts(PutTurn(turns, row), u, a, n)
  BY <1>1 DEF Counts, PutTurn, KeepsCount, SameKey
<1>2. ASSUME Counts(PutTurn(turns, row), u, a, n) PROVE Counts(turns, u, a, n)
  <2>1. PICK r \in PutTurn(turns, row) : r.thread = u /\ r.turn = a /\ r.count = n /\ n # None
    BY <1>2 DEF Counts
  <2>2. r \in turns \/ r = row
    BY DEF PutTurn
  <2>3. CASE r = row
    BY <2>1, <2>3 DEF Counts, KeepsCount, SameKey
  <2> QED BY <2>1, <2>2, <2>3 DEF Counts
<1> QED BY <1>1, <1>2

LEMMA StartedRowTold ==
  ASSUME TurnsToldApart, NEW turns, TurnsApart(turns), NEW t, NEW turn, NEW state, NEW at
  PROVE  RowTold(turns, t, turn, TurnRow(turns, t, turn, NewTurn(t, turn, state, at)))
<1>1. PICK new : new = NewTurn(t, turn, state, at)
  OBVIOUS
<1>2. /\ RowOf(t, new) /\ new.thread = t /\ new.turn = turn /\ new.count = None
      /\ new.pending = None /\ new.assistant = None
  BY <1>1 DEF NewTurn, RowOf, TurnFields
<1>3. None \notin StreamedIds
  BY DEF TurnsToldApart
<1>4. TurnTold(new)
  BY <1>2, <1>3 DEF TurnTold, NamesTurn
<1>5. CASE \E r \in turns : r.thread = t /\ r.turn = turn
  <2>1. PICK row : row = CHOOSE r \in turns : r.thread = t /\ r.turn = turn
    OBVIOUS
  <2>2. row \in turns /\ row.thread = t /\ row.turn = turn
    BY <1>5, <2>1
  <2>3. TurnRow(turns, t, turn, new) = row
    BY <1>5, <2>1 DEF TurnRow
  <2>4. DOMAIN row = TurnFields /\ TurnTold(row)
    BY <2>2 DEF TurnsApart, TurnRows
  <2>5. KeepsCount(turns, row)
    BY <2>2 DEF TurnsApart, KeepsCount, SameKey
  <2> QED BY Zenon, <1>1, <2>2, <2>3, <2>4, <2>5 DEF RowTold, RowOf
<1>6. CASE ~\E r \in turns : r.thread = t /\ r.turn = turn
  <2>1. TurnRow(turns, t, turn, new) = new
    BY Zenon, <1>6 DEF TurnRow
  <2>2. KeepsCount(turns, new)
    BY <1>2, <1>6 DEF KeepsCount, SameKey
  <2> QED BY Zenon, <1>1, <1>2, <1>4, <2>1, <2>2 DEF RowTold
<1> QED BY Zenon, <1>5, <1>6

(* A row put in place of that of its turn, with the same count.            *)
Rewritten(row, next, t) ==
  RowOf(t, next) /\ next.turn = row.turn /\ next.count = row.count
LEMMA RewrittenTurn ==
  ASSUME NEW turns, TurnsApart(turns), NEW t, NEW turn, NEW row, RowTold(turns, t, turn, row),
         NEW next, Rewritten(row, next, t),
         next.pending \notin StreamedIds, NamesTurn(next.assistant, turn)
  PROVE  TurnsApart(PutTurn(turns, next)) /\ SameCounts(turns, PutTurn(turns, next))
<1>1. RowOf(t, next) /\ TurnTold(next)
  BY DEF Rewritten, RowTold, TurnTold, RowOf
<1>2. KeepsCount(turns, next)
  BY DEF Rewritten, RowTold, RowOf, KeepsCount, SameKey
<1> QED BY Zenon, <1>1, <1>2, PutTurnApart, PutTurnCounts

LEMMA RunTurnApart ==
  ASSUME TurnsToldApart, NEW rows, TurnsApart(rows.turns), NEW t,
         rows.pending[t].message \notin StreamedIds, NEW turn, NEW at
  PROVE  /\ TurnsApart(RunTurn(rows, t, turn, at))
         /\ SameCounts(rows.turns, RunTurn(rows, t, turn, at))
<1> DEFINE asked   == IF rows.pending[t] = NoPending THEN at ELSE rows.pending[t].requested
           row     == TurnRow(rows.turns, t, turn, NewTurn(t, turn, "running", asked))
           next(r) == [r EXCEPT !.state   = IF @ \in {"completed", "error"} THEN @ ELSE "running",
                                !.pending = IF @ = None THEN rows.pending[t].message ELSE @]
<1>1. RunTurn(rows, t, turn, at) = PutTurn(rows.turns, next(row))
  BY DEF RunTurn
<1>2. \A r : RowOf(t, r) /\ r.pending \notin StreamedIds =>
        /\ Rewritten(r, next(r), t) /\ next(r).assistant = r.assistant
        /\ next(r).pending \notin StreamedIds
  BY DEF TurnFields, RowOf, Rewritten
<1> HIDE DEF asked, next
<1>3. RowTold(rows.turns, t, turn, row)
  BY Zenon, StartedRowTold
<1> HIDE DEF row
<1>4. RowOf(t, row) /\ row.pending \notin StreamedIds /\ NamesTurn(row.assistant, turn)
  BY <1>3 DEF RowTold, TurnTold
<1>5. /\ Rewritten(row, next(row), t) /\ next(row).pending \notin StreamedIds
      /\ NamesTurn(next(row).assistant, turn)
  BY Zenon, <1>2, <1>4
<1> QED BY Zenon, <1>1, <1>3, <1>5, RewrittenTurn

LEMMA AssistantMessageApart ==
  ASSUME TurnsToldApart, NEW turns, TurnsApart(turns), NEW t, NEW m, Spoken(m), NEW at
  PROVE  /\ TurnsApart(AssistantMessageSent(turns, t, m, at))
         /\ SameCounts(turns, AssistantMessageSent(turns, t, m, at))
<1> DEFINE row     == TurnRow(turns, t, m.turn, NewTurn(t, m.turn, "running", at))
           next(r) == [r EXCEPT !.assistant = m.id,
                                !.state = IF m.streaming \/ @ \in {"interrupted", "error"} THEN @
                                          ELSE "completed"]
<1>1. AssistantMessageSent(turns, t, m, at) = PutTurn(turns, next(row))
  BY DEF AssistantMessageSent
<1>2. \A r : RowOf(t, r) =>
        /\ Rewritten(r, next(r), t) /\ next(r).assistant = m.id /\ next(r).pending = r.pending
  BY DEF TurnFields, RowOf, Rewritten
<1> HIDE DEF next
<1>3. RowTold(turns, t, m.turn, row)
  BY Zenon, StartedRowTold
<1> HIDE DEF row
<1>4. RowOf(t, row) /\ row.pending \notin StreamedIds
  BY <1>3 DEF RowTold, TurnTold
<1>5. /\ Rewritten(row, next(row), t) /\ next(row).pending \notin StreamedIds
      /\ NamesTurn(next(row).assistant, m.turn)
  BY Zenon, <1>2, <1>4 DEF Spoken
<1> QED BY Zenon, <1>1, <1>3, <1>5, RewrittenTurn

LEMMA InterruptApart ==
  ASSUME TurnsToldApart, NEW turns, TurnsApart(turns), NEW t, NEW turn, NEW at
  PROVE  /\ TurnsApart(InterruptTurn(turns, t, turn, at))
         /\ SameCounts(turns, InterruptTurn(turns, t, turn, at))
<1> DEFINE row     == TurnRow(turns, t, turn, NewTurn(t, turn, "running", at))
           next(r) == [r EXCEPT !.state = "interrupted"]
<1>1. InterruptTurn(turns, t, turn, at) = PutTurn(turns, next(row))
  BY DEF InterruptTurn
<1>2. \A r : RowOf(t, r) =>
        /\ Rewritten(r, next(r), t) /\ next(r).assistant = r.assistant
        /\ next(r).pending = r.pending
  BY DEF TurnFields, RowOf, Rewritten
<1> HIDE DEF next
<1>3. RowTold(turns, t, turn, row)
  BY Zenon, StartedRowTold
<1> HIDE DEF row
<1>4. RowOf(t, row) /\ row.pending \notin StreamedIds /\ NamesTurn(row.assistant, turn)
  BY <1>3 DEF RowTold, TurnTold
<1>5. /\ Rewritten(row, next(row), t) /\ next(row).pending \notin StreamedIds
      /\ NamesTurn(next(row).assistant, turn)
  BY Zenon, <1>2, <1>4
<1> QED BY Zenon, <1>1, <1>3, <1>5, RewrittenTurn

(* A checkpoint clears nothing of another turn: no other turn has its      *)
(* number.  It adds the one pair of turn and number.                       *)
CountsToo(turns, next, u, b, k) ==
  \A t, a, n : Counts(next, t, a, n) <=> Counts(turns, t, a, n) \/ (t = u /\ a = b /\ n = k)

LEMMA CheckpointApart ==
  ASSUME TurnsToldApart, NEW turns, TurnsApart(turns), NEW t, NEW c, NEW at,
         Captured(t, c.turn, c.count), NamesTurn(c.message, c.turn)
  PROVE  /\ TurnsApart(CheckpointTurn(turns, t, c, at))
         /\ CountsToo(turns, CheckpointTurn(turns, t, c, at), t, c.turn, c.count)
<1> DEFINE cleared(r) == IF r.thread = t /\ r.count = c.count /\ r.turn # c.turn
                         THEN [r EXCEPT !.count = None, !.status = None] ELSE r
           row == TurnRow(turns, t, c.turn, NewTurn(t, c.turn, "running", at))
           next(r) == [r EXCEPT !.assistant = c.message,
                                !.state     = IF c.status = "error" THEN "error" ELSE "completed",
                                !.count     = c.count,
                                !.status    = c.status]
<1>1. CheckpointTurn(turns, t, c, at) = PutTurn({cleared(r) : r \in turns}, next(row))
  BY DEF CheckpointTurn
<1>2. c.count # None
  BY Zenon, CapturedOnce
<1>3. ASSUME NEW r \in turns PROVE ~(r.thread = t /\ r.count = c.count /\ r.turn # c.turn)
  <2>1. CASE r.thread = t /\ r.count = c.count
    <3>1. Captured(t, r.turn, c.count)
      BY Zenon, <1>2, <2>1 DEF TurnsApart, TurnTold
    <3>2. r.turn = c.turn
      BY Zenon, <3>1, CapturedOnce
    <3> QED BY Zenon, <3>2
  <2> QED BY Zenon, <2>1
<1>4. {cleared(r) : r \in turns} = turns
  BY <1>3
<1>5. \A r : RowOf(t, r) =>
        /\ RowOf(t, next(r)) /\ next(r).turn = r.turn /\ next(r).pending = r.pending
        /\ next(r).assistant = c.message /\ next(r).count = c.count
  BY DEF TurnFields, RowOf
<1> HIDE DEF cleared, next
<1>6. RowTold(turns, t, c.turn, row)
  BY Zenon, StartedRowTold
<1> HIDE DEF row
<1>7. RowOf(t, row) /\ row.turn = c.turn /\ row.pending \notin StreamedIds
  BY <1>6 DEF RowTold, TurnTold
<1>8. PICK put : put = next(row)
  OBVIOUS
<1>9. /\ RowOf(t, put) /\ put.turn = c.turn /\ put.count = c.count
      /\ put.pending \notin StreamedIds /\ put.assistant = c.message
  BY Zenon, <1>5, <1>7, <1>8
<1>10. put.thread = t /\ TurnTold(put)
  BY <1>9 DEF TurnTold, RowOf
<1>11. TurnsApart(PutTurn(turns, put))
  BY Zenon, <1>9, <1>10, PutTurnApart
<1>12. CountsToo(turns, PutTurn(turns, put), t, c.turn, c.count)
  <2> SUFFICES ASSUME NEW u, NEW a, NEW n
               PROVE  Counts(PutTurn(turns, put), u, a, n) <=>
                        Counts(turns, u, a, n) \/ (u = t /\ a = c.turn /\ n = c.count)
    BY Zenon DEF CountsToo
  <2>1. ASSUME Counts(PutTurn(turns, put), u, a, n)
        PROVE  Counts(turns, u, a, n) \/ (u = t /\ a = c.turn /\ n = c.count)
    BY <1>9, <1>10, <2>1 DEF Counts, PutTurn
  <2>2. ASSUME u = t, a = c.turn, n = c.count PROVE Counts(PutTurn(turns, put), u, a, n)
    BY <1>2, <1>9, <1>10, <2>2 DEF Counts, PutTurn
  <2>3. ASSUME Counts(turns, u, a, n) PROVE Counts(PutTurn(turns, put), u, a, n)
    <3>1. PICK r \in turns : r.thread = u /\ r.turn = a /\ r.count = n /\ n # None
      BY <2>3 DEF Counts
    <3>2. CASE u = t /\ a = c.turn
      <4>1. Captured(t, c.turn, n)
        BY Zenon, <3>1, <3>2 DEF TurnsApart, TurnTold
      <4>2. n = c.count
        BY Zenon, <4>1, CapturedOnce
      <4> QED BY <2>2, <3>2, <4>2
    <3>3. CASE ~(u = t /\ a = c.turn)
      <4>1. r \in PutTurn(turns, put)
        BY <1>9, <1>10, <3>1, <3>3 DEF PutTurn
      <4> QED BY <3>1, <4>1 DEF Counts
    <3> QED BY <3>2, <3>3
  <2> QED BY <2>1, <2>2, <2>3
<1> QED BY Zenon, <1>1, <1>4, <1>8, <1>11, <1>12

(* A revert leaves what it reaches back to.                                *)
CountsUpTo(turns, next, u, k) ==
  \A t, a, n : Counts(next, t, a, n) <=> Counts(turns, t, a, n) /\ (t = u => n <= k)

LEMMA RevertApart ==
  ASSUME NEW turns, TurnsApart(turns), NEW t, NEW k
  PROVE  /\ TurnsApart((turns \ OfThread(turns, t)) \cup KeptTurns(turns, t, k))
         /\ CountsUpTo(turns, (turns \ OfThread(turns, t)) \cup KeptTurns(turns, t, k), t, k)
<1>1. PICK next : next = (turns \ OfThread(turns, t)) \cup KeptTurns(turns, t, k)
  OBVIOUS
<1>2. \A r : r \in next <=> r \in turns /\ (r.thread = t => r.count # None /\ r.count <= k)
  BY <1>1 DEF OfThread, KeptTurns
<1>3. TurnsApart(next)
  BY <1>2 DEF TurnsApart, TurnRows
<1>4. CountsUpTo(turns, next, t, k)
  BY <1>2 DEF CountsUpTo, Counts
<1> QED BY Zenon, <1>1, <1>3, <1>4

PendingTold(pending) == \A t \in Threads : pending[t].message \notin StreamedIds

(* The turns after an event, by the type of the event.                     *)
CountsAfter(turns, next, e) ==
  CASE e.type = "thread.turn-diff-completed" ->
         CountsToo(turns, next, e.stream, e.arg.turn, e.arg.count)
    [] e.type = "thread.reverted" -> CountsUpTo(turns, next, e.stream, e.arg.turnCount)
    [] OTHER -> SameCounts(turns, next)

LEMMA TurnsAfterEvent ==
  ASSUME ItemShapes, TurnsToldApart, NEW rows, DOMAIN rows = TableNames,
         TurnsApart(rows.turns), PendingTold(rows.pending), DOMAIN rows.pending = Threads,
         NEW e, Drafted(e), e.stream \in Threads
  PROVE  /\ TurnsApart(ApplyTurns(rows, e).turns)
         /\ CountsAfter(rows.turns, ApplyTurns(rows, e).turns, e)
         /\ PendingTold(ApplyTurns(rows, e).pending)
         /\ DOMAIN ApplyTurns(rows, e).pending = Threads
<1> DEFINE next == ApplyTurns(rows, e)
           t == e.stream
           at == e.sequence
<1>1. \/ /\ e.type \notin {"thread.turn-diff-completed", "thread.reverted"}
         /\ \/ next.turns = rows.turns
            \/ next.turns = RunTurn(rows, t, e.arg.turn, at)
            \/ /\ e.type = "thread.message-sent"
               /\ next.turns = AssistantMessageSent(rows.turns, t, e.arg, at)
            \/ next.turns = InterruptTurn(rows.turns, t, e.arg, at)
      \/ /\ e.type = "thread.turn-diff-completed"
         /\ next.turns = CheckpointTurn(rows.turns, t, e.arg, at)
      \/ /\ e.type = "thread.reverted"
         /\ next.turns = (rows.turns \ OfThread(rows.turns, t))
                            \cup KeptTurns(rows.turns, t, e.arg.turnCount)
  BY DEF ApplyTurns, TableNames
<1>2. /\ DOMAIN next.pending = Threads
      /\ \A u \in Threads : \/ next.pending[u] = rows.pending[u] \/ next.pending[u] = NoPending
                            \/ /\ e.type = "thread.turn-start-requested"
                               /\ next.pending[u].message = e.arg
  BY DEF ApplyTurns, TableNames
<1> HIDE DEF next
<1>3. PendingTold(next.pending)
  <2>1. NoPending.message \notin StreamedIds
    BY DEF NoPending, TurnsToldApart
  <2>2. e.type = "thread.turn-start-requested" => e.arg \notin StreamedIds
    BY Zenon, DraftAsked
  <2> QED BY Zenon, <1>2, <2>1, <2>2 DEF PendingTold
<1>4. TurnsApart(next.turns) /\ CountsAfter(rows.turns, next.turns, e)
  <2>1. CASE e.type \notin {"thread.turn-diff-completed", "thread.reverted"}
    <3>1. TurnsApart(next.turns) /\ SameCounts(rows.turns, next.turns)
      <4>1. SameCounts(rows.turns, rows.turns)
        BY Zenon DEF SameCounts
      <4>2. rows.pending[t].message \notin StreamedIds
        BY Zenon DEF PendingTold
      <4>3. CASE next.turns = RunTurn(rows, t, e.arg.turn, at)
        BY Zenon, <4>2, <4>3, RunTurnApart
      <4>4. CASE next.turns = InterruptTurn(rows.turns, t, e.arg, at)
        BY Zenon, <4>4, InterruptApart
      <4>5. CASE e.type = "thread.message-sent"
                 /\ next.turns = AssistantMessageSent(rows.turns, t, e.arg, at)
        <5>1. Spoken(e.arg)
          BY Zenon, <4>5, DraftSpoken
        <5> QED BY Zenon, <4>5, <5>1, AssistantMessageApart
      <4> QED BY Zenon, <1>1, <2>1, <4>1, <4>3, <4>4, <4>5
    <3> QED BY <2>1, <3>1 DEF CountsAfter
  <2>2. CASE e.type = "thread.turn-diff-completed"
    <3>1. next.turns = CheckpointTurn(rows.turns, t, e.arg, at)
      BY <1>1, <2>2
    <3>2. Captured(t, e.arg.turn, e.arg.count) /\ NamesTurn(e.arg.message, e.arg.turn)
      BY Zenon, <2>2, DraftCaptured
    <3>3. /\ TurnsApart(next.turns)
          /\ CountsToo(rows.turns, next.turns, t, e.arg.turn, e.arg.count)
      BY Zenon, <3>1, <3>2, CheckpointApart
    <3> QED BY <2>2, <3>3 DEF CountsAfter
  <2>3. CASE e.type = "thread.reverted"
    <3>1. next.turns = (rows.turns \ OfThread(rows.turns, t))
                          \cup KeptTurns(rows.turns, t, e.arg.turnCount)
      BY <1>1, <2>3
    <3>2. PICK turns, k : turns = rows.turns /\ k = e.arg.turnCount
      OBVIOUS
    <3>3. TurnsApart(turns) /\ next.turns = (turns \ OfThread(turns, t)) \cup KeptTurns(turns, t, k)
      BY Zenon, <3>1, <3>2
    <3>4. TurnsApart(next.turns) /\ CountsUpTo(turns, next.turns, t, k)
      BY Zenon, <3>3, RevertApart
    <3>5. TurnsApart(next.turns) /\ CountsUpTo(rows.turns, next.turns, t, e.arg.turnCount)
      BY Zenon, <3>2, <3>4
    <3> QED BY <2>3, <3>5 DEF CountsAfter
  <2> QED BY <2>1, <2>2, <2>3
<1> QED BY Zenon, <1>2, <1>3, <1>4 DEF next

-----------------------------------------------------------------------------
(* Which messages are streaming: in memory, and in the rows of a thread.   *)
Streaming(messages, id) ==
  \E i \in DOMAIN messages : messages[i].id = id /\ messages[i].streaming
RowStreams(messages, t, id) ==
  \E i \in DOMAIN messages :
    messages[i].thread = t /\ messages[i].id = id /\ messages[i].streaming
MessageIs(m) == MessageFields \subseteq DOMAIN m /\ Spoken(m)
AllSpoken(messages) ==
  \E S : messages \in Seq(S) /\ \A m \in S : MessageIs(m)

LEMMA StreamsOfRows ==
  ASSUME NEW S, NEW s \in Seq(S), NEW t, NEW id
  PROVE  Streaming(MessagesOf(s, t), id) <=> RowStreams(s, t, id)
<1>1. PICK mine : mine = MessagesOf(s, t)
  OBVIOUS
<1>2. /\ \A i \in DOMAIN mine : mine[i].thread = t /\ \E j \in DOMAIN s : mine[i] = s[j]
      /\ \A j \in DOMAIN s : s[j].thread = t => \E i \in DOMAIN mine : mine[i] = s[j]
  BY <1>1, MessagesOfRows
<1>3. Streaming(mine, id) <=> RowStreams(s, t, id)
  BY <1>2 DEF Streaming, RowStreams
<1> QED BY Zenon, <1>1, <1>3

(* Those with an id in a set.                                              *)
Kept(messages, ids) == Where(messages, LAMBDA m : m.id \in ids)
IdsStep(ids, acc, m) == IF m.id \in ids THEN Append(acc, m) ELSE acc
IdsFold == INSTANCE FoldLaws WITH Op <- IdsStep, P <- FilterClaim

LEMMA IdsFoldLeast == IdsFold!LeastMembers
BY LeastNatural DEF IdsFold!LeastMembers

LEMMA IdsFoldIterates ==
  ASSUME NEW x, NEW base, NEW s, NEW n \in Nat, DOMAIN s = 1..n
  PROVE  \E it : IdsFold!Steps(x, base, s, n, it) /\ IdsFold!Fold(x, base, s) = it[1..n]
<1>1. IdsFold!Iterated(x, base, s, n)
  BY Zenon, IdsFoldLeast, IdsFold!FoldIterates
<1> QED BY Zenon, <1>1 DEF IdsFold!Iterated

LEMMA KeptIsFold == \A messages, ids : Kept(messages, ids) = IdsFold!Fold(ids, <<>>, messages)
BY Zenon DEF IdsFold!Fold, IdsFold!Greatest, FoldLeft, MapThenFoldSet, Max, IdsStep, Kept, Where

LEMMA KeptFiltered ==
  ASSUME NEW S, NEW s \in Seq(S), NEW ids
  PROVE  Kept(s, ids) = Filtered(WithIds(ids), s)
<1>1. PICK x : x = WithIds(ids)
  OBVIOUS
<1>2. \A acc, m : FilterStep(x, acc, m) = IdsStep(ids, acc, m)
  BY <1>1 DEF WithIds, FilterStep, Passes, IdsStep
<1>3. PICK n \in Nat : n = Len(s) /\ DOMAIN s = 1..n
  OBVIOUS
<1>4. PICK it : FilterFold!Steps(x, <<>>, s, n, it) /\ FilterFold!Fold(x, <<>>, s) = it[1..n]
  BY <1>3, FilterFoldIterates
<1>5. PICK jt : IdsFold!Steps(ids, <<>>, s, n, jt) /\ IdsFold!Fold(ids, <<>>, s) = jt[1..n]
  BY <1>3, IdsFoldIterates
<1>6. it[1..0] = jt[1..0]
  BY Zenon, <1>4, <1>5 DEF FilterFold!Steps, IdsFold!Steps
<1>7. ASSUME NEW k \in 1..n, it[1..k - 1] = jt[1..k - 1] PROVE it[1..k] = jt[1..k]
  <2>1. it[1..k] = FilterStep(x, it[1..k - 1], s[k])
    BY Zenon, <1>4 DEF FilterFold!Steps
  <2>2. jt[1..k] = IdsStep(ids, jt[1..k - 1], s[k])
    BY Zenon, <1>5 DEF IdsFold!Steps
  <2> QED BY Zenon, <1>2, <1>7, <2>1, <2>2
<1>8. it[1..n] = jt[1..n]
  BY Zenon, <1>3, <1>6, <1>7, SameSteps
<1> QED BY Zenon, <1>1, <1>4, <1>5, <1>8, KeptIsFold DEF Filtered

(* What a revert keeps of a list, by the ids it collects.                  *)
KeptPlaces(messages, retained, ids) ==
  {i \in DOMAIN messages :
     \/ messages[i].role = "system"
     \/ messages[i].turn \in retained
     \/ messages[i].id \in ids}
SparePlaces(messages, kept, role) ==
  {i \in DOMAIN messages \ kept : messages[i].role = role /\ messages[i].turn = None}

Retaining(messages, retained, ids, places) ==
  /\ KeptPlaces(messages, retained, ids) \subseteq places
  /\ \A i \in places : /\ i \in DOMAIN messages
                       /\ \/ i \in KeptPlaces(messages, retained, ids)
                          \/ messages[i].turn = None
IdsAt(messages, places) == {messages[i].id : i \in places}

LEMMA RetainIsKept ==
  ASSUME NEW messages, NEW retained, NEW ids, NEW count
  PROVE  \E places :
           /\ Retaining(messages, retained, ids, places)
           /\ RetainMessages(messages, retained, ids, count)
                = Kept(messages, IdsAt(messages, places))
<1> DEFINE kept == KeptPlaces(messages, retained, ids)
           ofRole(role) == {i \in kept : messages[i].role = role}
           spare(role) == SparePlaces(messages, kept, role)
           fallback(role) ==
             {i \in spare(role) :
                Cardinality({j \in spare(role) : j < i}) + Cardinality(ofRole(role)) < count}
           places == kept \cup fallback("user") \cup fallback("assistant")
<1>1. RetainMessages(messages, retained, ids, count)
        = Kept(messages, IdsAt(messages, places))
  BY Zenon DEF RetainMessages, Kept, KeptPlaces, SparePlaces, IdsAt
<1>2. \A role : \A i \in fallback(role) : i \in DOMAIN messages /\ messages[i].turn = None
  BY DEF SparePlaces
<1>3. kept \subseteq DOMAIN messages
  BY DEF KeptPlaces
<1> HIDE DEF kept, fallback
<1>4. \A i \in places : i \in DOMAIN messages /\ (i \in kept \/ messages[i].turn = None)
  BY <1>2, <1>3
<1>5. kept \subseteq places
  OBVIOUS
<1> QED BY Zenon, <1>1, <1>4, <1>5 DEF kept, Retaining

(* A streaming message survives a revert if its turn does.                 *)
IdsTold(ids, retained) == \A id \in ids : \E turn \in retained : NamesTurn(id, turn)

LEMMA NamedOnce ==
  ASSUME NEW id \in StreamedIds, NEW a, NEW b, NamesTurn(id, a), NamesTurn(id, b)
  PROVE  a = b
<1>1. PICK e \in DraftsOf("thread.message-sent") : e.arg.id = id
  BY DEF StreamedIds
<1> QED BY Zenon, <1>1 DEF NamesTurn

LEMMA RetainStreams ==
  ASSUME NEW messages, AllSpoken(messages), NEW retained, NEW ids, IdsTold(ids, retained),
         NEW count, NEW kept, kept = RetainMessages(messages, retained, ids, count)
  PROVE  /\ AllSpoken(kept)
         /\ \A id : Streaming(kept, id) <=>
              Streaming(messages, id) /\ \E turn \in retained : NamesTurn(id, turn)
         /\ \A i \in DOMAIN kept : \E j \in DOMAIN messages : kept[i] = messages[j]
<1>1. PICK S : messages \in Seq(S) /\ \A m \in S : MessageIs(m)
  BY Zenon DEF AllSpoken
<1>2. PICK places :
        /\ Retaining(messages, retained, ids, places)
        /\ kept = Kept(messages, IdsAt(messages, places))
  BY Zenon, RetainIsKept
<1>a. /\ KeptPlaces(messages, retained, ids) \subseteq places
      /\ \A i \in places : /\ i \in DOMAIN messages
                           /\ \/ i \in KeptPlaces(messages, retained, ids)
                              \/ messages[i].turn = None
  BY Zenon, <1>2 DEF Retaining
<1>3. PICK named : named = IdsAt(messages, places)
  OBVIOUS
<1>4. PICK x : x = WithIds(named)
  OBVIOUS
<1>5. \A m : Passes(x, m) <=> m.id \in named
  BY <1>4 DEF WithIds, Passes
<1>6. kept = Filtered(x, messages)
  BY Zenon, <1>1, <1>2, <1>3, <1>4, KeptFiltered
<1>7. PassingRows(x, S, messages, kept)
  BY Zenon, <1>1, <1>6, FilteredRows
<1>8. /\ kept \in Seq(S)
      /\ \A i \in DOMAIN kept :
           kept[i].id \in named /\ \E j \in DOMAIN messages : kept[i] = messages[j]
      /\ \A j \in DOMAIN messages : messages[j].id \in named =>
           \E i \in DOMAIN kept : kept[i] = messages[j]
  BY Zenon, <1>5, <1>7 DEF PassingRows
<1>9. AllSpoken(kept)
  BY Zenon, <1>1, <1>8 DEF AllSpoken
<1>10. \A i \in DOMAIN messages : Spoken(messages[i])
  BY <1>1 DEF MessageIs
<1>11. ASSUME NEW j \in DOMAIN messages, messages[j].streaming
       PROVE  messages[j].id \in named <=>
                \E turn \in retained : NamesTurn(messages[j].id, turn)
  <2>1. PICK id : id = messages[j].id
    OBVIOUS
  <2>2. id \in StreamedIds /\ NamesTurn(id, messages[j].turn)
    BY Zenon, <1>10, <1>11, <2>1 DEF Spoken
  <2>3. ASSUME NEW i \in places, messages[i].id = id
        PROVE  \E turn \in retained : NamesTurn(id, turn)
    <3>1. /\ i \in DOMAIN messages /\ messages[i].role = "assistant" /\ messages[i].turn # None
          /\ NamesTurn(id, messages[i].turn)
      BY Zenon, <1>a, <1>10, <2>2, <2>3 DEF Spoken
    <3>2. messages[i].turn \in retained \/ id \in ids
      BY <1>a, <2>3, <3>1 DEF KeptPlaces
    <3> QED BY Zenon, <3>1, <3>2 DEF IdsTold
  <2>4. ASSUME NEW turn \in retained, NamesTurn(id, turn) PROVE id \in named
    <3>1. messages[j].turn = turn
      BY Zenon, <2>2, <2>4, NamedOnce
    <3>2. j \in KeptPlaces(messages, retained, ids)
      BY <3>1, <2>4 DEF KeptPlaces
    <3> QED BY <1>a, <1>3, <2>1, <3>2 DEF IdsAt
  <2>5. id \in named => \E i \in places : messages[i].id = id
    BY <1>3 DEF IdsAt
  <2> QED BY Zenon, <2>1, <2>3, <2>4, <2>5
<1>12. ASSUME NEW id
       PROVE  Streaming(kept, id) <=>
                Streaming(messages, id) /\ \E turn \in retained : NamesTurn(id, turn)
  <2>1. ASSUME Streaming(kept, id)
        PROVE  Streaming(messages, id) /\ \E turn \in retained : NamesTurn(id, turn)
    <3>1. PICK i \in DOMAIN kept : kept[i].id = id /\ kept[i].streaming
      BY Zenon, <2>1 DEF Streaming
    <3>2. PICK j \in DOMAIN messages : kept[i] = messages[j]
      BY Zenon, <1>8
    <3>3. messages[j].id = id /\ messages[j].streaming /\ id \in named
      BY Zenon, <1>8, <3>1, <3>2
    <3> QED BY Zenon, <1>11, <3>3 DEF Streaming
  <2>2. ASSUME Streaming(messages, id), NEW turn \in retained, NamesTurn(id, turn)
        PROVE  Streaming(kept, id)
    <3>1. PICK j \in DOMAIN messages : messages[j].id = id /\ messages[j].streaming
      BY Zenon, <2>2 DEF Streaming
    <3>2. messages[j].id \in named
      BY Zenon, <1>11, <2>2, <3>1
    <3>3. PICK i \in DOMAIN kept : kept[i] = messages[j]
      BY Zenon, <1>8, <3>2
    <3> QED BY Zenon, <3>1, <3>3 DEF Streaming
  <2> QED BY Zenon, <2>1, <2>2
<1> QED BY Zenon, <1>8, <1>9, <1>12

-----------------------------------------------------------------------------
(* A message that arrives, in memory and in the rows.                      *)
Arrived(m, id, before) == (id = m.id /\ m.streaming) \/ (id # m.id /\ before)

LEMMA SpokenPointwise ==
  ASSUME NEW S, NEW messages \in Seq(S), NEW next, DOMAIN next = DOMAIN messages,
         next = [i \in DOMAIN next |-> next[i]], \A i \in DOMAIN messages : MessageIs(next[i])
  PROVE  AllSpoken(next)
<1>1. PICK T : T = {next[i] : i \in DOMAIN messages}
  OBVIOUS
<1>2. PICK n \in Nat : DOMAIN messages = 1..n
  OBVIOUS
<1>3. next \in [1..n -> T]
  BY <1>1, <1>2
<1>4. next \in Seq(T)
  BY <1>2, <1>3
<1>5. \A m \in T : MessageIs(m)
  BY <1>1
<1> QED BY Zenon, <1>4, <1>5 DEF AllSpoken

Extends(messages, m, next) ==
  /\ \A i \in DOMAIN messages : i \in DOMAIN next /\ next[i] = messages[i]
  /\ \E i \in DOMAIN next : next[i] = m
  /\ \A i \in DOMAIN next : i \in DOMAIN messages \/ next[i] = m
LEMMA SpokenAppend ==
  ASSUME NEW messages, AllSpoken(messages), NEW m, MessageIs(m),
         NEW next, next = Append(messages, m)
  PROVE  AllSpoken(next) /\ Extends(messages, m, next)
<1>1. PICK S : messages \in Seq(S) /\ \A x \in S : MessageIs(x)
  BY Zenon DEF AllSpoken
<1>2. PICK T : T = S \cup {m}
  OBVIOUS
<1>3. \A x \in T : MessageIs(x)
  BY <1>1, <1>2
<1>4. messages \in Seq(T) /\ m \in T
  BY <1>1, <1>2
<1>5. /\ next \in Seq(T) /\ Len(messages) \in Nat /\ DOMAIN messages = 1..Len(messages)
      /\ DOMAIN next = 1..Len(messages) + 1 /\ next[Len(messages) + 1] = m
      /\ \A i \in 1..Len(messages) : next[i] = messages[i]
  BY <1>4
<1>6. AllSpoken(next)
  BY Zenon, <1>3, <1>5 DEF AllSpoken
<1>7. Extends(messages, m, next)
  BY <1>5 DEF Extends
<1> QED BY <1>6, <1>7

LEMMA UpsertStreams ==
  ASSUME NEW messages, AllSpoken(messages), NEW m, MessageIs(m),
         NEW next, next = UpsertMessage(messages, m)
  PROVE  /\ AllSpoken(next)
         /\ \A id : Streaming(next, id) <=> Arrived(m, id, Streaming(messages, id))
<1> DEFINE merged(old) ==
             [old EXCEPT !.text = IF m.streaming THEN old.text + m.text
                                  ELSE IF m.text > 0 THEN m.text ELSE old.text,
                         !.streaming = m.streaming,
                         !.turn = m.turn]
<1>1. PICK S : messages \in Seq(S) /\ \A x \in S : MessageIs(x)
  BY Zenon DEF AllSpoken
<1>2. m.streaming \in BOOLEAN
  BY DEF MessageIs, Spoken
<1>3. CASE \E i \in DOMAIN messages : messages[i].id = m.id
  <2>1. next = [i \in DOMAIN messages |->
                  IF messages[i].id = m.id THEN merged(messages[i]) ELSE messages[i]]
    BY Zenon, <1>3 DEF UpsertMessage
  <2>2. ASSUME NEW old, MessageIs(old), old.id = m.id
        PROVE  /\ MessageIs(merged(old)) /\ merged(old).id = m.id
               /\ merged(old).streaming = m.streaming
    <3>1. PICK new : new = merged(old)
      OBVIOUS
    <3>2. /\ DOMAIN new = DOMAIN old /\ new.id = m.id /\ new.role = old.role
          /\ new.streaming = m.streaming /\ new.turn = m.turn
      BY <2>2, <3>1 DEF MessageIs, MessageFields
    <3>3. Spoken(new)
      BY Zenon, <2>2, <3>2 DEF MessageIs, Spoken
    <3> QED BY Zenon, <2>2, <3>1, <3>2, <3>3 DEF MessageIs
  <2> HIDE DEF merged
  <2>3. \A i \in DOMAIN messages : MessageIs(messages[i])
    BY <1>1
  <2>4. /\ DOMAIN next = DOMAIN messages
        /\ \A i \in DOMAIN messages : messages[i].id # m.id => next[i] = messages[i]
        /\ \A i \in DOMAIN messages : messages[i].id = m.id => next[i] = merged(messages[i])
    BY <2>1
  <2>5. ASSUME NEW i \in DOMAIN messages
        PROVE  /\ MessageIs(next[i]) /\ next[i].id = messages[i].id
               /\ messages[i].id = m.id => next[i].streaming = m.streaming
    <3>1. CASE messages[i].id = m.id
      BY <2>2, <2>3, <2>4, <3>1
    <3>2. CASE messages[i].id # m.id
      BY Zenon, <2>3, <2>4, <3>2
    <3> QED BY Zenon, <3>1, <3>2
  <2>6. next = [i \in DOMAIN next |-> next[i]]
    BY <2>1
  <2>7. AllSpoken(next)
    BY <1>1, <2>4, <2>5, <2>6, SpokenPointwise
  <2>8. ASSUME NEW id PROVE Streaming(next, id) <=> Arrived(m, id, Streaming(messages, id))
    BY <1>2, <1>3, <2>4, <2>5 DEF Streaming, Arrived
  <2> QED BY <2>7, <2>8
<1>4. CASE ~\E i \in DOMAIN messages : messages[i].id = m.id
  <2>1. next = Append(messages, m)
    BY Zenon, <1>4 DEF UpsertMessage
  <2>2. AllSpoken(next) /\ Extends(messages, m, next)
    BY Zenon, <2>1, SpokenAppend
  <2>3. ASSUME NEW id PROVE Streaming(next, id) <=> Arrived(m, id, Streaming(messages, id))
    BY <1>2, <1>4, <2>2 DEF Streaming, Arrived, Extends
  <2> QED BY <2>2, <2>3
<1> QED BY <1>3, <1>4

LEMMA WithThreadIs ==
  ASSUME NEW m, MessageIs(m), NEW t
  PROVE  /\ MessageIs(WithThread(m, t)) /\ WithThread(m, t).thread = t
         /\ WithThread(m, t).id = m.id /\ WithThread(m, t).streaming = m.streaming
<1>1. PICK row : row = WithThread(m, t)
  OBVIOUS
<1>2. DOMAIN row = DOMAIN m \cup {"thread"} /\ row.thread = t
  BY <1>1 DEF WithThread
<1>3. \A f \in MessageFields : f \in DOMAIN m /\ row[f] = m[f]
  BY <1>1 DEF WithThread, MessageFields, MessageIs
<1>4. /\ row.id = m.id /\ row.streaming = m.streaming
      /\ row.role = m.role /\ row.turn = m.turn
  BY <1>3 DEF MessageFields
<1>5. MessageIs(row)
  BY <1>2, <1>4 DEF MessageIs, Spoken
<1> QED BY Zenon, <1>1, <1>2, <1>4, <1>5

LEMMA ApplyStreams ==
  ASSUME NEW messages, AllSpoken(messages), NEW m, MessageIs(m), NEW t,
         NEW next, next = ApplyMessage(messages, t, m)
  PROVE  /\ AllSpoken(next)
         /\ \A id : RowStreams(next, t, id) <=> Arrived(m, id, RowStreams(messages, t, id))
<1> DEFINE same == {i \in DOMAIN messages : messages[i].id = m.id}
           text(old) == IF m.streaming THEN old.text + m.text
                        ELSE IF m.text = 0 THEN old.text ELSE m.text
           put(old) == WithThread([m EXCEPT !.text = text(old)], t)
<1>1. PICK S : messages \in Seq(S) /\ \A x \in S : MessageIs(x)
  BY Zenon DEF AllSpoken
<1>2. m.streaming \in BOOLEAN
  BY DEF MessageIs, Spoken
<1>3. CASE same # {}
  <2>1. next = [i \in DOMAIN messages |-> IF i \in same THEN put(messages[i]) ELSE messages[i]]
    BY Zenon, <1>3 DEF ApplyMessage
  <2>2. ASSUME NEW old
        PROVE  /\ MessageIs(put(old)) /\ put(old).id = m.id /\ put(old).thread = t
               /\ put(old).streaming = m.streaming
    <3>1. PICK new : new = [m EXCEPT !.text = text(old)]
      OBVIOUS
    <3>a. /\ DOMAIN new = DOMAIN m /\ new.id = m.id /\ new.streaming = m.streaming
          /\ new.role = m.role /\ new.turn = m.turn
      BY <3>1 DEF MessageIs, MessageFields
    <3>2. MessageIs(new) /\ new.id = m.id /\ new.streaming = m.streaming
      BY <3>a DEF MessageIs, Spoken
    <3>3. /\ MessageIs(WithThread(new, t)) /\ WithThread(new, t).thread = t
          /\ WithThread(new, t).id = new.id /\ WithThread(new, t).streaming = new.streaming
      BY Zenon, <3>2, WithThreadIs
    <3> QED BY Zenon, <3>1, <3>2, <3>3
  <2> HIDE DEF put, text
  <2>3. \A i \in DOMAIN messages : MessageIs(messages[i])
    BY <1>1
  <2>4. /\ DOMAIN next = DOMAIN messages
        /\ \A i \in DOMAIN messages : messages[i].id # m.id => next[i] = messages[i]
        /\ \A i \in DOMAIN messages : messages[i].id = m.id => next[i] = put(messages[i])
    BY <2>1
  <2>5. \A i \in DOMAIN messages :
          /\ MessageIs(next[i]) /\ next[i].id = messages[i].id
          /\ messages[i].id = m.id => next[i].streaming = m.streaming /\ next[i].thread = t
    BY Zenon, <2>2, <2>3, <2>4
  <2>6. next = [i \in DOMAIN next |-> next[i]]
    BY <2>1
  <2>7. AllSpoken(next)
    BY <1>1, <2>4, <2>5, <2>6, SpokenPointwise
  <2>8. \E i \in DOMAIN messages : messages[i].id = m.id
    BY <1>3
  <2>9. ASSUME NEW id PROVE RowStreams(next, t, id) <=> Arrived(m, id, RowStreams(messages, t, id))
    BY <1>2, <2>8, <2>4, <2>5 DEF RowStreams, Arrived
  <2> QED BY <2>7, <2>9
<1>4. CASE same = {}
  <2>1. next = Append(messages, WithThread(m, t))
    BY Zenon, <1>4 DEF ApplyMessage
  <2>2. PICK row : row = WithThread(m, t)
    OBVIOUS
  <2>3. MessageIs(row) /\ row.id = m.id /\ row.thread = t /\ row.streaming = m.streaming
    BY Zenon, <2>2, WithThreadIs
  <2>4. AllSpoken(next) /\ Extends(messages, row, next)
    BY Zenon, <2>1, <2>2, <2>3, SpokenAppend
  <2>5. \A i \in DOMAIN messages : messages[i].id # m.id
    BY <1>4
  <2>6. ASSUME NEW id PROVE RowStreams(next, t, id) <=> Arrived(m, id, RowStreams(messages, t, id))
    BY <1>2, <2>3, <2>4, <2>5 DEF RowStreams, Arrived, Extends
  <2> QED BY <2>4, <2>6
<1> QED BY <1>3, <1>4

-----------------------------------------------------------------------------
(* A revert of the rows: what streams goes on if its turn is gone back to. *)
GoesBackTo(turns, t, count, turn) == \E n : Counts(turns, t, turn, n) /\ n <= count
Survives(turns, t, count, id) == \E turn : GoesBackTo(turns, t, count, turn) /\ NamesTurn(id, turn)

TurnsIn(kept) == {r.turn : r \in kept}
MessagesIn(kept) == {r.pending : r \in kept} \cup {r.assistant : r \in kept}

LEMMA KeptTurnsTold ==
  ASSUME NEW turns, TurnsApart(turns), NEW t, NEW count, NEW kept, kept = KeptTurns(turns, t, count)
  PROVE  /\ \A turn : turn \in TurnsIn(kept) <=> GoesBackTo(turns, t, count, turn)
         /\ IdsTold(MessagesIn(kept), TurnsIn(kept))
<1>1. \A r : r \in kept <=> r \in turns /\ r.thread = t /\ r.count # None /\ r.count <= count
  BY DEF KeptTurns, OfThread
<1>2. \A turn : turn \in TurnsIn(kept) <=> GoesBackTo(turns, t, count, turn)
  BY <1>1 DEF GoesBackTo, Counts, TurnsIn
<1>3. ASSUME NEW r \in kept PROVE NamesTurn(r.pending, r.turn) /\ NamesTurn(r.assistant, r.turn)
  BY <1>1 DEF TurnsApart, TurnTold, NamesTurn
<1>4. IdsTold(MessagesIn(kept), TurnsIn(kept))
  BY <1>3 DEF IdsTold, TurnsIn, MessagesIn
<1> QED BY <1>2, <1>4

LEMMA RevertStreams ==
  ASSUME NEW rows, TurnsApart(rows.turns), AllSpoken(rows.messages), NEW t, NEW count,
         NEW next, next = RevertMessages(rows, t, count)
  PROVE  /\ AllSpoken(next)
         /\ \A id : RowStreams(next, t, id) <=>
              RowStreams(rows.messages, t, id) /\ Survives(rows.turns, t, count, id)
<1> DEFINE turns == KeptTurns(rows.turns, t, count)
           retained == TurnsIn(turns)
           ids      == MessagesIn(turns)
           own      == Where(rows.messages, LAMBDA m : m.thread = t)
           them     == Range(RetainMessages(own, retained, ids, count))
<1>1. PICK messages : messages = rows.messages
  OBVIOUS
<1>2. PICK mine : mine = own
  OBVIOUS
<1>a. mine = MessagesOf(messages, t)
  BY Zenon, <1>1, <1>2 DEF MessagesOf
<1>3. PICK kept : kept = RetainMessages(mine, retained, ids, count)
  OBVIOUS
<1>b. next = Rest(rows.messages, t, them)
  BY Zenon DEF RevertMessages, Rest, TurnsIn, MessagesIn
<1>4. next = Rest(messages, t, Range(kept))
  BY Zenon, <1>b, <1>1, <1>2, <1>3
<1>5. /\ \A turn : turn \in retained <=> GoesBackTo(rows.turns, t, count, turn)
      /\ IdsTold(ids, retained)
  BY Zenon, KeptTurnsTold
<1> HIDE DEF turns, retained, ids, own, them
<1>6. PICK S : messages \in Seq(S) /\ \A m \in S : MessageIs(m)
  BY Zenon, <1>1 DEF AllSpoken
<1>7. /\ mine \in Seq(S)
      /\ \A i \in DOMAIN mine :
           mine[i].thread = t /\ \E j \in DOMAIN messages : mine[i] = messages[j]
      /\ \A j \in DOMAIN messages : messages[j].thread = t =>
           \E i \in DOMAIN mine : mine[i] = messages[j]
  BY <1>a, <1>6, MessagesOfRows
<1>8. AllSpoken(mine)
  BY Zenon, <1>6, <1>7 DEF AllSpoken
<1>9. /\ \A id : Streaming(kept, id) <=>
           Streaming(mine, id) /\ \E turn \in retained : NamesTurn(id, turn)
      /\ \A i \in DOMAIN kept : \E j \in DOMAIN mine : kept[i] = mine[j]
  BY <1>3, <1>5, <1>8, RetainStreams
<1>10. PICK y : y = AllBut(t, Range(kept))
  OBVIOUS
<1>11. PassingRows(y, S, messages, next)
  <2>1. Rest(messages, t, Range(kept)) = Filtered(y, messages)
    BY Zenon, <1>6, <1>10, RestFiltered
  <2> QED BY Zenon, <1>4, <1>6, <2>1, FilteredRows
<1>12. \A m : Passes(y, m) <=> m.thread # t \/ m \in Range(kept)
  BY <1>10 DEF AllBut, Passes
<1>13. /\ next \in Seq(S)
       /\ \A i \in DOMAIN next : /\ next[i].thread # t \/ next[i] \in Range(kept)
                                 /\ \E j \in DOMAIN messages : next[i] = messages[j]
       /\ \A j \in DOMAIN messages : messages[j].thread # t \/ messages[j] \in Range(kept) =>
            \E i \in DOMAIN next : next[i] = messages[j]
  BY Zenon, <1>11, <1>12 DEF PassingRows
<1>14. AllSpoken(next)
  BY Zenon, <1>6, <1>13 DEF AllSpoken
<1>15. ASSUME NEW id
       PROVE  RowStreams(next, t, id) <=>
                RowStreams(messages, t, id) /\ Survives(rows.turns, t, count, id)
  <2>1. Survives(rows.turns, t, count, id) <=> \E turn \in retained : NamesTurn(id, turn)
    BY Zenon, <1>5 DEF Survives
  <2>2. Streaming(mine, id) <=> RowStreams(messages, t, id)
    BY Zenon, <1>a, <1>6, StreamsOfRows
  <2>3. RowStreams(next, t, id) <=> Streaming(kept, id)
    <3>1. ASSUME RowStreams(next, t, id) PROVE Streaming(kept, id)
      <4>1. PICK i \in DOMAIN next :
              next[i].thread = t /\ next[i].id = id /\ next[i].streaming
        BY Zenon, <3>1 DEF RowStreams
      <4>2. PICK k \in DOMAIN kept : kept[k] = next[i]
        BY <1>13, <4>1 DEF Range
      <4> QED BY <4>1, <4>2 DEF Streaming
    <3>2. ASSUME Streaming(kept, id) PROVE RowStreams(next, t, id)
      <4>1. PICK k \in DOMAIN kept : kept[k].id = id /\ kept[k].streaming
        BY Zenon, <3>2 DEF Streaming
      <4>2. PICK j \in DOMAIN messages : kept[k] = messages[j] /\ messages[j].thread = t
        BY <1>7, <1>9
      <4>3. messages[j] \in Range(kept)
        BY <4>2 DEF Range
      <4>4. PICK i \in DOMAIN next : next[i] = messages[j]
        BY Zenon, <1>13, <4>3
      <4> QED BY <4>1, <4>2, <4>4 DEF RowStreams
    <3> QED BY Zenon, <3>1, <3>2
  <2> QED BY Zenon, <1>9, <2>1, <2>2, <2>3
<1> QED BY Zenon, <1>1, <1>14, <1>15

-----------------------------------------------------------------------------
(* What an event makes of each field of a thread that is in the model.     *)
ThreadFields == {"exists", "project", "archived", "deleted", "session", "latestTurn", "messages",
                 "plans", "checkpoints", "activities"}
Reached(checkpoints, count) == {k.turn : k \in {c \in checkpoints : c.count <= count}}
Surviving(items, retained) == {x \in items : x.turn = None \/ x.turn \in retained}
ArchivedAfter(before, e) ==
  CASE e.type = "thread.archived" -> TRUE
    [] e.type = "thread.unarchived" -> FALSE
    [] OTHER -> before
DeletedAfter(before, e) == IF e.type = "thread.deleted" THEN TRUE ELSE before
ThreadMessages(th, e) ==
  CASE e.type = "thread.message-sent" -> UpsertMessage(th.messages, e.arg)
    [] e.type = "thread.reverted" ->
         RetainMessages(th.messages, Reached(th.checkpoints, e.arg.turnCount), {}, e.arg.turnCount)
    [] OTHER -> th.messages
ThreadPlans(th, e) ==
  CASE e.type = "thread.proposed-plan-upserted" -> UpsertById(th.plans, e.arg)
    [] e.type = "thread.reverted" ->
         Surviving(th.plans, Reached(th.checkpoints, e.arg.turnCount))
    [] OTHER -> th.plans
ThreadActivities(th, e) ==
  CASE e.type = "thread.activity-appended" -> UpsertById(th.activities, e.arg)
    [] e.type = "thread.reverted" ->
         Surviving(th.activities, Reached(th.checkpoints, e.arg.turnCount))
    [] OTHER -> th.activities
ThreadCheckpoints(th, e) ==
  CASE e.type = "thread.turn-diff-completed" -> CompleteTurnDiff(th, e.arg).checkpoints
    [] e.type = "thread.reverted" -> {k \in th.checkpoints : k.count <= e.arg.turnCount}
    [] OTHER -> th.checkpoints
RunsTurn(e) ==
  \/ e.type \in {"thread.turn-diff-completed", "thread.reverted"}
  \/ e.type = "thread.session-set" /\ e.arg.status = "running" /\ e.arg.turn # None

Record(th) == th = [f \in ThreadFields |-> th[f]]
ThreadWritten(th, e, next) ==
  /\ Record(next) /\ next.exists = th.exists /\ next.project = th.project
  /\ next.archived = ArchivedAfter(th.archived, e) /\ next.deleted = DeletedAfter(th.deleted, e)
  /\ next.session = IF e.type = "thread.session-set" THEN e.arg ELSE th.session
  /\ next.messages = ThreadMessages(th, e) /\ next.plans = ThreadPlans(th, e)
  /\ next.activities = ThreadActivities(th, e) /\ next.checkpoints = ThreadCheckpoints(th, e)
  /\ ~RunsTurn(e) => next.latestTurn = th.latestTurn

(* A field is written.                                                     *)
OnlyPut(th, next, f) ==
  Record(next) /\ \A g \in ThreadFields : g # f => next[g] = th[g]

LEMMA FieldPut ==
  ASSUME NEW th, Record(th), NEW f \in ThreadFields, NEW v, NEW next, next = [th EXCEPT ![f] = v]
  PROVE  OnlyPut(th, next, f) /\ next[f] = v
<1>1. DOMAIN th = ThreadFields
  BY DEF Record
<1>2. DOMAIN next = ThreadFields /\ next = [g \in ThreadFields |-> next[g]]
  BY <1>1
<1>3. next[f] = v /\ \A g \in ThreadFields : g # f => next[g] = th[g]
  BY <1>1
<1> QED BY <1>2, <1>3 DEF OnlyPut, Record

OthersSame(th, next, f) ==
  /\ f # "exists" => next.exists = th.exists
  /\ f # "project" => next.project = th.project
  /\ f # "archived" => next.archived = th.archived
  /\ f # "deleted" => next.deleted = th.deleted
  /\ f # "session" => next.session = th.session
  /\ f # "latestTurn" => next.latestTurn = th.latestTurn
  /\ f # "messages" => next.messages = th.messages
  /\ f # "plans" => next.plans = th.plans
  /\ f # "checkpoints" => next.checkpoints = th.checkpoints
  /\ f # "activities" => next.activities = th.activities
LEMMA OnlyPutKeeps ==
  ASSUME NEW th, NEW next, NEW f, OnlyPut(th, next, f)
  PROVE  Record(next) /\ OthersSame(th, next, f)
BY DEF OnlyPut, OthersSame, ThreadFields

LEMMA ThreadIsWritten ==
  ASSUME NEW th, Record(th), th.exists, NEW e, e.type # "thread.created"
  PROVE  ThreadWritten(th, e, ThreadAfter(th, e))
<1> USE DEF ThreadMessages, ThreadPlans, ThreadActivities, ThreadCheckpoints, ArchivedAfter,
            DeletedAfter
<1>1. PICK next : next = ThreadAfter(th, e)
  OBVIOUS
<1> SUFFICES ThreadWritten(th, e, next)
  BY <1>1
<1>2. CASE e.type = "thread.deleted"
  <2>1. next = [th EXCEPT !.deleted = TRUE]
    BY <1>1, <1>2 DEF ThreadAfter
  <2>2. OnlyPut(th, next, "deleted") /\ next.deleted = TRUE
    BY <2>1, FieldPut DEF ThreadFields
  <2>3. Record(next) /\ OthersSame(th, next, "deleted")
    BY Zenon, <2>2, OnlyPutKeeps
  <2> QED
    BY <1>2, <2>2, <2>3 DEF ThreadWritten, OthersSame
<1>3. CASE e.type = "thread.archived"
  <2>1. next = [th EXCEPT !.archived = TRUE]
    BY <1>1, <1>3 DEF ThreadAfter
  <2>2. OnlyPut(th, next, "archived") /\ next.archived = TRUE
    BY <2>1, FieldPut DEF ThreadFields
  <2>3. Record(next) /\ OthersSame(th, next, "archived")
    BY Zenon, <2>2, OnlyPutKeeps
  <2> QED
    BY <1>3, <2>2, <2>3 DEF ThreadWritten, OthersSame
<1>4. CASE e.type = "thread.unarchived"
  <2>1. next = [th EXCEPT !.archived = FALSE]
    BY <1>1, <1>4 DEF ThreadAfter
  <2>2. OnlyPut(th, next, "archived") /\ next.archived = FALSE
    BY <2>1, FieldPut DEF ThreadFields
  <2>3. Record(next) /\ OthersSame(th, next, "archived")
    BY Zenon, <2>2, OnlyPutKeeps
  <2> QED
    BY <1>4, <2>2, <2>3 DEF ThreadWritten, OthersSame
<1>5. CASE e.type = "thread.message-sent"
  <2>1. next = [th EXCEPT !.messages = UpsertMessage(th.messages, e.arg)]
    BY <1>1, <1>5 DEF ThreadAfter
  <2>2. OnlyPut(th, next, "messages") /\ next.messages = UpsertMessage(th.messages, e.arg)
    BY <2>1, FieldPut DEF ThreadFields
  <2>3. Record(next) /\ OthersSame(th, next, "messages")
    BY Zenon, <2>2, OnlyPutKeeps
  <2> QED
    BY <1>5, <2>2, <2>3 DEF ThreadWritten, OthersSame
<1>6. CASE e.type = "thread.proposed-plan-upserted"
  <2>1. next = [th EXCEPT !.plans = UpsertById(th.plans, e.arg)]
    BY <1>1, <1>6 DEF ThreadAfter
  <2>2. OnlyPut(th, next, "plans") /\ next.plans = UpsertById(th.plans, e.arg)
    BY <2>1, FieldPut DEF ThreadFields
  <2>3. Record(next) /\ OthersSame(th, next, "plans")
    BY Zenon, <2>2, OnlyPutKeeps
  <2> QED
    BY <1>6, <2>2, <2>3 DEF ThreadWritten, OthersSame
<1>7. CASE e.type = "thread.activity-appended"
  <2>1. next = [th EXCEPT !.activities = UpsertById(th.activities, e.arg)]
    BY <1>1, <1>7 DEF ThreadAfter
  <2>2. OnlyPut(th, next, "activities") /\ next.activities = UpsertById(th.activities, e.arg)
    BY <2>1, FieldPut DEF ThreadFields
  <2>3. Record(next) /\ OthersSame(th, next, "activities")
    BY Zenon, <2>2, OnlyPutKeeps
  <2> QED
    BY <1>7, <2>2, <2>3 DEF ThreadWritten, OthersSame
<1>8. CASE e.type = "thread.session-set"
  <2>1. PICK last, mid : /\ mid = [th EXCEPT !.session = e.arg]
                         /\ next = [mid EXCEPT !.latestTurn = last]
                         /\ ~RunsTurn(e) => last = th.latestTurn
    <3> DEFINE last == IF e.arg.status = "running" /\ e.arg.turn # None
                       THEN [turn |-> e.arg.turn, state |-> "running"] ELSE th.latestTurn
    <3>1. next = SetSession(th, e.arg)
      BY <1>1, <1>8 DEF ThreadAfter
    <3>2. next = [th EXCEPT !.session = e.arg, !.latestTurn = last]
      BY <3>1 DEF SetSession
    <3>3. ~RunsTurn(e) => last = th.latestTurn
      BY <1>8 DEF RunsTurn
    <3> HIDE DEF last
    <3>4. next = [[th EXCEPT !.session = e.arg] EXCEPT !.latestTurn = last]
      BY <3>2
    <3> QED BY <3>3, <3>4
  <2>2. OnlyPut(th, mid, "session") /\ mid.session = e.arg
    BY <2>1, FieldPut DEF ThreadFields
  <2>3. Record(mid) /\ OthersSame(th, mid, "session")
    BY Zenon, <2>2, OnlyPutKeeps
  <2>4. OnlyPut(mid, next, "latestTurn")
    BY <2>1, <2>3, FieldPut DEF ThreadFields
  <2>5. Record(next) /\ OthersSame(mid, next, "latestTurn")
    BY Zenon, <2>4, OnlyPutKeeps
  <2>6. next.latestTurn = last
    BY <2>1, <2>3 DEF Record, ThreadFields
  <2> QED
    BY <1>8, <2>1, <2>2, <2>3, <2>5, <2>6 DEF ThreadWritten, OthersSame
<1>9. CASE e.type = "thread.turn-diff-completed"
  <2>1. next = CompleteTurnDiff(th, e.arg)
    BY <1>1, <1>9 DEF ThreadAfter
  <2>2. RunsTurn(e) /\ next.checkpoints = CompleteTurnDiff(th, e.arg).checkpoints
    BY <1>9, <2>1 DEF RunsTurn
  <2>3. CASE next = th
    BY <1>9, <2>2, <2>3 DEF ThreadWritten
  <2>4. CASE next # th
    <3>1. PICK points, last : next = [th EXCEPT !.checkpoints = points, !.latestTurn = last]
      BY <2>1, <2>4 DEF CompleteTurnDiff
    <3>2. PICK mid : mid = [th EXCEPT !.checkpoints = points]
      OBVIOUS
    <3>3. next = [mid EXCEPT !.latestTurn = last]
      BY <3>1, <3>2
    <3>4. OnlyPut(th, mid, "checkpoints")
      BY <3>2, FieldPut DEF ThreadFields
    <3>5. Record(mid) /\ OthersSame(th, mid, "checkpoints")
      BY Zenon, <3>4, OnlyPutKeeps
    <3>6. OnlyPut(mid, next, "latestTurn")
      BY <3>3, <3>5, FieldPut DEF ThreadFields
    <3>7. Record(next) /\ OthersSame(mid, next, "latestTurn")
      BY Zenon, <3>6, OnlyPutKeeps
    <3> QED
      BY <1>9, <2>2, <3>5, <3>7 DEF ThreadWritten, OthersSame
  <2> QED BY <2>3, <2>4
<1>10. CASE e.type = "thread.reverted"
  <2> DEFINE kept == {k \in th.checkpoints : k.count <= e.arg.turnCount}
             turns == Reached(th.checkpoints, e.arg.turnCount)
  <2>1. PICK last :
          next = [th EXCEPT !.checkpoints = kept,
                            !.messages    = RetainMessages(@, turns, {}, e.arg.turnCount),
                            !.plans       = Surviving(@, turns),
                            !.activities  = Surviving(@, turns),
                            !.latestTurn  = last]
    BY Zenon, <1>1, <1>10 DEF ThreadAfter, Revert, Reached, Surviving
  <2>2. RunsTurn(e)
    BY <1>10 DEF RunsTurn
  <2>3. DOMAIN th = ThreadFields
    BY DEF Record
  <2>4. PICK points, messages, plans, activities :
          /\ points = kept /\ messages = RetainMessages(th.messages, turns, {}, e.arg.turnCount)
          /\ plans = Surviving(th.plans, turns) /\ activities = Surviving(th.activities, turns)
    OBVIOUS
  <2>5. next = [th EXCEPT !.checkpoints = points, !.messages = messages, !.plans = plans,
                          !.activities = activities, !.latestTurn = last]
    BY <2>1, <2>3, <2>4 DEF ThreadFields
  <2> HIDE DEF kept, turns
  <2>6. /\ Record(next) /\ next.exists = th.exists /\ next.project = th.project
        /\ next.archived = th.archived /\ next.deleted = th.deleted /\ next.session = th.session
        /\ next.checkpoints = points /\ next.messages = messages /\ next.plans = plans
        /\ next.activities = activities
    BY <2>3, <2>5 DEF ThreadFields, Record
  <2> QED
    BY <1>10, <2>2, <2>4, <2>6 DEF ThreadWritten, kept, turns
<1>11. CASE e.type \notin {"thread.deleted", "thread.archived", "thread.unarchived",
                           "thread.message-sent", "thread.session-set",
                           "thread.proposed-plan-upserted", "thread.activity-appended",
                           "thread.turn-diff-completed", "thread.reverted"}
  <2>1. next = th
    BY <1>1, <1>11 DEF ThreadAfter
  <2> QED
    BY <1>11, <2>1 DEF ThreadWritten
<1> QED
  BY <1>1, <1>2, <1>3, <1>4, <1>5, <1>6, <1>7, <1>8, <1>9, <1>10, <1>11

-----------------------------------------------------------------------------
(* What it makes of the row of its thread, in the table of threads.        *)
ThreadRowFields == {"exists", "project", "archived", "deleted", "pendingApprovals"}
ThreadRow(row) == DOMAIN row = ThreadRowFields /\ row.exists \in BOOLEAN
RowWritten(row, e, next) ==
  /\ ThreadRow(next) /\ next.exists = row.exists /\ next.project = row.project
  /\ next.archived = ArchivedAfter(row.archived, e) /\ next.deleted = DeletedAfter(row.deleted, e)

LEMMA RowIsWritten ==
  ASSUME NEW rows, NEW e, NEW row, row = rows.threads[e.stream], ThreadRow(row), row.exists,
         e.type # "thread.created", NEW next, next = ApplyThreads(rows, e)
  PROVE  RowWritten(row, e, next)
<1> USE DEF ArchivedAfter, DeletedAfter, ThreadRow, ThreadRowFields
<1>1. CASE e.type = "thread.archived"
  <2>1. next = [row EXCEPT !.archived = TRUE]
    BY <1>1 DEF ApplyThreads, RefreshesSummary
  <2> QED BY <1>1, <2>1 DEF RowWritten
<1>2. CASE e.type = "thread.unarchived"
  <2>1. next = [row EXCEPT !.archived = FALSE]
    BY <1>2 DEF ApplyThreads, RefreshesSummary
  <2> QED BY <1>2, <2>1 DEF RowWritten
<1>3. CASE e.type = "thread.deleted"
  <2>1. next = [row EXCEPT !.deleted = TRUE]
    BY <1>3 DEF ApplyThreads, RefreshesSummary
  <2> QED BY <1>3, <2>1 DEF RowWritten
<1>4. CASE e.type \in RefreshesSummary
  <2>1. PICK n : next = [row EXCEPT !.pendingApprovals = n]
    BY <1>4 DEF ApplyThreads, RefreshesSummary
  <2>2. e.type \notin {"thread.archived", "thread.unarchived", "thread.deleted"}
    BY <1>4 DEF RefreshesSummary
  <2> QED BY <2>1, <2>2 DEF RowWritten
<1>5. CASE e.type \notin {"thread.archived", "thread.unarchived", "thread.deleted"}
             /\ e.type \notin RefreshesSummary
  <2>1. next = row
    BY <1>5 DEF ApplyThreads
  <2> QED BY <1>5, <2>1 DEF RowWritten
<1> QED BY <1>1, <1>2, <1>3, <1>4, <1>5

(* The row of a thread that is created.                                    *)
NewRow(project) ==
  [exists |-> TRUE, project |-> project, archived |-> FALSE, deleted |-> FALSE,
   pendingApprovals |-> 0]
LEMMA RowIsCreated ==
  ASSUME NEW rows, NEW e, e.type = "thread.created"
  PROVE  ApplyThreads(rows, e) = NewRow(e.arg) /\ ThreadRow(NewRow(e.arg))
<1>1. ApplyThreads(rows, e) = NewRow(e.arg)
  BY DEF ApplyThreads, NewRow
<1>2. ThreadRow(NewRow(e.arg))
  BY DEF ThreadRow, ThreadRowFields, NewRow
<1> QED BY <1>1, <1>2

(* The rows of the event's thread, and of the others.                      *)
LEMMA ThreadsRow ==
  ASSUME NEW rows, DOMAIN rows = TableNames, DOMAIN rows.threads = Threads, NEW e,
         e.stream \in Threads, NEW next, EventWritten(rows, e, next)
  PROVE  \E acc : /\ acc.threads = rows.threads
                  /\ next.threads[e.stream] = ApplyThreads(acc, e)
                  /\ \A t \in Threads : t # e.stream => next.threads[t] = rows.threads[t]
<1> DEFINE acc == Counted(rows, ApplyApprovals(rows.approvals, e))
<1>1. acc.threads = rows.threads
  BY DEF Counted
<1>2. next.threads = PutThread(rows.threads, e, ApplyThreads(acc, e))
  BY DEF EventWritten, ThreadsAfter
<1> HIDE DEF acc
<1>3. /\ next.threads[e.stream] = ApplyThreads(acc, e)
      /\ \A t \in Threads : t # e.stream => next.threads[t] = rows.threads[t]
  BY <1>2 DEF PutThread
<1> QED BY <1>1, <1>3

-----------------------------------------------------------------------------
(* Plans and checkpoints, in memory and in the rows, as far as a verdict or*)
(* a revert depends on them.                                               *)
HasPlan(plans, id, turn) == \E x \in plans : x.id = id /\ x.turn = turn
RowPlan(plans, t, id, turn) == \E x \in plans : x.thread = t /\ x.id = id /\ x.turn = turn
HasCheckpoint(checkpoints, a, n) == \E k \in checkpoints : k.turn = a /\ k.count = n

SameStreams(th, rows, t) ==
  AllSpoken(th.messages) /\ \A id : Streaming(th.messages, id) <=> RowStreams(rows.messages, t, id)
SamePlans(th, rows, t) ==
  \A id, turn : HasPlan(th.plans, id, turn) <=> RowPlan(rows.plans, t, id, turn)
SameCheckpoints(th, rows, t) ==
  \A a, n : HasCheckpoint(th.checkpoints, a, n) <=> Counts(rows.turns, t, a, n)

(* The turns a revert retains are the turns it goes back to.               *)
LEMMA ReachedTurns ==
  ASSUME NEW th, NEW rows, NEW t, SameCheckpoints(th, rows, t), NEW count
  PROVE  \A turn :
           turn \in Reached(th.checkpoints, count) <=> GoesBackTo(rows.turns, t, count, turn)
<1> SUFFICES ASSUME NEW turn
             PROVE  turn \in Reached(th.checkpoints, count)
                      <=> GoesBackTo(rows.turns, t, count, turn)
  OBVIOUS
<1>1. turn \in Reached(th.checkpoints, count) <=>
        \E n : HasCheckpoint(th.checkpoints, turn, n) /\ n <= count
  BY DEF Reached, HasCheckpoint
<1>2. \A n : HasCheckpoint(th.checkpoints, turn, n) <=> Counts(rows.turns, t, turn, n)
  BY Zenon DEF SameCheckpoints
<1> QED BY Zenon, <1>1, <1>2 DEF GoesBackTo

LEMMA SameStreamsAfter ==
  ASSUME ItemShapes, TurnsToldApart, NEW th, NEW rows, NEW e, Drafted(e), NEW t, t = e.stream,
         TurnsApart(rows.turns), AllSpoken(rows.messages),
         SameStreams(th, rows, t), SameCheckpoints(th, rows, t),
         NEW next, next.messages = ThreadMessages(th, e),
         NEW after, after.messages = MessagesAfter(rows, e)
  PROVE  SameStreams(next, after, t) /\ AllSpoken(after.messages)
<1>0. AllSpoken(th.messages)
  BY DEF SameStreams
<1>1. CASE e.type = "thread.message-sent"
  <2>1. Spoken(e.arg) /\ DOMAIN e.arg = MessageFields
    BY Zenon, <1>1, DraftSpoken
  <2>2. MessageIs(e.arg)
    BY <2>1 DEF MessageIs
  <2>3. next.messages = UpsertMessage(th.messages, e.arg)
    BY <1>1 DEF ThreadMessages
  <2>4. after.messages = ApplyMessage(rows.messages, t, e.arg)
    BY <1>1 DEF MessagesAfter
  <2>5. AllSpoken(next.messages)
        /\ \A id : Streaming(next.messages, id) <=> Arrived(e.arg, id, Streaming(th.messages, id))
    BY Zenon, <1>0, <2>2, <2>3, UpsertStreams
  <2>6. AllSpoken(after.messages)
        /\ \A id : RowStreams(after.messages, t, id) <=>
                     Arrived(e.arg, id, RowStreams(rows.messages, t, id))
    BY Zenon, <2>2, <2>4, ApplyStreams
  <2>7. \A id : Streaming(next.messages, id) <=> RowStreams(after.messages, t, id)
    BY Zenon, <2>5, <2>6 DEF SameStreams, Arrived
  <2> QED BY Zenon, <2>5, <2>6, <2>7 DEF SameStreams
<1>2. CASE e.type = "thread.reverted"
  <2> DEFINE count == e.arg.turnCount
             retained == Reached(th.checkpoints, count)
  <2>1. next.messages = RetainMessages(th.messages, retained, {}, count)
    BY <1>2 DEF ThreadMessages
  <2>2. after.messages = RevertMessages(rows, t, count)
    BY <1>2 DEF MessagesAfter
  <2>3. \A turn : turn \in retained <=> GoesBackTo(rows.turns, t, count, turn)
    BY Zenon, ReachedTurns
  <2> HIDE DEF count, retained
  <2>4. IdsTold({}, retained)
    BY DEF IdsTold
  <2>5. AllSpoken(next.messages)
        /\ \A id : Streaming(next.messages, id) <=>
              Streaming(th.messages, id) /\ \E turn \in retained : NamesTurn(id, turn)
    BY <1>0, <2>1, <2>4, RetainStreams
  <2>6. AllSpoken(after.messages)
        /\ \A id : RowStreams(after.messages, t, id) <=>
              RowStreams(rows.messages, t, id) /\ Survives(rows.turns, t, count, id)
    BY Zenon, <2>2, RevertStreams
  <2>7. \A id : (\E turn \in retained : NamesTurn(id, turn)) <=> Survives(rows.turns, t, count, id)
    BY Zenon, <2>3 DEF Survives
  <2>8. \A id : Streaming(next.messages, id) <=> RowStreams(after.messages, t, id)
    BY Zenon, <2>5, <2>6, <2>7 DEF SameStreams
  <2> QED BY Zenon, <2>5, <2>6, <2>8 DEF SameStreams
<1>3. CASE e.type \notin {"thread.message-sent", "thread.reverted"}
  <2>1. next.messages = th.messages /\ after.messages = rows.messages
    BY <1>3 DEF ThreadMessages, MessagesAfter
  <2> QED BY Zenon, <2>1 DEF SameStreams
<1> QED BY <1>1, <1>2, <1>3

(* An upsert of a plan, in memory and in the rows.                         *)
LEMMA UpsertPlan ==
  ASSUME NEW th, NEW rows, NEW t, SamePlans(th, rows, t), NEW item,
         {"id", "turn"} \subseteq DOMAIN item,
         NEW next, next.plans = UpsertById(th.plans, item),
         NEW after, after.plans = UpsertById(rows.plans, WithThread(item, t))
  PROVE  SamePlans(next, after, t)
<1>1. PICK row : row = WithThread(item, t)
  OBVIOUS
<1>2. row.thread = t /\ row.id = item.id /\ row.turn = item.turn
  BY <1>1 DEF WithThread
<1> SUFFICES ASSUME NEW id, NEW turn
             PROVE  HasPlan(next.plans, id, turn) <=> RowPlan(after.plans, t, id, turn)
  BY DEF SamePlans
<1>3. HasPlan(next.plans, id, turn) <=>
        \/ id # item.id /\ HasPlan(th.plans, id, turn)
        \/ id = item.id /\ turn = item.turn
  BY DEF HasPlan, UpsertById
<1>4. RowPlan(after.plans, t, id, turn) <=>
        \/ id # item.id /\ RowPlan(rows.plans, t, id, turn)
        \/ id = item.id /\ turn = item.turn
  BY <1>1, <1>2 DEF RowPlan, UpsertById
<1>5. HasPlan(th.plans, id, turn) <=> RowPlan(rows.plans, t, id, turn)
  BY Zenon DEF SamePlans
<1> QED BY Zenon, <1>3, <1>4, <1>5

LEMMA RevertPlans ==
  ASSUME NEW th, NEW rows, NEW t, SamePlans(th, rows, t), SameCheckpoints(th, rows, t),
         TurnsApart(rows.turns), NEW count,
         NEW next, next.plans = Surviving(th.plans, Reached(th.checkpoints, count)),
         NEW after, after.plans = RevertRows(rows.plans, rows, t, count)
  PROVE  SamePlans(next, after, t)
<1>1. PICK kept : kept = KeptTurns(rows.turns, t, count)
  OBVIOUS
<1>2. \A turn : turn \in TurnsIn(kept) <=> GoesBackTo(rows.turns, t, count, turn)
  <2>1. PICK turns : turns = rows.turns
    OBVIOUS
  <2>2. TurnsApart(turns) /\ kept = KeptTurns(turns, t, count)
    BY Zenon, <1>1, <2>1
  <2>3. \A turn : turn \in TurnsIn(kept) <=> GoesBackTo(turns, t, count, turn)
    BY Zenon, <2>2, KeptTurnsTold
  <2> QED BY Zenon, <2>1, <2>3
<1>3. \A turn : turn \in Reached(th.checkpoints, count) <=> GoesBackTo(rows.turns, t, count, turn)
  BY Zenon, ReachedTurns
<1> SUFFICES ASSUME NEW id, NEW turn
             PROVE  HasPlan(next.plans, id, turn) <=> RowPlan(after.plans, t, id, turn)
  BY DEF SamePlans
<1>4. HasPlan(next.plans, id, turn) <=>
        HasPlan(th.plans, id, turn) /\ (turn = None \/ turn \in Reached(th.checkpoints, count))
  BY DEF HasPlan, Surviving
<1>5. RowPlan(after.plans, t, id, turn) <=>
        RowPlan(rows.plans, t, id, turn) /\ (turn = None \/ turn \in TurnsIn(kept))
  <2>1. after.plans = {r \in rows.plans : r.thread = t => r.turn = None \/ r.turn \in TurnsIn(kept)}
    BY <1>1 DEF RevertRows, TurnsIn
  <2> HIDE DEF TurnsIn
  <2> QED BY <2>1 DEF RowPlan
<1>6. HasPlan(th.plans, id, turn) <=> RowPlan(rows.plans, t, id, turn)
  BY Zenon DEF SamePlans
<1> QED BY Zenon, <1>2, <1>3, <1>4, <1>5, <1>6

LEMMA DraftPlan ==
  ASSUME ItemShapes, NEW e, Drafted(e), e.type = "thread.proposed-plan-upserted"
  PROVE  DOMAIN e.arg = {"id", "turn"}
BY DEF Drafted, ItemShapes

LEMMA SamePlansAfter ==
  ASSUME ItemShapes, NEW th, NEW rows, NEW e, Drafted(e), NEW t, t = e.stream,
         TurnsApart(rows.turns), SamePlans(th, rows, t), SameCheckpoints(th, rows, t),
         NEW next, next.plans = ThreadPlans(th, e), NEW after, after.plans = PlansAfter(rows, e)
  PROVE  SamePlans(next, after, t)
<1>1. CASE e.type = "thread.proposed-plan-upserted"
  <2>1. {"id", "turn"} \subseteq DOMAIN e.arg
    BY <1>1, DraftPlan
  <2>2. next.plans = UpsertById(th.plans, e.arg)
    BY <1>1 DEF ThreadPlans
  <2>3. after.plans = UpsertById(rows.plans, WithThread(e.arg, t))
    BY <1>1 DEF PlansAfter
  <2> QED BY Zenon, <2>1, <2>2, <2>3, UpsertPlan
<1>2. CASE e.type = "thread.reverted"
  <2>1. next.plans = Surviving(th.plans, Reached(th.checkpoints, e.arg.turnCount))
    BY <1>2 DEF ThreadPlans
  <2>2. after.plans = RevertRows(rows.plans, rows, t, e.arg.turnCount)
    BY <1>2 DEF PlansAfter
  <2> QED BY Zenon, <2>1, <2>2, RevertPlans
<1>3. CASE e.type \notin {"thread.proposed-plan-upserted", "thread.reverted"}
  <2>1. next.plans = th.plans /\ after.plans = rows.plans
    BY <1>3 DEF ThreadPlans, PlansAfter
  <2> QED BY Zenon, <2>1 DEF SamePlans
<1> QED BY <1>1, <1>2, <1>3

(* A turn that is recorded has one count.                                  *)
LEMMA CountedOnce ==
  ASSUME TurnsToldApart, NEW turns, TurnsApart(turns), NEW t, NEW a, NEW n, Counts(turns, t, a, n)
  PROVE  Captured(t, a, n)
BY DEF Counts, TurnsApart, TurnTold

LEMMA SameCheckpointsAfter ==
  ASSUME TurnsToldApart, NEW th, Record(th), NEW rows, NEW e, Drafted(e), NEW t, t = e.stream,
         TurnsApart(rows.turns), SameCheckpoints(th, rows, t),
         NEW next, next.checkpoints = ThreadCheckpoints(th, e),
         NEW after, CountsAfter(rows.turns, after.turns, e)
  PROVE  SameCheckpoints(next, after, t)
<1> SUFFICES ASSUME NEW a, NEW n
             PROVE  HasCheckpoint(next.checkpoints, a, n) <=> Counts(after.turns, t, a, n)
  BY DEF SameCheckpoints
<1>0. \A m : HasCheckpoint(th.checkpoints, a, m) <=> Counts(rows.turns, t, a, m)
  BY Zenon DEF SameCheckpoints
<1>1. CASE e.type = "thread.turn-diff-completed"
  <2>1. PICK c : c = e.arg
    OBVIOUS
  <2>2. Captured(t, c.turn, c.count)
    BY Zenon, <1>1, <2>1, DraftCaptured
  <2>3. \A m : HasCheckpoint(th.checkpoints, c.turn, m) => m = c.count
    <3> SUFFICES ASSUME NEW m, HasCheckpoint(th.checkpoints, c.turn, m) PROVE m = c.count
      OBVIOUS
    <3>1. Counts(rows.turns, t, c.turn, m)
      BY Zenon DEF SameCheckpoints
    <3>2. Captured(t, c.turn, m)
      BY Zenon, <3>1, CountedOnce
    <3> QED BY <2>2, <3>2, CapturedOnce
  <2>4. next.checkpoints = CompleteTurnDiff(th, c).checkpoints
    BY <1>1, <2>1 DEF ThreadCheckpoints
  <2>5. \/ /\ next.checkpoints = th.checkpoints
           /\ \E k \in th.checkpoints : k.turn = c.turn
        \/ next.checkpoints = {k \in th.checkpoints : k.turn # c.turn} \cup {c}
    BY <2>4 DEF CompleteTurnDiff, Record, ThreadFields
  <2>6. CountsToo(rows.turns, after.turns, t, c.turn, c.count)
    BY <1>1, <2>1 DEF CountsAfter
  <2>7. Counts(after.turns, t, a, n) <=> Counts(rows.turns, t, a, n) \/ (a = c.turn /\ n = c.count)
    BY <2>6 DEF CountsToo
  <2>8. HasCheckpoint(next.checkpoints, a, n) <=>
          HasCheckpoint(th.checkpoints, a, n) \/ (a = c.turn /\ n = c.count)
    <3>1. CASE next.checkpoints = th.checkpoints /\ \E k \in th.checkpoints : k.turn = c.turn
      <4>1. PICK k \in th.checkpoints : k.turn = c.turn
        BY <3>1
      <4>2. HasCheckpoint(th.checkpoints, c.turn, k.count)
        BY <4>1 DEF HasCheckpoint
      <4>3. HasCheckpoint(th.checkpoints, c.turn, c.count)
        BY Zenon, <2>3, <4>2
      <4> QED BY Zenon, <3>1, <4>3
    <3>2. CASE next.checkpoints = {k \in th.checkpoints : k.turn # c.turn} \cup {c}
      <4>1. HasCheckpoint(next.checkpoints, a, n) <=>
              (a # c.turn /\ HasCheckpoint(th.checkpoints, a, n)) \/ (a = c.turn /\ n = c.count)
        BY <3>2 DEF HasCheckpoint
      <4> QED BY Zenon, <2>3, <4>1
    <3> QED BY <2>5, <3>1, <3>2
  <2> QED BY Zenon, <1>0, <2>7, <2>8
<1>2. CASE e.type = "thread.reverted"
  <2>1. next.checkpoints = {k \in th.checkpoints : k.count <= e.arg.turnCount}
    BY <1>2 DEF ThreadCheckpoints
  <2>2. HasCheckpoint(next.checkpoints, a, n) <=>
          HasCheckpoint(th.checkpoints, a, n) /\ n <= e.arg.turnCount
    BY <2>1 DEF HasCheckpoint
  <2>3. CountsUpTo(rows.turns, after.turns, t, e.arg.turnCount)
    BY <1>2 DEF CountsAfter
  <2>4. Counts(after.turns, t, a, n) <=> Counts(rows.turns, t, a, n) /\ n <= e.arg.turnCount
    BY Zenon, <2>3 DEF CountsUpTo
  <2> QED BY Zenon, <1>0, <2>2, <2>4
<1>3. CASE e.type \notin {"thread.turn-diff-completed", "thread.reverted"}
  <2>1. next.checkpoints = th.checkpoints
    BY <1>3 DEF ThreadCheckpoints
  <2>2. SameCounts(rows.turns, after.turns)
    BY <1>3 DEF CountsAfter
  <2>3. Counts(after.turns, t, a, n) <=> Counts(rows.turns, t, a, n)
    BY Zenon, <2>2 DEF SameCounts
  <2> QED BY Zenon, <1>0, <2>1, <2>3
<1> QED BY <1>1, <1>2, <1>3

-----------------------------------------------------------------------------
(* The lists of a thread, item for item.                                   *)
Shown(messages) == [i \in DOMAIN messages |-> Without(messages[i], "thread")]
Plain(items) == {Without(r, "thread") : r \in items}
NoTurn == [turn |-> None, state |-> "none"]
Shows(list, messages, t) == list = Shown(MessagesOf(messages, t))
SameMessages(th, rows, t) == Shows(th.messages, rows.messages, t)

RoleTold(m) == \A e \in DraftsOf("thread.message-sent") : e.arg.id = m.id => e.arg.role = m.role
MessageShape(m) ==
  DOMAIN m = MessageFields /\ m.streaming \in BOOLEAN /\ m.text \in Nat /\ RoleTold(m)
MessageRow(r) ==
  DOMAIN r = MessageFields \cup {"thread"} /\ r.text \in Nat /\ RoleTold(r)
MessageRows(messages) ==
  \E S : /\ messages \in Seq(S) /\ HomedRows("thread.message-sent", S)
         /\ \A r \in S : MessageRow(r)

LEMMA PlainItem ==
  ASSUME NEW item, Without(item, "thread") = item, NEW t
  PROVE  Without(WithThread(item, t), "thread") = item
<1>1. DOMAIN item \ {"thread"} = DOMAIN item
  BY DEF Without
<1>2. item = [f \in DOMAIN item |-> item[f]]
  BY <1>1 DEF Without
<1>3. PICK row : row = WithThread(item, t)
  OBVIOUS
<1>4. DOMAIN row = DOMAIN item \cup {"thread"} /\ \A f \in DOMAIN item : row[f] = item[f]
  BY <1>1, <1>3 DEF WithThread
<1>5. Without(row, "thread") = [f \in DOMAIN item |-> row[f]]
  BY <1>1, <1>4 DEF Without
<1> QED BY <1>2, <1>3, <1>4, <1>5

LEMMA DraftShape ==
  ASSUME ItemShapes, NoTurnRuns, NEW e, Drafted(e), e.type = "thread.message-sent"
  PROVE  MessageShape(e.arg)
<1>1. PICK d \in DraftsOf("thread.message-sent") : d.arg = e.arg
  BY DEF Drafted
<1>2. RoleTold(d.arg)
  BY DEF NoTurnRuns, RoleTold
<1>3. /\ DOMAIN d.arg = MessageFields /\ d.arg.streaming \in BOOLEAN /\ d.arg.text \in Nat
  BY DEF ItemShapes, MessageFields
<1> QED BY <1>1, <1>2, <1>3 DEF MessageShape

LEMMA DraftPlain ==
  ASSUME ItemShapes, NEW e, Drafted(e), e.type \in ItemTypes
  PROVE  Without(e.arg, "thread") = e.arg
BY DEF Drafted, DraftsOf, Carriers, ItemShapes, ItemTypes

(* Two lists filtered alike correspond place by place.                     *)
Matched(pairs, s, r) == Len(s) = Len(r) /\ \A i \in 1..Len(s) : <<s[i], r[i]>> \in pairs
MatchedLists(pairs, S, a, T, b) == a \in Seq(S) /\ b \in Seq(T) /\ Matched(pairs, a, b)

LEMMA MatchedStep ==
  ASSUME NEW x, NEW pairs, NEW S, NEW a, NEW T, NEW b, MatchedLists(pairs, S, a, T, b),
         NEW m \in S, NEW n \in T, Passes(x, m) <=> Passes(x, n), <<m, n>> \in pairs
  PROVE  MatchedLists(pairs, S, FilterStep(x, a, m), T, FilterStep(x, b, n))
<1>0. a \in Seq(S) /\ b \in Seq(T) /\ Matched(pairs, a, b)
  BY DEF MatchedLists
<1>1. CASE Passes(x, m)
  <2>1. FilterStep(x, a, m) = Append(a, m) /\ FilterStep(x, b, n) = Append(b, n)
    BY <1>1 DEF FilterStep
  <2>2. Matched(pairs, Append(a, m), Append(b, n))
    BY <1>0 DEF Matched
  <2>3. Append(a, m) \in Seq(S) /\ Append(b, n) \in Seq(T)
    BY <1>0
  <2> QED BY Zenon, <2>1, <2>2, <2>3 DEF MatchedLists
<1>2. CASE ~Passes(x, m)
  <2>1. FilterStep(x, a, m) = a /\ FilterStep(x, b, n) = b
    BY <1>2 DEF FilterStep
  <2> QED BY Zenon, <2>1
<1> QED BY <1>1, <1>2

LEMMA FilteredMatch ==
  ASSUME NEW x, NEW pairs, NEW S, NEW s \in Seq(S), NEW T, NEW r \in Seq(T), Len(s) = Len(r),
         \A k \in 1..Len(s) : (Passes(x, s[k]) <=> Passes(x, r[k])) /\ <<s[k], r[k]>> \in pairs
  PROVE  Matched(pairs, Filtered(x, s), Filtered(x, r))
<1>1. PICK it : /\ it[1..0] = <<>>
                /\ \A k \in 1..Len(s) : it[1..k] = FilterStep(x, it[1..k - 1], s[k])
                /\ Filtered(x, s) = it[1..Len(s)]
  BY Zenon, FilterIterates
<1>2. PICK ir : /\ ir[1..0] = <<>>
                /\ \A k \in 1..Len(r) : ir[1..k] = FilterStep(x, ir[1..k - 1], r[k])
                /\ Filtered(x, r) = ir[1..Len(r)]
  BY Zenon, FilterIterates
<1> DEFINE n == Len(s)
           good == {k \in 0..n : MatchedLists(pairs, S, it[1..k], T, ir[1..k])}
<1>3. n \in Nat
  OBVIOUS
<1>4. 0 \in good
  <2>1. MatchedLists(pairs, S, <<>>, T, <<>>)
    BY DEF Matched, MatchedLists
  <2>2. MatchedLists(pairs, S, it[1..0], T, ir[1..0])
    BY Zenon, <1>1, <1>2, <2>1
  <2> QED BY <1>3, <2>2
<1>5. ASSUME NEW k \in 1..n, k - 1 \in good PROVE k \in good
  <2>1. s[k] \in S /\ r[k] \in T
    OBVIOUS
  <2>2. MatchedLists(pairs, S, it[1..k - 1], T, ir[1..k - 1])
    BY <1>5
  <2>3. it[1..k] = FilterStep(x, it[1..k - 1], s[k]) /\ ir[1..k] = FilterStep(x, ir[1..k - 1], r[k])
    BY <1>1, <1>2
  <2>4. (Passes(x, s[k]) <=> Passes(x, r[k])) /\ <<s[k], r[k]>> \in pairs
    OBVIOUS
  <2>5. MatchedLists(pairs, S, it[1..k], T, ir[1..k])
    BY Zenon, <2>1, <2>2, <2>3, <2>4, MatchedStep
  <2>6. k \in 0..n
    BY <1>3
  <2> QED BY <2>5, <2>6
<1>6. n \in good
  <2> HIDE DEF good, n
  <2> QED BY <1>3, <1>4, <1>5, Climb
<1>7. MatchedLists(pairs, S, it[1..n], T, ir[1..n])
  BY <1>6
<1> QED BY Zenon, <1>1, <1>2, <1>7 DEF MatchedLists

-----------------------------------------------------------------------------
(* What an upsert makes of the message it finds: in memory, and in its row.*)
MergedWith(m, old) ==
  [old EXCEPT !.text = IF m.streaming THEN old.text + m.text
                       ELSE IF m.text > 0 THEN m.text ELSE old.text,
              !.streaming = m.streaming,
              !.turn = m.turn]
TextWith(m, old) ==
  IF m.streaming THEN old.text + m.text ELSE IF m.text = 0 THEN old.text ELSE m.text
PutOver(m, old, t) == WithThread([m EXCEPT !.text = TextWith(m, old)], t)

RowAt(row, m, t) == MessageRow(row) /\ row.thread = t /\ row.id = m.id

LEMMA PutOverRow ==
  ASSUME NEW m, MessageShape(m), NEW t, NEW old, MessageRow(old), NEW row, row = PutOver(m, old, t)
  PROVE  RowAt(row, m, t)
<1>1. PICK text : text = TextWith(m, old)
  OBVIOUS
<1>2. text \in Nat
  BY <1>1 DEF TextWith, MessageShape, MessageRow
<1>3. PICK new : new = [m EXCEPT !.text = text]
  OBVIOUS
<1>4. DOMAIN new = MessageFields /\ new.text = text /\ new.id = m.id /\ new.role = m.role
  BY <1>3 DEF MessageShape, MessageFields
<1>5. row = WithThread(new, t)
  BY Zenon, <1>1, <1>3 DEF PutOver
<1>6. /\ DOMAIN row = MessageFields \cup {"thread"} /\ row.thread = t
      /\ row.text = text /\ row.id = m.id /\ row.role = m.role
  BY <1>4, <1>5 DEF WithThread, MessageFields
<1>7. RoleTold(row)
  BY Zenon, <1>6 DEF MessageShape, RoleTold
<1> QED BY Zenon, <1>2, <1>6, <1>7 DEF RowAt, MessageRow

LEMMA NewRowAt ==
  ASSUME NEW m, MessageShape(m), NEW t, NEW row, row = WithThread(m, t)
  PROVE  RowAt(row, m, t)
<1>1. /\ DOMAIN row = MessageFields \cup {"thread"} /\ row.thread = t
      /\ row.text = m.text /\ row.id = m.id /\ row.role = m.role
  BY DEF WithThread, MessageShape, MessageFields
<1>2. RoleTold(row)
  BY Zenon, <1>1 DEF MessageShape, RoleTold
<1> QED BY <1>1, <1>2 DEF RowAt, MessageRow, MessageShape

(* The row shows what is in memory.                                        *)
LEMMA PutIsMerged ==
  ASSUME NEW m, MessageShape(m), NEW t, NEW old, MessageRow(old), old.id = m.id,
         Known("thread.message-sent", m.id, t)
  PROVE  Without(PutOver(m, old, t), "thread") = MergedWith(m, Without(old, "thread"))
<1>1. old.role = m.role
  <2>1. PICK e \in DraftsOf("thread.message-sent") : e.arg.id = m.id
    BY DEF Known, Carriers, DraftsOf
  <2> QED BY <2>1 DEF MessageShape, MessageRow, RoleTold
<1>2. PICK was : was = Without(old, "thread")
  OBVIOUS
<1>3. /\ was = [f \in MessageFields |-> was[f]] /\ DOMAIN was = MessageFields
      /\ was.id = m.id /\ was.role = m.role /\ was.text = old.text
  BY <1>1, <1>2 DEF Without, MessageRow, MessageFields
<1>4. PICK text : text = TextWith(m, old)
  OBVIOUS
<1>5. text = IF m.streaming THEN was.text + m.text ELSE IF m.text > 0 THEN m.text ELSE was.text
  BY <1>3, <1>4 DEF TextWith, MessageShape, MessageRow
<1>6. PICK new : new = MergedWith(m, was)
  OBVIOUS
<1>7. /\ DOMAIN new = MessageFields /\ new = [f \in MessageFields |-> new[f]]
      /\ new.id = m.id /\ new.role = m.role /\ new.text = text
      /\ new.streaming = m.streaming /\ new.turn = m.turn
  <2>1. new = [was EXCEPT !.text = text, !.streaming = m.streaming, !.turn = m.turn]
    BY Zenon, <1>5, <1>6 DEF MergedWith
  <2> QED BY <1>3, <2>1 DEF MessageFields
<1>8. PICK put : put = [m EXCEPT !.text = text]
  OBVIOUS
<1>9. /\ DOMAIN put = MessageFields
      /\ put.id = m.id /\ put.role = m.role /\ put.text = text
      /\ put.streaming = m.streaming /\ put.turn = m.turn
  BY <1>8 DEF MessageShape, MessageFields
<1>10. PICK row : row = WithThread(put, t)
  OBVIOUS
<1>11. /\ DOMAIN row = MessageFields \cup {"thread"}
       /\ \A f \in MessageFields : row[f] = put[f]
  BY <1>9, <1>10 DEF WithThread, MessageFields
<1>12. Without(row, "thread") = [f \in MessageFields |-> put[f]]
  BY <1>11 DEF Without, MessageFields
<1>13. \A f \in MessageFields : put[f] = new[f]
  BY <1>7, <1>9 DEF MessageFields
<1>14. Without(row, "thread") = new
  BY <1>7, <1>12, <1>13
<1>15. row = PutOver(m, old, t)
  BY Zenon, <1>4, <1>8, <1>10 DEF PutOver
<1> QED BY Zenon, <1>2, <1>6, <1>14, <1>15

-----------------------------------------------------------------------------
(* A message that is new to the table.                                     *)
LEMMA ShownAppend ==
  ASSUME NEW S, NEW s \in Seq(S), NEW r, NEW m, Without(r, "thread") = m
  PROVE  Shown(Append(s, r)) = Append(Shown(s), m)
<1>1. Shown(s) = [i \in 1..Len(s) |-> Without(s[i], "thread")]
  BY DEF Shown
<1>2. Len(s) \in Nat
  OBVIOUS
<1>3. PICK next : next = Append(s, r)
  OBVIOUS
<1>4. /\ DOMAIN next = 1..Len(s) + 1 /\ next[Len(s) + 1] = r
      /\ \A i \in 1..Len(s) : next[i] = s[i]
  <2>1. s \in Seq(S \cup {r}) /\ r \in S \cup {r}
    OBVIOUS
  <2> QED BY <1>3, <2>1
<1> DEFINE W(x) == Without(x, "thread")
<1>5. Shown(s) = [i \in 1..Len(s) |-> W(s[i])] /\ W(r) = m
  BY <1>1
<1>6. Shown(next) = [i \in 1..Len(s) + 1 |-> W(next[i])]
  BY <1>4 DEF Shown
<1> HIDE DEF W
<1>7. PICK shown : shown = Shown(s)
  OBVIOUS
<1>8. PICK T : T = {shown[i] : i \in 1..Len(s)} \cup {m}
  OBVIOUS
<1>9. shown \in Seq(T) /\ m \in T /\ Len(shown) = Len(s)
  <2>1. shown = [i \in 1..Len(s) |-> shown[i]] /\ \A i \in 1..Len(s) : shown[i] \in T
    BY <1>5, <1>7, <1>8
  <2> QED BY <1>2, <1>8, <2>1
<1>10. PICK both : both = Append(shown, m)
  OBVIOUS
<1>11. /\ both \in Seq(T) /\ Len(both) = Len(s) + 1 /\ both[Len(s) + 1] = m
       /\ \A i \in 1..Len(s) : both[i] = shown[i]
  BY <1>2, <1>9, <1>10
<1>12. both = [i \in 1..Len(s) + 1 |-> both[i]]
  BY <1>2, <1>11
<1>13. \A i \in 1..Len(s) + 1 : W(next[i]) = both[i]
  BY <1>2, <1>4, <1>5, <1>7, <1>11
<1>14. Shown(next) = both
  BY <1>6, <1>12, <1>13
<1> QED BY Zenon, <1>3, <1>7, <1>10, <1>14

Present(messages, m) == \E i \in DOMAIN messages : messages[i].id = m.id
Upserted(messages, m) ==
  [i \in DOMAIN messages |->
     IF messages[i].id = m.id THEN MergedWith(m, messages[i]) ELSE messages[i]]
LEMMA UpsertIs ==
  ASSUME NEW messages, NEW m
  PROVE  UpsertMessage(messages, m)
           = IF Present(messages, m) THEN Upserted(messages, m) ELSE Append(messages, m)
BY Zenon DEF UpsertMessage, Present, Upserted, MergedWith

RowsUpserted(messages, m, t) ==
  [i \in DOMAIN messages |->
     IF messages[i].id = m.id THEN PutOver(m, messages[i], t) ELSE messages[i]]
LEMMA ApplyIs ==
  ASSUME NEW messages, NEW m, NEW t
  PROVE  ApplyMessage(messages, t, m)
           = IF Present(messages, m) THEN RowsUpserted(messages, m, t)
             ELSE Append(messages, WithThread(m, t))
<1> DEFINE same == {i \in DOMAIN messages : messages[i].id = m.id}
<1>1. ApplyMessage(messages, t, m)
        = IF same = {} THEN Append(messages, WithThread(m, t))
          ELSE [i \in DOMAIN messages |->
                  IF i \in same THEN PutOver(m, messages[i], t) ELSE messages[i]]
  BY Zenon DEF ApplyMessage, PutOver, TextWith
<1>2. (same = {}) <=> ~Present(messages, m)
  BY DEF Present
<1>3. [i \in DOMAIN messages |-> IF i \in same THEN PutOver(m, messages[i], t) ELSE messages[i]]
        = RowsUpserted(messages, m, t)
  BY DEF RowsUpserted
<1> QED BY Zenon, <1>1, <1>2, <1>3

(* Rows of messages that are all as they should be.                        *)
RowWell(r) == MessageRow(r) /\ Known("thread.message-sent", r.id, r.thread)
LEMMA RowsWell ==
  ASSUME NEW messages, MessageRows(messages)
  PROVE  \E S : messages \in Seq(S) /\ \A r \in S : RowWell(r)
BY Zenon DEF MessageRows, HomedRows, RowWell
LEMMA WellRows ==
  ASSUME NEW messages, NEW S, messages \in Seq(S), \A r \in S : RowWell(r)
  PROVE  MessageRows(messages)
BY Zenon DEF MessageRows, HomedRows, RowWell

LEMMA ArrivesNew ==
  ASSUME NEW messages, MessageRows(messages), NEW t, NEW m, MessageShape(m),
         Without(m, "thread") = m, Known("thread.message-sent", m.id, t), ~Present(messages, m),
         NEW before, Shows(before, messages, t),
         NEW next, next = Append(messages, WithThread(m, t)),
         NEW grown, grown = Append(before, m)
  PROVE  /\ MessageRows(next) /\ ~Present(before, m)
         /\ Shows(grown, next, t)
<1>1. PICK S : messages \in Seq(S) /\ \A r \in S : RowWell(r)
  BY Zenon, RowsWell
<1>2. PICK row : row = WithThread(m, t)
  OBVIOUS
<1>3. RowAt(row, m, t)
  BY Zenon, <1>2, NewRowAt
<1>4. RowWell(row) /\ row.thread = t
  BY Zenon, <1>3 DEF RowAt, RowWell
<1>5. PICK T : T = S \cup {row}
  OBVIOUS
<1>6. messages \in Seq(T) /\ row \in T /\ \A r \in T : RowWell(r)
  BY <1>1, <1>4, <1>5
<1>7. next \in Seq(T) /\ next = Append(messages, row)
  BY <1>2, <1>6
<1>8. MessageRows(next)
  BY Zenon, <1>6, <1>7, WellRows
<1>9. MessagesOf(next, t) = MineStep(t, MessagesOf(messages, t), row)
  BY Zenon, <1>6, <1>7, MessagesOfAppend
<1>10. MessagesOf(next, t) = Append(MessagesOf(messages, t), row)
  BY <1>4, <1>9 DEF MineStep
<1>11. PICK mine : mine = MessagesOf(messages, t)
  OBVIOUS
<1>12. mine \in Seq(S)
       /\ \A i \in DOMAIN mine : \E j \in DOMAIN messages : mine[i] = messages[j]
  BY <1>1, <1>11, MessagesOfRows
<1>13. Without(row, "thread") = m
  BY Zenon, <1>2, PlainItem
<1>14. Shown(Append(mine, row)) = Append(Shown(mine), m)
  BY Zenon, <1>12, <1>13, ShownAppend
<1>15. ~Present(before, m)
  <2>0. before = Shown(MessagesOf(messages, t))
    BY DEF Shows
  <2>1. ASSUME NEW i \in DOMAIN before PROVE before[i].id # m.id
    <3>1. i \in DOMAIN mine /\ before[i] = Without(mine[i], "thread")
      BY <1>11, <2>0 DEF Shown
    <3>2. PICK j \in DOMAIN messages : mine[i] = messages[j]
      BY <1>12, <3>1
    <3>3. messages[j] \in S
      BY <1>1
    <3>4. MessageRow(mine[i])
      BY <1>1, <3>2, <3>3 DEF RowWell
    <3>5. before[i].id = mine[i].id
      BY <3>1, <3>4 DEF Without, MessageRow, MessageFields
    <3>6. messages[j].id # m.id
      BY DEF Present
    <3> QED BY <3>2, <3>5, <3>6
  <2> QED BY <2>1 DEF Present
<1> QED BY Zenon, <1>8, <1>10, <1>11, <1>14, <1>15 DEF Shows

-----------------------------------------------------------------------------
(* A message whose id the table has: its row is on the thread of the event.*)
LEMMA ArrivesAgain ==
  ASSUME OneThreadPerItem, NEW messages, MessageRows(messages), NEW t, NEW m, MessageShape(m),
         Known("thread.message-sent", m.id, t), Present(messages, m),
         NEW before, Shows(before, messages, t),
         NEW next, next = RowsUpserted(messages, m, t)
  PROVE  /\ MessageRows(next) /\ Present(before, m)
         /\ Shows(Upserted(before, m), next, t)
<1>0. before = Shown(MessagesOf(messages, t))
  BY DEF Shows
<1>1. PICK S : messages \in Seq(S) /\ \A r \in S : RowWell(r)
  BY Zenon, RowsWell
<1>2. \A i \in 1..Len(messages) : messages[i] \in S /\ RowWell(messages[i])
  BY <1>1
<1>3. /\ Len(messages) \in Nat /\ DOMAIN messages = 1..Len(messages)
      /\ DOMAIN next = 1..Len(messages) /\ next = [i \in 1..Len(messages) |-> next[i]]
      /\ \A i \in 1..Len(messages) : messages[i].id # m.id => next[i] = messages[i]
      /\ \A i \in 1..Len(messages) : messages[i].id = m.id =>
           next[i] = PutOver(m, messages[i], t)
  BY <1>1 DEF RowsUpserted
<1>4. ASSUME NEW i \in 1..Len(messages), messages[i].id = m.id
      PROVE  messages[i].thread = t /\ RowAt(next[i], m, t)
  <2>1. Known("thread.message-sent", m.id, messages[i].thread)
    BY <1>2, <1>4 DEF RowWell
  <2>2. messages[i].thread = t
    BY Zenon, <2>1, OneHome
  <2>3. MessageRow(messages[i])
    BY <1>2 DEF RowWell
  <2>4. next[i] = PutOver(m, messages[i], t)
    BY <1>3, <1>4
  <2>5. RowAt(next[i], m, t)
    BY Zenon, <2>3, <2>4, PutOverRow
  <2> QED BY <2>2, <2>5
<1>5. \A i \in 1..Len(messages) : RowWell(next[i])
  <2> SUFFICES ASSUME NEW i \in 1..Len(messages) PROVE RowWell(next[i])
    OBVIOUS
  <2>1. CASE messages[i].id = m.id
    BY Zenon, <1>4, <2>1 DEF RowAt, RowWell
  <2>2. CASE messages[i].id # m.id
    BY Zenon, <1>2, <1>3, <2>2
  <2> QED BY <2>1, <2>2
<1>6. PICK T : T = {next[i] : i \in 1..Len(messages)}
  OBVIOUS
<1>7. next \in Seq(T) /\ Len(next) = Len(messages) /\ \A r \in T : RowWell(r)
  BY <1>3, <1>5, <1>6
<1>8. MessageRows(next)
  BY Zenon, <1>7, WellRows
<1> DEFINE pairs == {p \in S \X T : IF p[1].id = m.id
                                    THEN p[1].thread = t /\ p[2] = PutOver(m, p[1], t)
                                    ELSE p[2] = p[1]}
<1>9. ASSUME NEW i \in 1..Len(messages) PROVE <<messages[i], next[i]>> \in pairs
  BY <1>2, <1>3, <1>4, <1>6
<1>10. ASSUME NEW i \in 1..Len(messages)
       PROVE  Passes(OnlyOf(t), messages[i]) <=> Passes(OnlyOf(t), next[i])
  <2>1. CASE messages[i].id = m.id
    BY <1>4, <2>1 DEF Passes, OnlyOf, RowAt
  <2>2. CASE messages[i].id # m.id
    BY <1>3, <2>2
  <2> QED BY <2>1, <2>2
<1>11. PICK mine, after : mine = MessagesOf(messages, t) /\ after = MessagesOf(next, t)
  OBVIOUS
<1>12. Matched(pairs, mine, after)
  <2>1. mine = Filtered(OnlyOf(t), messages)
    BY Zenon, <1>1, <1>11, MessagesOfFiltered
  <2>2. after = Filtered(OnlyOf(t), next)
    BY Zenon, <1>7, <1>11, MessagesOfFiltered
  <2> HIDE DEF pairs
  <2>3. Matched(pairs, Filtered(OnlyOf(t), messages), Filtered(OnlyOf(t), next))
    BY <1>1, <1>7, <1>9, <1>10, FilteredMatch
  <2> QED BY Zenon, <2>1, <2>2, <2>3
<1>13. /\ mine \in Seq(S)
       /\ \A j \in DOMAIN messages : messages[j].thread = t =>
            \E i \in DOMAIN mine : mine[i] = messages[j]
  BY <1>1, <1>11, MessagesOfRows
<1>14. after \in Seq(T)
  BY <1>7, <1>11, MessagesOfRows
<1>15. Present(before, m)
  <2>1. PICK j \in 1..Len(messages) : messages[j].id = m.id
    BY <1>3 DEF Present
  <2>2. messages[j].thread = t
    BY <1>4, <2>1
  <2>3. PICK i \in DOMAIN mine : mine[i] = messages[j]
    BY <1>3, <1>13, <2>2
  <2>4. i \in DOMAIN before /\ before[i] = Without(messages[j], "thread")
    BY <1>0, <1>11, <2>3 DEF Shown
  <2>5. MessageRow(messages[j])
    BY <1>2 DEF RowWell
  <2>6. before[i].id = m.id
    BY <2>1, <2>4, <2>5 DEF Without, MessageRow, MessageFields
  <2> QED BY <2>4, <2>6 DEF Present
<1>16. ASSUME NEW i \in 1..Len(mine)
       PROVE  Without(after[i], "thread")
                = IF before[i].id = m.id THEN MergedWith(m, before[i]) ELSE before[i]
  <2>1. <<mine[i], after[i]>> \in pairs
    <3> HIDE DEF pairs
    <3> QED BY <1>12 DEF Matched
  <2>2. PICK old, new : old = mine[i] /\ new = after[i]
    OBVIOUS
  <2>3. old \in S /\ IF old.id = m.id THEN new = PutOver(m, old, t) ELSE new = old
    BY <2>1, <2>2
  <2>4. before[i] = Without(old, "thread")
    BY <1>0, <1>11, <1>13, <2>2 DEF Shown
  <2>5. MessageRow(old)
    BY <1>1, <2>3 DEF RowWell
  <2>6. before[i].id = old.id
    BY <2>4, <2>5 DEF Without, MessageRow, MessageFields
  <2>7. CASE old.id = m.id
    <3>1. Without(PutOver(m, old, t), "thread") = MergedWith(m, Without(old, "thread"))
      BY Zenon, <2>5, <2>7, PutIsMerged
    <3> QED BY Zenon, <2>2, <2>3, <2>4, <2>6, <2>7, <3>1
  <2>8. CASE old.id # m.id
    BY Zenon, <2>2, <2>3, <2>4, <2>6, <2>8
  <2> QED BY <2>7, <2>8
<1>17. Len(mine) = Len(after) /\ DOMAIN mine = 1..Len(mine) /\ DOMAIN after = 1..Len(mine)
  <2> HIDE DEF pairs
  <2> QED BY <1>12, <1>13, <1>14 DEF Matched
<1>18. Upserted(before, m) = Shown(after)
  <2>1. DOMAIN before = 1..Len(mine)
    BY <1>0, <1>11, <1>17 DEF Shown
  <2> DEFINE W(x) == Without(x, "thread")
             U(i) == IF before[i].id = m.id THEN MergedWith(m, before[i]) ELSE before[i]
  <2>2. Upserted(before, m) = [i \in 1..Len(mine) |-> U(i)]
    BY Zenon, <2>1 DEF Upserted
  <2>3. Shown(after) = [i \in 1..Len(mine) |-> W(after[i])]
    BY Zenon, <1>17 DEF Shown
  <2>4. \A i \in 1..Len(mine) : W(after[i]) = U(i)
    BY Zenon, <1>16
  <2> HIDE DEF U, W
  <2> QED BY <2>2, <2>3, <2>4
<1> QED BY Zenon, <1>8, <1>11, <1>15, <1>18 DEF Shows

LEMMA MessageArrives ==
  ASSUME OneThreadPerItem, NEW th, NEW rows, NEW t, SameMessages(th, rows, t),
         MessageRows(rows.messages), NEW m, MessageShape(m), Without(m, "thread") = m,
         Known("thread.message-sent", m.id, t),
         NEW next, next.messages = UpsertMessage(th.messages, m),
         NEW after, after.messages = ApplyMessage(rows.messages, t, m)
  PROVE  SameMessages(next, after, t) /\ MessageRows(after.messages)
<1>1. PICK old, new, before :
        old = rows.messages /\ new = after.messages /\ before = th.messages
  OBVIOUS
<1>2. Shows(before, old, t) /\ MessageRows(old)
  BY Zenon, <1>1 DEF SameMessages
<1>3. CASE Present(old, m)
  <2>1. new = RowsUpserted(old, m, t)
    BY <1>1, <1>3, ApplyIs
  <2>2. Present(before, m)
    BY Zenon, <1>2, <1>3, <2>1, ArrivesAgain
  <2>3. next.messages = Upserted(before, m)
    BY <1>1, <2>2, UpsertIs
  <2>4. MessageRows(new)
    BY Zenon, <1>2, <1>3, <2>1, ArrivesAgain
  <2>5. Shows(Upserted(before, m), new, t)
    BY Zenon, <1>2, <1>3, <2>1, ArrivesAgain
  <2> QED BY Zenon, <1>1, <2>3, <2>4, <2>5 DEF SameMessages
<1>4. CASE ~Present(old, m)
  <2>1. new = Append(old, WithThread(m, t))
    BY <1>1, <1>4, ApplyIs
  <2>2. PICK grown : grown = Append(before, m)
    OBVIOUS
  <2>3. ~Present(before, m)
    BY Zenon, <1>2, <1>4, <2>1, <2>2, ArrivesNew
  <2>4. next.messages = grown
    BY <1>1, <2>2, <2>3, UpsertIs
  <2>5. MessageRows(new)
    BY Zenon, <1>2, <1>4, <2>1, <2>2, ArrivesNew
  <2>6. Shows(grown, new, t)
    BY Zenon, <1>2, <1>4, <2>1, <2>2, ArrivesNew
  <2> QED BY Zenon, <1>1, <2>4, <2>5, <2>6 DEF SameMessages
<1> QED BY <1>3, <1>4

(* Plans and activities: an upsert by id.                                  *)
ItemRows(items) == \A r \in items : "id" \in DOMAIN r
LEMMA UpsertSame ==
  ASSUME NEW items, ItemRows(items), NEW t, NEW item, "id" \in DOMAIN item,
         Without(item, "thread") = item,
         NEW next, next = UpsertById(items, WithThread(item, t))
  PROVE  /\ ItemRows(next)
         /\ UpsertById(Plain(OfThread(items, t)), item) = Plain(OfThread(next, t))
<1>1. PICK row : row = WithThread(item, t)
  OBVIOUS
<1>2. row.thread = t /\ row.id = item.id /\ "id" \in DOMAIN row
  BY <1>1 DEF WithThread
<1>3. Without(row, "thread") = item
  BY Zenon, <1>1, PlainItem
<1>4. next = {x \in items : x.id # item.id} \cup {row}
  BY <1>1, <1>2 DEF UpsertById
<1>5. ItemRows(next)
  BY <1>2, <1>4 DEF ItemRows
<1>6. OfThread(next, t) = {x \in OfThread(items, t) : x.id # item.id} \cup {row}
  BY <1>2, <1>4 DEF OfThread
<1>7. \A r \in items : Without(r, "thread").id = r.id
  BY DEF ItemRows, Without
<1>8. PICK mine : mine = OfThread(items, t)
  OBVIOUS
<1>9. \A r \in mine : Without(r, "thread").id = r.id
  BY <1>7, <1>8 DEF OfThread
<1> DEFINE W(r) == Without(r, "thread")
<1>10. \A r \in mine : W(r).id = r.id
  BY <1>9
<1>11. W(row) = item
  BY <1>3
<1>12. Plain(mine) = {W(r) : r \in mine}
  BY DEF Plain
<1>13. Plain({x \in mine : x.id # item.id} \cup {row})
         = {W(r) : r \in {x \in mine : x.id # item.id} \cup {row}}
  BY DEF Plain
<1> HIDE DEF W
<1>14. {W(r) : r \in {x \in mine : x.id # item.id} \cup {row}}
         = {w \in {W(r) : r \in mine} : w.id # item.id} \cup {item}
  BY <1>10, <1>11
<1>15. UpsertById(Plain(mine), item) = Plain({x \in mine : x.id # item.id} \cup {row})
  BY <1>12, <1>13, <1>14 DEF UpsertById
<1> QED BY Zenon, <1>5, <1>6, <1>8, <1>15

-----------------------------------------------------------------------------
(* Where no turn runs, no event changes a turn.                            *)
LEMMA DraftRunsNoTurn ==
  ASSUME NoTurnRuns, NEW e, Drafted(e)
  PROVE  /\ ~RunsTurn(e)
         /\ e.type = "thread.turn-interrupt-requested" => e.arg = None
         /\ e.type = "thread.message-sent" /\ e.arg.role = "assistant" => e.arg.turn = None
<1>1. e.type \in {"thread.turn-diff-completed", "thread.reverted", "thread.session-set",
                  "thread.turn-interrupt-requested", "thread.message-sent"} =>
        \E d \in DraftsOf(e.type) : d.stream = e.stream /\ d.arg = e.arg
  BY DEF Drafted
<1> HIDE DEF Drafted
<1> QED BY <1>1 DEF NoTurnRuns, RunsTurn

LEMMA NoTurnsAfter ==
  ASSUME NoTurnRuns, NEW rows, DOMAIN rows = TableNames, rows.turns = {}, NEW e, Drafted(e)
  PROVE  ApplyTurns(rows, e).turns = {}
<1>1. /\ ~RunsTurn(e)
      /\ e.type = "thread.turn-interrupt-requested" => e.arg = None
      /\ e.type = "thread.message-sent" /\ e.arg.role = "assistant" => e.arg.turn = None
  BY DraftRunsNoTurn
<1>2. CASE e.type = "thread.turn-start-requested"
  BY <1>2 DEF ApplyTurns, TableNames
<1>3. CASE e.type # "thread.turn-start-requested"
  <2>1. ApplyTurns(rows, e) = rows
    BY <1>1, <1>3 DEF ApplyTurns, RunsTurn
  <2> QED BY <2>1
<1> QED BY <1>2, <1>3

SamePlain(list, items, t) == list = Plain(OfThread(items, t))
SameItems(th, rows, t) ==
  /\ SameMessages(th, rows, t)
  /\ SamePlain(th.plans, rows.plans, t) /\ SamePlain(th.activities, rows.activities, t)
  /\ th.checkpoints = {} /\ th.latestTurn = NoTurn
PlainRows(rows) ==
  MessageRows(rows.messages) /\ ItemRows(rows.plans) /\ ItemRows(rows.activities)

LEMMA ItemArrives ==
  ASSUME NEW list, NEW items, NEW t, SamePlain(list, items, t), ItemRows(items),
         NEW item, "id" \in DOMAIN item, Without(item, "thread") = item,
         NEW next, next = UpsertById(list, item),
         NEW after, after = UpsertById(items, WithThread(item, t))
  PROVE  SamePlain(next, after, t) /\ ItemRows(after)
<1>1. ItemRows(after) /\ UpsertById(Plain(OfThread(items, t)), item) = Plain(OfThread(after, t))
  BY UpsertSame
<1> QED BY Zenon, <1>1 DEF SamePlain

LEMMA SameItemsAfter ==
  ASSUME OneThreadPerItem, ItemShapes, NoTurnRuns, NEW th, NEW rows, NEW e, Drafted(e),
         NEW t, t = e.stream, PlainRows(rows), SameItems(th, rows, t),
         NEW next, ThreadWritten(th, e, next), NEW after, EventWritten(rows, e, after)
  PROVE  SameItems(next, after, t) /\ PlainRows(after)
<1>1. ~RunsTurn(e)
  BY Zenon, DraftRunsNoTurn
<1>2. e.type \notin {"thread.turn-diff-completed", "thread.reverted"}
  BY <1>1 DEF RunsTurn
<1>3. next.checkpoints = {} /\ next.latestTurn = NoTurn
  BY <1>1, <1>2 DEF ThreadWritten, ThreadCheckpoints, SameItems
<1>4. ASSUME e.type \in ItemTypes
      PROVE  /\ "id" \in DOMAIN e.arg /\ Known(e.type, e.arg.id, t)
             /\ Without(e.arg, "thread") = e.arg
  <2>1. Homed(e)
    BY Zenon, DraftHomed
  <2> QED BY <1>4, <2>1, DraftPlain DEF Homed
<1>5. /\ next.messages = ThreadMessages(th, e) /\ next.plans = ThreadPlans(th, e)
      /\ next.activities = ThreadActivities(th, e)
      /\ after.messages = MessagesAfter(rows, e) /\ after.plans = PlansAfter(rows, e)
      /\ after.activities = ActivitiesAfter(rows, e)
  BY DEF ThreadWritten, EventWritten
<1>6. SameMessages(next, after, t) /\ MessageRows(after.messages)
  <2>0. SameMessages(th, rows, t) /\ MessageRows(rows.messages)
    BY Zenon DEF SameItems, PlainRows
  <2>1. CASE e.type = "thread.message-sent"
    <3>1. MessageShape(e.arg)
      BY Zenon, <2>1, DraftShape
    <3>2. Without(e.arg, "thread") = e.arg /\ Known("thread.message-sent", e.arg.id, t)
      BY <1>4, <2>1 DEF ItemTypes
    <3>3. /\ next.messages = UpsertMessage(th.messages, e.arg)
          /\ after.messages = ApplyMessage(rows.messages, t, e.arg)
      BY <1>5, <2>1 DEF ThreadMessages, MessagesAfter
    <3> QED BY Zenon, <2>0, <3>1, <3>2, <3>3, MessageArrives
  <2>2. CASE e.type # "thread.message-sent"
    <3>1. next.messages = th.messages /\ after.messages = rows.messages
      BY <1>2, <1>5, <2>2 DEF ThreadMessages, MessagesAfter
    <3> QED BY Zenon, <2>0, <3>1 DEF SameMessages
  <2> QED BY <2>1, <2>2
<1>7. SamePlain(next.plans, after.plans, t) /\ ItemRows(after.plans)
  <2>0. SamePlain(th.plans, rows.plans, t) /\ ItemRows(rows.plans)
    BY Zenon DEF SameItems, PlainRows
  <2>1. CASE e.type = "thread.proposed-plan-upserted"
    <3>1. Without(e.arg, "thread") = e.arg /\ "id" \in DOMAIN e.arg
      BY <1>4, <2>1 DEF ItemTypes
    <3>2. /\ next.plans = UpsertById(th.plans, e.arg)
          /\ after.plans = UpsertById(rows.plans, WithThread(e.arg, t))
      BY <1>5, <2>1 DEF ThreadPlans, PlansAfter
    <3> QED BY Zenon, <2>0, <3>1, <3>2, ItemArrives
  <2>2. CASE e.type # "thread.proposed-plan-upserted"
    <3>1. next.plans = th.plans /\ after.plans = rows.plans
      BY <1>2, <1>5, <2>2 DEF ThreadPlans, PlansAfter
    <3> QED BY Zenon, <2>0, <3>1
  <2> QED BY <2>1, <2>2
<1>8. SamePlain(next.activities, after.activities, t) /\ ItemRows(after.activities)
  <2>0. SamePlain(th.activities, rows.activities, t) /\ ItemRows(rows.activities)
    BY Zenon DEF SameItems, PlainRows
  <2>1. CASE e.type = "thread.activity-appended"
    <3>1. Without(e.arg, "thread") = e.arg /\ "id" \in DOMAIN e.arg
      BY <1>4, <2>1 DEF ItemTypes
    <3>2. /\ next.activities = UpsertById(th.activities, e.arg)
          /\ after.activities = UpsertById(rows.activities, WithThread(e.arg, t))
      BY <1>5, <2>1 DEF ThreadActivities, ActivitiesAfter
    <3> QED BY Zenon, <2>0, <3>1, <3>2, ItemArrives
  <2>2. CASE e.type # "thread.activity-appended"
    <3>1. next.activities = th.activities /\ after.activities = rows.activities
      BY <1>2, <1>5, <2>2 DEF ThreadActivities, ActivitiesAfter
    <3> QED BY Zenon, <2>0, <3>1
  <2> QED BY <2>1, <2>2
<1> QED BY Zenon, <1>3, <1>6, <1>7, <1>8 DEF SameItems, PlainRows

-----------------------------------------------------------------------------
(* A thread in memory and what the tables have of it.                      *)
SameRow(th, row) ==
  /\ th.exists = row.exists /\ th.project = row.project
  /\ th.archived = row.archived /\ th.deleted = row.deleted
SameView(th, rows, t) ==
  SameStreams(th, rows, t) /\ SamePlans(th, rows, t) /\ SameCheckpoints(th, rows, t)
Agrees(th, rows, t) ==
  /\ Record(th) /\ SameRow(th, rows.threads[t]) /\ th.session = rows.sessions[t]
  /\ TurnsToldApart => SameView(th, rows, t)
  /\ NoTurnRuns => SameItems(th, rows, t)

(* Nothing is left of, or yet known of, a thread without a row.            *)
Bare(rows, t) ==
  /\ rows.sessions[t] = NoSession /\ MessagesOf(rows.messages, t) = <<>>
  /\ OfThread(rows.plans, t) = {} /\ OfThread(rows.activities, t) = {}
  /\ OfThread(rows.turns, t) = {}
Vacant(rows, t) == rows.threads[t] = EmptyTables.threads[t] /\ Bare(rows, t)

PlanRows(plans) == \A r \in plans : {"id", "turn"} \subseteq DOMAIN r
ToldRows(rows) ==
  /\ AllSpoken(rows.messages) /\ PlanRows(rows.plans)
  /\ TurnsApart(rows.turns) /\ DOMAIN rows.pending = Threads /\ PendingTold(rows.pending)
Tidy(rows) ==
  /\ HomedTables(rows)
  /\ \A t \in Threads :
       ThreadRow(rows.threads[t]) /\ (~rows.threads[t].exists => Vacant(rows, t))
  /\ TurnsToldApart => ToldRows(rows)
  /\ NoTurnRuns => PlainRows(rows) /\ rows.turns = {}

LEMMA NothingStreams ==
  ASSUME NEW rows, HomedTables(rows), NEW t, MessagesOf(rows.messages, t) = <<>>, NEW id
  PROVE  ~RowStreams(rows.messages, t, id)
<1>1. PICK S : rows.messages \in Seq(S)
  BY DEF HomedTables, HomedMessages
<1>2. Streaming(MessagesOf(rows.messages, t), id) <=> RowStreams(rows.messages, t, id)
  BY Zenon, <1>1, StreamsOfRows
<1>3. ~Streaming(<<>>, id)
  BY DEF Streaming
<1> QED BY Zenon, <1>2, <1>3

(* A thread with empty lists agrees with tables that have nothing of it.   *)
EmptyLists(th) ==
  /\ th.session = NoSession /\ th.messages = <<>> /\ th.plans = {} /\ th.activities = {}
  /\ th.checkpoints = {} /\ th.latestTurn = NoTurn
LEMMA BareAgrees ==
  ASSUME NEW rows, HomedTables(rows), NEW t, Bare(rows, t),
         NEW th, Record(th), SameRow(th, rows.threads[t]), EmptyLists(th)
  PROVE  Agrees(th, rows, t)
<1>1. SameStreams(th, rows, t)
  <2>1. AllSpoken(<<>>)
    <3>1. PICK S : S = {}
      OBVIOUS
    <3>2. <<>> \in Seq(S) /\ \A m \in S : MessageIs(m)
      BY <3>1
    <3> QED BY Zenon, <3>2 DEF AllSpoken
  <2>2. \A id : ~Streaming(<<>>, id)
    BY DEF Streaming
  <2>3. \A id : ~RowStreams(rows.messages, t, id)
    BY Zenon, NothingStreams DEF Bare
  <2> QED BY Zenon, <2>1, <2>2, <2>3 DEF SameStreams, EmptyLists
<1>2. SamePlans(th, rows, t)
  BY DEF SamePlans, EmptyLists, Bare, HasPlan, RowPlan, OfThread
<1>3. SameCheckpoints(th, rows, t)
  BY DEF SameCheckpoints, EmptyLists, Bare, HasCheckpoint, Counts, OfThread
<1>4. SameItems(th, rows, t)
  <2>1. Shown(<<>>) = <<>>
    BY DEF Shown
  <2>2. SameMessages(th, rows, t)
    BY Zenon, <2>1 DEF SameMessages, Shows, EmptyLists, Bare
  <2>3. Plain({}) = {}
    BY DEF Plain
  <2>4. SamePlain(th.plans, rows.plans, t) /\ SamePlain(th.activities, rows.activities, t)
    BY Zenon, <2>3 DEF SamePlain, EmptyLists, Bare
  <2> QED BY Zenon, <2>2, <2>4 DEF SameItems, EmptyLists
<1>5. th.session = rows.sessions[t]
  BY DEF EmptyLists, Bare
<1> QED BY Zenon, <1>1, <1>2, <1>3, <1>4, <1>5 DEF Agrees, SameView

LEMMA NewThreadEmpty ==
  ASSUME NEW project
  PROVE  /\ Record(NewThread(project)) /\ EmptyLists(NewThread(project))
         /\ Record(AbsentThread) /\ EmptyLists(AbsentThread)
<1>1. PICK th : th = NewThread(project)
  OBVIOUS
<1>2. DOMAIN th = ThreadFields /\ th = [f \in ThreadFields |-> th[f]] /\ EmptyLists(th)
  BY <1>1 DEF NewThread, ThreadFields, EmptyLists, NoSession, NoTurn
<1>3. PICK new : new = NewThread(None)
  OBVIOUS
<1>4. DOMAIN new = ThreadFields /\ EmptyLists(new)
  BY <1>3 DEF NewThread, ThreadFields, EmptyLists, NoSession, NoTurn
<1>5. PICK absent : absent = [new EXCEPT !.exists = FALSE]
  OBVIOUS
<1>6. DOMAIN absent = ThreadFields /\ absent = [f \in ThreadFields |-> absent[f]]
  BY <1>4, <1>5
<1>7. EmptyLists(absent)
  BY <1>4, <1>5 DEF EmptyLists, ThreadFields
<1>8. absent = AbsentThread
  BY Zenon, <1>3, <1>5 DEF AbsentThread
<1> QED BY Zenon, <1>1, <1>2, <1>6, <1>7, <1>8 DEF Record

(* What is read of the rows of a thread that has one.                      *)
LEMMA ShownStreams ==
  ASSUME NEW messages, AllSpoken(messages), NEW t, NEW shown, shown = Shown(MessagesOf(messages, t))
  PROVE  AllSpoken(shown) /\ \A id : Streaming(shown, id) <=> RowStreams(messages, t, id)
<1>1. PICK S : messages \in Seq(S) /\ \A m \in S : MessageIs(m)
  BY Zenon DEF AllSpoken
<1>2. PICK mine : mine = MessagesOf(messages, t)
  OBVIOUS
<1>3. mine \in Seq(S)
  BY <1>1, <1>2, MessagesOfRows
<1>4. \A i \in DOMAIN mine : MessageIs(mine[i])
  BY <1>1, <1>3
<1>5. DOMAIN shown = DOMAIN mine /\ shown = [i \in DOMAIN shown |-> shown[i]]
      /\ \A i \in DOMAIN mine : shown[i] = Without(mine[i], "thread")
  BY <1>2 DEF Shown
<1>6. ASSUME NEW i \in DOMAIN mine
      PROVE  MessageIs(shown[i]) /\ shown[i].id = mine[i].id
             /\ shown[i].streaming = mine[i].streaming
  <2>1. PICK m : m = mine[i]
    OBVIOUS
  <2>2. MessageIs(m) /\ shown[i] = Without(m, "thread")
    BY <1>4, <1>5, <2>1
  <2>3. PICK s : s = shown[i]
    OBVIOUS
  <2>4. /\ MessageFields \subseteq DOMAIN s /\ s.id = m.id /\ s.streaming = m.streaming
        /\ s.role = m.role /\ s.turn = m.turn
    BY <2>2, <2>3 DEF Without, MessageIs, MessageFields
  <2>5. Spoken(s)
    BY Zenon, <2>2, <2>4 DEF MessageIs, Spoken
  <2> QED BY Zenon, <2>1, <2>3, <2>4, <2>5 DEF MessageIs
<1>7. AllSpoken(shown)
  BY <1>3, <1>5, <1>6, SpokenPointwise
<1>8. ASSUME NEW id PROVE Streaming(shown, id) <=> RowStreams(messages, t, id)
  <2>1. Streaming(mine, id) <=> RowStreams(messages, t, id)
    BY Zenon, <1>1, <1>2, StreamsOfRows
  <2>2. Streaming(shown, id) <=> Streaming(mine, id)
    BY <1>5, <1>6 DEF Streaming
  <2> QED BY Zenon, <2>1, <2>2
<1> QED BY <1>7, <1>8

LEMMA PlainPlans ==
  ASSUME NEW plans, PlanRows(plans), NEW t, NEW id, NEW turn
  PROVE  HasPlan(Plain(OfThread(plans, t)), id, turn) <=> RowPlan(plans, t, id, turn)
<1>1. \A r \in plans : Without(r, "thread").id = r.id /\ Without(r, "thread").turn = r.turn
  BY DEF PlanRows, Without
<1> DEFINE W(r) == Without(r, "thread")
<1>2. \A r \in plans : W(r).id = r.id /\ W(r).turn = r.turn
  BY <1>1
<1>3. Plain(OfThread(plans, t)) = {W(r) : r \in OfThread(plans, t)}
  BY DEF Plain
<1> HIDE DEF W
<1>4. HasPlan(Plain(OfThread(plans, t)), id, turn) <=>
        \E r \in OfThread(plans, t) : W(r).id = id /\ W(r).turn = turn
  BY <1>3 DEF HasPlan
<1>5. \A r \in OfThread(plans, t) : W(r).id = r.id /\ W(r).turn = r.turn
  BY <1>2 DEF OfThread
<1>6. RowPlan(plans, t, id, turn) <=> \E r \in OfThread(plans, t) : r.id = id /\ r.turn = turn
  BY DEF RowPlan, OfThread
<1> QED BY Zenon, <1>4, <1>5, <1>6

-----------------------------------------------------------------------------
(* A snapshot agrees with the tables it is taken of.                       *)
CheckpointsOf(turns) ==
  {[turn |-> r.turn, count |-> r.count, status |-> r.status, message |-> r.assistant] :
     r \in {q \in turns : q.count # None}}
SnapshotFields(th, rows, t) ==
  /\ Record(th) /\ th.exists = TRUE /\ th.project = rows.threads[t].project
  /\ th.archived = rows.threads[t].archived /\ th.deleted = rows.threads[t].deleted
  /\ th.session = rows.sessions[t] /\ th.messages = Shown(MessagesOf(rows.messages, t))
  /\ th.plans = Plain(OfThread(rows.plans, t))
  /\ th.activities = Plain(OfThread(rows.activities, t))
  /\ th.checkpoints = CheckpointsOf(OfThread(rows.turns, t))
  /\ OfThread(rows.turns, t) = {} => th.latestTurn = NoTurn

LEMMA SnapshotThreadFields ==
  ASSUME NEW rows, NEW t, NEW th, th = SnapshotThread(rows, t)
  PROVE  SnapshotFields(th, rows, t)
<1> DEFINE messages == Where(rows.messages, LAMBDA m : m.thread = t)
<1>1. messages = MessagesOf(rows.messages, t)
  BY Zenon DEF MessagesOf
<1>2. Record(th)
  <2>1. DOMAIN th = ThreadFields
    BY DEF SnapshotThread, ThreadFields
  <2>2. \E project, archived, deleted, session, last, said, plans, checkpoints, activities :
          th = [exists |-> TRUE, project |-> project, archived |-> archived, deleted |-> deleted,
                session |-> session, latestTurn |-> last, messages |-> said, plans |-> plans,
                checkpoints |-> checkpoints, activities |-> activities]
    BY Zenon DEF SnapshotThread
  <2>3. th = [f \in DOMAIN th |-> th[f]]
    BY <2>2
  <2> QED BY Zenon, <2>1, <2>3 DEF Record
<1>3. th.messages = Shown(MessagesOf(rows.messages, t))
  <2>1. th.messages = [i \in DOMAIN messages |-> Without(messages[i], "thread")]
    BY DEF SnapshotThread
  <2> QED BY Zenon, <1>1, <2>1 DEF Shown
<1>4. /\ th.plans = Plain(OfThread(rows.plans, t))
      /\ th.activities = Plain(OfThread(rows.activities, t))
      /\ th.checkpoints = CheckpointsOf(OfThread(rows.turns, t))
  BY DEF SnapshotThread, Plain, CheckpointsOf
<1>5. /\ th.exists = TRUE /\ th.project = rows.threads[t].project
      /\ th.archived = rows.threads[t].archived /\ th.deleted = rows.threads[t].deleted
      /\ th.session = rows.sessions[t]
      /\ OfThread(rows.turns, t) = {} => th.latestTurn = NoTurn
  BY DEF SnapshotThread, NoTurn
<1> QED BY Zenon, <1>2, <1>3, <1>4, <1>5 DEF SnapshotFields

LEMMA CheckpointsCount ==
  ASSUME NEW turns, NEW t, NEW a, NEW n
  PROVE  HasCheckpoint(CheckpointsOf(OfThread(turns, t)), a, n) <=> Counts(turns, t, a, n)
<1> DEFINE C(r) == [turn |-> r.turn, count |-> r.count, status |-> r.status,
                    message |-> r.assistant]
<1>1. \A r : C(r).turn = r.turn /\ C(r).count = r.count
  OBVIOUS
<1>2. CheckpointsOf(OfThread(turns, t))
        = {C(r) : r \in {q \in turns : q.thread = t /\ q.count # None}}
  BY DEF CheckpointsOf, OfThread
<1> HIDE DEF C
<1> QED BY <1>1, <1>2 DEF HasCheckpoint, Counts

LEMMA SnapshotThreadAgrees ==
  ASSUME NEW rows, Tidy(rows), NEW t, NEW th, SnapshotFields(th, rows, t)
  PROVE  /\ TurnsToldApart => SameView(th, rows, t)
         /\ NoTurnRuns => SameItems(th, rows, t)
<1>1. ASSUME TurnsToldApart PROVE SameView(th, rows, t)
  <2>1. AllSpoken(rows.messages) /\ PlanRows(rows.plans)
    BY Zenon, <1>1 DEF Tidy, ToldRows
  <2>2. SameStreams(th, rows, t)
    BY Zenon, <2>1, ShownStreams DEF SnapshotFields, SameStreams
  <2>3. SamePlans(th, rows, t)
    BY Zenon, <2>1, PlainPlans DEF SnapshotFields, SamePlans
  <2>4. SameCheckpoints(th, rows, t)
    BY Zenon, CheckpointsCount DEF SnapshotFields, SameCheckpoints
  <2> QED BY Zenon, <2>2, <2>3, <2>4 DEF SameView
<1>2. ASSUME NoTurnRuns PROVE SameItems(th, rows, t)
  <2>1. OfThread(rows.turns, t) = {}
    BY <1>2 DEF Tidy, OfThread
  <2>2. CheckpointsOf({}) = {}
    BY DEF CheckpointsOf
  <2>3. th.checkpoints = {} /\ th.latestTurn = NoTurn
    BY Zenon, <2>1, <2>2 DEF SnapshotFields
  <2>4. SameMessages(th, rows, t)
    BY Zenon DEF SnapshotFields, SameMessages, Shows
  <2>5. SamePlain(th.plans, rows.plans, t) /\ SamePlain(th.activities, rows.activities, t)
    BY Zenon DEF SnapshotFields, SamePlain
  <2> QED BY Zenon, <2>3, <2>4, <2>5 DEF SameItems
<1> QED BY Zenon, <1>1, <1>2

LEMMA SnapshotAgrees ==
  ASSUME NEW rows, Tidy(rows), NEW t \in Threads
  PROVE  Agrees(Snapshot(rows).threads[t], rows, t)
<1>1. PICK th : th = Snapshot(rows).threads[t]
  OBVIOUS
<1>2. th = IF rows.threads[t].exists THEN SnapshotThread(rows, t) ELSE AbsentThread
  BY <1>1 DEF Snapshot
<1>3. HomedTables(rows) /\ ThreadRow(rows.threads[t])
  BY Zenon DEF Tidy
<1>4. CASE rows.threads[t].exists
  <2>1. th = SnapshotThread(rows, t)
    BY <1>2, <1>4
  <2>2. SnapshotFields(th, rows, t)
    BY Zenon, <2>1, SnapshotThreadFields
  <2>3. SameRow(th, rows.threads[t])
    <3>1. rows.threads[t].exists = TRUE
      BY <1>3, <1>4 DEF ThreadRow
    <3> QED BY Zenon, <2>2, <3>1 DEF SnapshotFields, SameRow
  <2>4. TurnsToldApart => SameView(th, rows, t)
    BY Zenon, <2>2, SnapshotThreadAgrees
  <2>5. NoTurnRuns => SameItems(th, rows, t)
    BY Zenon, <2>2, SnapshotThreadAgrees
  <2>6. Agrees(th, rows, t)
    BY Zenon, <2>2, <2>3, <2>4, <2>5 DEF Agrees, SnapshotFields
  <2> QED BY Zenon, <1>1, <2>6
<1>5. CASE ~rows.threads[t].exists
  <2>1. th = AbsentThread
    BY <1>2, <1>5
  <2>2. Vacant(rows, t)
    BY Zenon, <1>5 DEF Tidy
  <2>3. Record(th) /\ EmptyLists(th)
    BY Zenon, <2>1, NewThreadEmpty
  <2>4. SameRow(th, EmptyTables.threads[t])
    BY <2>1 DEF SameRow, AbsentThread, NewThread, EmptyTables
  <2>5. SameRow(th, rows.threads[t])
    BY Zenon, <2>2, <2>4 DEF Vacant
  <2>6. Agrees(th, rows, t)
    BY Zenon, <1>3, <2>2, <2>3, <2>5, BareAgrees DEF Vacant
  <2> QED BY Zenon, <1>1, <2>6
<1> QED BY Zenon, <1>4, <1>5

-----------------------------------------------------------------------------
(* Tables alike for a thread agree with it alike.                          *)
LEMMA AgreesAlike ==
  ASSUME NEW rows, HomedTables(rows), NEW next, HomedTables(next), NEW t, Alike(rows, next, t),
         NEW th, Agrees(th, rows, t)
  PROVE  Agrees(th, next, t)
<1>1. PICK S : rows.messages \in Seq(S)
  BY DEF HomedTables, HomedMessages
<1>2. PICK T : next.messages \in Seq(T)
  BY DEF HomedTables, HomedMessages
<1>3. \A id : RowStreams(rows.messages, t, id) <=> Streaming(MessagesOf(rows.messages, t), id)
  BY Zenon, <1>1, StreamsOfRows
<1>4. \A id : RowStreams(next.messages, t, id) <=> Streaming(MessagesOf(next.messages, t), id)
  BY Zenon, <1>2, StreamsOfRows
<1>5. \A id : RowStreams(next.messages, t, id) <=> RowStreams(rows.messages, t, id)
  BY Zenon, <1>3, <1>4 DEF Alike
<1>6. \A id, turn : RowPlan(next.plans, t, id, turn) <=> RowPlan(rows.plans, t, id, turn)
  BY DEF Alike, RowPlan, OfThread
<1>7. \A a, n : Counts(next.turns, t, a, n) <=> Counts(rows.turns, t, a, n)
  BY DEF Alike, Counts, OfThread
<1>8. SameView(th, rows, t) => SameView(th, next, t)
  BY Zenon, <1>5, <1>6, <1>7 DEF SameView, SameStreams, SamePlans, SameCheckpoints
<1>9. SameItems(th, rows, t) => SameItems(th, next, t)
  BY Zenon DEF SameItems, SameMessages, Shows, SamePlain, Alike
<1> QED BY Zenon, <1>8, <1>9 DEF Agrees, Alike

LEMMA VacantAlike ==
  ASSUME NEW rows, NEW next, NEW t, Alike(rows, next, t), Vacant(rows, t)
  PROVE  Vacant(next, t)
BY Zenon DEF Alike, Vacant, Bare

-----------------------------------------------------------------------------
(* An event of a thread that is there leaves memory and tables in          *)
(* agreement.                                                              *)
LEMMA RowFollows ==
  ASSUME NEW rows, HomedTables(rows), NEW e, e.stream \in Threads, e.type # "thread.created",
         NEW row, row = rows.threads[e.stream], ThreadRow(row), row.exists,
         NEW after, EventWritten(rows, e, after)
  PROVE  RowWritten(row, e, after.threads[e.stream])
<1>1. DOMAIN rows = TableNames /\ DOMAIN rows.threads = Threads
  BY DEF HomedTables
<1>2. PICK acc : /\ acc.threads = rows.threads
                /\ after.threads[e.stream] = ApplyThreads(acc, e)
                /\ \A t \in Threads : t # e.stream => after.threads[t] = rows.threads[t]
  BY <1>1, ThreadsRow
<1>3. row = acc.threads[e.stream]
  BY <1>2
<1>4. PICK next : next = ApplyThreads(acc, e)
  OBVIOUS
<1>5. RowWritten(row, e, next)
  BY Zenon, <1>3, <1>4, RowIsWritten
<1> QED BY Zenon, <1>2, <1>4, <1>5

LEMMA SessionFollows ==
  ASSUME NEW rows, HomedTables(rows), NEW e, e.stream \in Threads,
         NEW after, EventWritten(rows, e, after)
  PROVE  after.sessions[e.stream] =
           IF e.type = "thread.session-set" THEN e.arg ELSE rows.sessions[e.stream]
<1>1. after.sessions = SessionsAfter(rows, e) /\ DOMAIN rows.sessions = Threads
  BY DEF HomedTables, EventWritten
<1> QED BY <1>1 DEF SessionsAfter

LEMMA TurnsFollow ==
  ASSUME ItemShapes, TurnsToldApart, NEW rows, HomedTables(rows), ToldRows(rows),
         NEW e, Drafted(e), e.stream \in Threads, NEW after, EventWritten(rows, e, after)
  PROVE  /\ TurnsApart(after.turns) /\ CountsAfter(rows.turns, after.turns, e)
         /\ DOMAIN after.pending = Threads /\ PendingTold(after.pending)
<1>1. /\ DOMAIN rows = TableNames /\ TurnsApart(rows.turns) /\ PendingTold(rows.pending)
      /\ DOMAIN rows.pending = Threads
  BY Zenon DEF HomedTables, ToldRows
<1>2. PICK next : next = ApplyTurns(rows, e)
  OBVIOUS
<1>3. TurnsApart(next.turns) /\ CountsAfter(rows.turns, next.turns, e)
  BY Zenon, <1>1, <1>2, TurnsAfterEvent
<1>4. PendingTold(next.pending) /\ DOMAIN next.pending = Threads
  BY Zenon, <1>1, <1>2, TurnsAfterEvent
<1>5. after.turns = next.turns /\ after.pending = next.pending
  BY Zenon, <1>2 DEF EventWritten
<1> QED BY Zenon, <1>3, <1>4, <1>5

LEMMA ViewFollows ==
  ASSUME ItemShapes, TurnsToldApart, NEW rows, HomedTables(rows), ToldRows(rows),
         NEW e, Drafted(e), NEW t, t = e.stream, t \in Threads,
         NEW th, Record(th), SameView(th, rows, t), NEW next, ThreadWritten(th, e, next),
         NEW after, EventWritten(rows, e, after)
  PROVE  SameView(next, after, t)
<1>1. CountsAfter(rows.turns, after.turns, e)
  BY Zenon, TurnsFollow
<1>2. AllSpoken(rows.messages) /\ TurnsApart(rows.turns)
  BY Zenon DEF ToldRows
<1>3. /\ SameStreams(th, rows, t) /\ SamePlans(th, rows, t) /\ SameCheckpoints(th, rows, t)
  BY Zenon DEF SameView
<1>4. /\ next.messages = ThreadMessages(th, e) /\ next.plans = ThreadPlans(th, e)
      /\ next.checkpoints = ThreadCheckpoints(th, e)
      /\ after.messages = MessagesAfter(rows, e) /\ after.plans = PlansAfter(rows, e)
  BY Zenon DEF ThreadWritten, EventWritten
<1>5. SameStreams(next, after, t)
  BY Zenon, <1>2, <1>3, <1>4, SameStreamsAfter
<1>6. SamePlans(next, after, t)
  BY Zenon, <1>2, <1>3, <1>4, SamePlansAfter
<1>7. SameCheckpoints(next, after, t)
  BY Zenon, <1>1, <1>2, <1>3, <1>4, SameCheckpointsAfter
<1> QED BY Zenon, <1>5, <1>6, <1>7 DEF SameView

LEMMA AgreesOn ==
  ASSUME OneThreadPerItem, ItemShapes, NEW rows, Tidy(rows), NEW e, Drafted(e),
         NEW t, t = e.stream, t \in Threads, rows.threads[t].exists, e.type # "thread.created",
         NEW th, Agrees(th, rows, t), NEW after, EventWritten(rows, e, after),
         NEW next, next = ThreadAfter(th, e)
  PROVE  Agrees(next, after, t)
<1>0. HomedTables(rows) /\ ThreadRow(rows.threads[t])
  BY Zenon DEF Tidy
<1>1. PICK row : row = rows.threads[t]
  OBVIOUS
<1>2. Record(th) /\ SameRow(th, row) /\ th.session = rows.sessions[t]
  BY Zenon, <1>1 DEF Agrees
<1>3. th.exists
  BY Zenon, <1>1, <1>2 DEF SameRow
<1>4. ThreadWritten(th, e, next)
  BY Zenon, <1>2, <1>3, ThreadIsWritten
<1>5. SameRow(next, after.threads[t])
  <2>1. PICK last : last = after.threads[t]
    OBVIOUS
  <2>2. RowWritten(row, e, last)
    BY Zenon, <1>0, <1>1, <2>1, RowFollows
  <2>3. /\ next.exists = th.exists /\ next.project = th.project
        /\ next.archived = ArchivedAfter(th.archived, e)
        /\ next.deleted = DeletedAfter(th.deleted, e)
    BY Zenon, <1>4 DEF ThreadWritten
  <2>4. /\ last.exists = row.exists /\ last.project = row.project
        /\ last.archived = ArchivedAfter(row.archived, e)
        /\ last.deleted = DeletedAfter(row.deleted, e)
    BY Zenon, <2>2 DEF RowWritten
  <2>5. /\ th.exists = row.exists /\ th.project = row.project
        /\ th.archived = row.archived /\ th.deleted = row.deleted
    BY Zenon, <1>2 DEF SameRow
  <2> QED BY Zenon, <2>1, <2>3, <2>4, <2>5 DEF SameRow
<1>6. next.session = after.sessions[t]
  <2>1. after.sessions[t] = IF e.type = "thread.session-set" THEN e.arg ELSE rows.sessions[t]
    BY Zenon, <1>0, SessionFollows
  <2> QED BY Zenon, <1>2, <1>4, <2>1 DEF ThreadWritten
<1>7. ASSUME TurnsToldApart PROVE SameView(next, after, t)
  <2>1. ToldRows(rows) /\ SameView(th, rows, t)
    BY Zenon, <1>7 DEF Tidy, Agrees
  <2> QED BY Zenon, <1>0, <1>2, <1>4, <1>7, <2>1, ViewFollows
<1>8. ASSUME NoTurnRuns PROVE SameItems(next, after, t)
  <2>1. PlainRows(rows) /\ SameItems(th, rows, t)
    BY Zenon, <1>8 DEF Tidy, Agrees
  <2> QED BY Zenon, <1>4, <1>8, <2>1, SameItemsAfter
<1>9. Record(next)
  BY Zenon, <1>4 DEF ThreadWritten
<1> QED BY Zenon, <1>5, <1>6, <1>7, <1>8, <1>9 DEF Agrees

(* A thread that is created finds nothing of it in the tables.             *)
CreationWritten(rows, e, after) ==
  /\ after.messages = rows.messages /\ after.plans = rows.plans
  /\ after.activities = rows.activities /\ after.sessions = rows.sessions
  /\ after.turns = rows.turns /\ after.pending = rows.pending
  /\ after.threads[e.stream] = NewRow(e.arg) /\ ThreadRow(NewRow(e.arg))

LEMMA CreationIsWritten ==
  ASSUME NEW rows, HomedTables(rows), NEW e, e.stream \in Threads, e.type = "thread.created",
         NEW after, EventWritten(rows, e, after)
  PROVE  CreationWritten(rows, e, after)
<1>1. /\ after.messages = rows.messages /\ after.plans = rows.plans
      /\ after.activities = rows.activities /\ after.sessions = rows.sessions
  BY DEF EventWritten, MessagesAfter, PlansAfter, ActivitiesAfter, SessionsAfter
<1>2. ApplyTurns(rows, e) = rows
  BY DEF ApplyTurns
<1>3. after.turns = rows.turns /\ after.pending = rows.pending
  BY Zenon, <1>2 DEF EventWritten
<1>4. DOMAIN rows = TableNames /\ DOMAIN rows.threads = Threads
  BY DEF HomedTables
<1>5. PICK acc : /\ acc.threads = rows.threads
                /\ after.threads[e.stream] = ApplyThreads(acc, e)
                /\ \A t \in Threads : t # e.stream => after.threads[t] = rows.threads[t]
  BY <1>4, ThreadsRow
<1>6. ApplyThreads(acc, e) = NewRow(e.arg) /\ ThreadRow(NewRow(e.arg))
  BY Zenon, RowIsCreated
<1> QED BY Zenon, <1>1, <1>3, <1>5, <1>6 DEF CreationWritten

LEMMA AgreesAnew ==
  ASSUME NEW rows, NEW e, NEW t, t = e.stream, Vacant(rows, t),
         NEW after, HomedTables(after), CreationWritten(rows, e, after)
  PROVE  Agrees(NewThread(e.arg), after, t)
<1>1. Bare(after, t)
  BY Zenon DEF Vacant, Bare, CreationWritten
<1>2. PICK th : th = NewThread(e.arg)
  OBVIOUS
<1>3. Record(th) /\ EmptyLists(th)
  BY Zenon, <1>2, NewThreadEmpty
<1>4. SameRow(th, NewRow(e.arg))
  BY <1>2 DEF SameRow, NewThread, NewRow
<1>5. SameRow(th, after.threads[t])
  BY Zenon, <1>4 DEF CreationWritten
<1>6. Agrees(th, after, t)
  BY Zenon, <1>1, <1>3, <1>5, BareAgrees
<1> QED BY Zenon, <1>2, <1>6

-----------------------------------------------------------------------------
(* Tables stay tidy: the rows that are in them, and those not yet there.   *)
Keeps(rows, e) == rows.threads[e.stream].exists \/ e.type = "thread.created"

LEMMA RowsStayTidy ==
  ASSUME NEW rows, Tidy(rows), NEW e, e.stream \in Threads, Keeps(rows, e),
         NEW after, EventWritten(rows, e, after), OthersKept(rows, after, e.stream),
         NEW t \in Threads
  PROVE  ThreadRow(after.threads[t]) /\ (~after.threads[t].exists => Vacant(after, t))
<1>0. HomedTables(rows) /\ ThreadRow(rows.threads[t])
  BY Zenon DEF Tidy
<1>1. CASE t # e.stream
  <2>1. Alike(rows, after, t)
    BY Zenon, <1>1 DEF OthersKept
  <2>2. after.threads[t] = rows.threads[t]
    BY Zenon, <2>1 DEF Alike
  <2>3. ~rows.threads[t].exists => Vacant(rows, t)
    BY Zenon DEF Tidy
  <2> QED BY Zenon, <1>0, <2>1, <2>2, <2>3, VacantAlike
<1>2. CASE t = e.stream /\ e.type = "thread.created"
  <2>1. CreationWritten(rows, e, after)
    BY Zenon, <1>0, <1>2, CreationIsWritten
  <2>2. ThreadRow(after.threads[t]) /\ after.threads[t] = NewRow(e.arg)
    BY Zenon, <1>2, <2>1 DEF CreationWritten
  <2>3. NewRow(e.arg).exists
    BY DEF NewRow
  <2> QED BY Zenon, <2>2, <2>3
<1>3. CASE t = e.stream /\ e.type # "thread.created"
  <2>1. PICK row : row = rows.threads[e.stream]
    OBVIOUS
  <2>2. ThreadRow(row) /\ row.exists
    BY Zenon, <1>0, <1>3, <2>1 DEF Keeps
  <2>3. RowWritten(row, e, after.threads[e.stream])
    BY Zenon, <1>0, <1>3, <2>1, <2>2, RowFollows
  <2> QED BY Zenon, <1>3, <2>2, <2>3 DEF RowWritten
<1> QED BY Zenon, <1>1, <1>2, <1>3

LEMMA SpokenAfter ==
  ASSUME ItemShapes, TurnsToldApart, NEW rows, ToldRows(rows), NEW e, Drafted(e),
         NEW after, after.messages = MessagesAfter(rows, e)
  PROVE  AllSpoken(after.messages)
<1>0. AllSpoken(rows.messages) /\ TurnsApart(rows.turns)
  BY Zenon DEF ToldRows
<1>1. CASE e.type = "thread.message-sent"
  <2>1. Spoken(e.arg) /\ DOMAIN e.arg = MessageFields
    BY Zenon, <1>1, DraftSpoken
  <2>2. MessageIs(e.arg)
    BY <2>1 DEF MessageIs
  <2>3. after.messages = ApplyMessage(rows.messages, e.stream, e.arg)
    BY <1>1 DEF MessagesAfter
  <2>4. PICK next : next = after.messages
    OBVIOUS
  <2>5. AllSpoken(next)
    BY Zenon, <1>0, <2>2, <2>3, <2>4, ApplyStreams
  <2> QED BY Zenon, <2>4, <2>5
<1>2. CASE e.type = "thread.reverted"
  <2>1. after.messages = RevertMessages(rows, e.stream, e.arg.turnCount)
    BY <1>2 DEF MessagesAfter
  <2>2. PICK next : next = after.messages
    OBVIOUS
  <2>3. AllSpoken(next)
    BY Zenon, <1>0, <2>1, <2>2, RevertStreams
  <2> QED BY Zenon, <2>2, <2>3
<1>3. CASE e.type \notin {"thread.message-sent", "thread.reverted"}
  <2>1. after.messages = rows.messages
    BY <1>3 DEF MessagesAfter
  <2> QED BY Zenon, <1>0, <2>1
<1> QED BY <1>1, <1>2, <1>3

LEMMA PlansStayTold ==
  ASSUME ItemShapes, NEW rows, PlanRows(rows.plans), NEW e, Drafted(e),
         NEW after, after.plans = PlansAfter(rows, e)
  PROVE  PlanRows(after.plans)
<1>1. CASE e.type = "thread.proposed-plan-upserted"
  <2>1. DOMAIN e.arg = {"id", "turn"}
    BY Zenon, <1>1, DraftPlan
  <2>2. PICK row : row = WithThread(e.arg, e.stream)
    OBVIOUS
  <2>3. {"id", "turn"} \subseteq DOMAIN row
    BY <2>1, <2>2 DEF WithThread
  <2>4. after.plans = UpsertById(rows.plans, row)
    BY Zenon, <1>1, <2>2 DEF PlansAfter
  <2> QED BY <2>3, <2>4 DEF PlanRows, UpsertById
<1>2. CASE e.type # "thread.proposed-plan-upserted"
  <2>1. after.plans \subseteq rows.plans
    BY <1>2 DEF PlansAfter, RevertRows
  <2> QED BY <2>1 DEF PlanRows
<1> QED BY <1>1, <1>2

LEMMA ToldRowsFollow ==
  ASSUME ItemShapes, TurnsToldApart, NEW rows, HomedTables(rows), ToldRows(rows),
         NEW e, Drafted(e), e.stream \in Threads, NEW after, EventWritten(rows, e, after)
  PROVE  ToldRows(after)
<1>1. after.messages = MessagesAfter(rows, e) /\ after.plans = PlansAfter(rows, e)
  BY Zenon DEF EventWritten
<1>2. AllSpoken(after.messages)
  BY Zenon, <1>1, SpokenAfter
<1>3. PlanRows(after.plans)
  BY Zenon, <1>1, PlansStayTold DEF ToldRows
<1>4. TurnsApart(after.turns)
  BY Zenon, TurnsFollow
<1>5. DOMAIN after.pending = Threads /\ PendingTold(after.pending)
  BY Zenon, TurnsFollow
<1> QED BY Zenon, <1>2, <1>3, <1>4, <1>5 DEF ToldRows

LEMMA PlainRowsFollow ==
  ASSUME OneThreadPerItem, ItemShapes, NoTurnRuns, NEW rows, Tidy(rows),
         NEW e, Drafted(e), e.stream \in Threads, NEW after, EventWritten(rows, e, after)
  PROVE  PlainRows(after) /\ after.turns = {}
<1>0. HomedTables(rows) /\ PlainRows(rows) /\ rows.turns = {} /\ DOMAIN rows = TableNames
  BY Zenon DEF Tidy, HomedTables
<1>1. after.turns = {}
  <2>1. ApplyTurns(rows, e).turns = {}
    BY Zenon, <1>0, NoTurnsAfter
  <2> QED BY Zenon, <2>1 DEF EventWritten
<1>2. CASE e.type = "thread.created"
  <2>1. CreationWritten(rows, e, after)
    BY Zenon, <1>0, <1>2, CreationIsWritten
  <2> QED BY Zenon, <1>0, <1>1, <2>1 DEF CreationWritten, PlainRows
<1>3. CASE e.type # "thread.created"
  <2>1. PICK th, t : th = SnapshotThread(rows, t) /\ t = e.stream
    OBVIOUS
  <2>2. SnapshotFields(th, rows, t)
    BY Zenon, <2>1, SnapshotThreadFields
  <2>3. SameItems(th, rows, t)
    BY Zenon, <2>2, SnapshotThreadAgrees
  <2>4. PICK next : next = ThreadAfter(th, e)
    OBVIOUS
  <2>5. Record(th) /\ th.exists
    BY Zenon, <2>2 DEF SnapshotFields
  <2>6. ThreadWritten(th, e, next)
    BY Zenon, <1>3, <2>4, <2>5, ThreadIsWritten
  <2>7. PlainRows(after)
    BY Zenon, <1>0, <2>1, <2>3, <2>6, SameItemsAfter
  <2> QED BY Zenon, <1>1, <2>7
<1> QED BY Zenon, <1>2, <1>3

(* An event of a thread, and one of a project.                             *)
LEMMA ThreadEventTidy ==
  ASSUME OneThreadPerItem, ItemShapes, NEW rows, Tidy(rows), NEW e, Drafted(e),
         e.stream \in Threads, Keeps(rows, e),
         NEW after, EventWritten(rows, e, after), OthersKept(rows, after, e.stream)
  PROVE  Tidy(after)
<1>1. HomedTables(rows) /\ HomedTables(after)
  BY Zenon DEF Tidy, OthersKept
<1>2. \A t \in Threads :
        ThreadRow(after.threads[t]) /\ (~after.threads[t].exists => Vacant(after, t))
  BY Zenon, RowsStayTidy
<1>3. TurnsToldApart => ToldRows(after)
  BY Zenon, <1>1, ToldRowsFollow DEF Tidy
<1>4. NoTurnRuns => PlainRows(after) /\ after.turns = {}
  BY Zenon, PlainRowsFollow
<1> QED BY Zenon, <1>1, <1>2, <1>3, <1>4 DEF Tidy

SameButProjects(rows, after) ==
  /\ after.threads = rows.threads /\ after.messages = rows.messages
  /\ after.plans = rows.plans /\ after.activities = rows.activities
  /\ after.sessions = rows.sessions /\ after.turns = rows.turns
  /\ after.pending = rows.pending
LEMMA ProjectEventSame ==
  ASSUME NEW rows, DOMAIN rows = TableNames, NEW p, NEW e,
         NEW after, after = PutProjects(rows, p, e)
  PROVE  SameButProjects(rows, after)
BY DEF SameButProjects, PutProjects, TableNames

LEMMA ProjectEventTidy ==
  ASSUME NEW rows, Tidy(rows), NEW after, HomedTables(after), SameButProjects(rows, after)
  PROVE  Tidy(after) /\ \A t \in Threads : Alike(rows, after, t)
<1>1. \A t : Vacant(rows, t) => Vacant(after, t)
  BY Zenon DEF SameButProjects, Vacant, Bare
<1>2. ToldRows(rows) => ToldRows(after)
  BY Zenon DEF SameButProjects, ToldRows
<1>3. PlainRows(rows) => PlainRows(after)
  BY Zenon DEF SameButProjects, PlainRows
<1>4. Tidy(after)
  BY Zenon, <1>1, <1>2, <1>3 DEF SameButProjects, Tidy
<1>5. \A t \in Threads : Alike(rows, after, t)
  BY Zenon DEF SameButProjects, Alike
<1> QED BY Zenon, <1>4, <1>5

-----------------------------------------------------------------------------
(* A read model and tables that agree on everything either keeps, and what *)
(* an event makes of both.                                                 *)
Mirrors(m, rows) ==
  /\ m = [projects |-> m.projects, threads |-> m.threads]
  /\ m.threads = [t \in Threads |-> m.threads[t]]
  /\ m.projects = rows.projects
  /\ \A t \in Threads : Agrees(m.threads[t], rows, t)

LEMMA EmptyTidy == Tidy(EmptyTables)
<1>1. PICK rows : rows = EmptyTables
  OBVIOUS
<1>2. /\ rows.messages = <<>> /\ rows.plans = {} /\ rows.activities = {} /\ rows.turns = {}
      /\ rows.sessions = [t \in Threads |-> NoSession]
      /\ rows.pending = [t \in Threads |-> NoPending]
  BY <1>1 DEF EmptyTables
<1>3. HomedTables(rows)
  BY Zenon, <1>1, EmptyTablesHomed
<1>4. \A t : MessagesOf(<<>>, t) = <<>>
  <2>1. PICK S : S = {}
    OBVIOUS
  <2>2. <<>> \in Seq(S)
    OBVIOUS
  <2>3. ASSUME NEW t PROVE MessagesOf(<<>>, t) = <<>>
    <3>1. PICK mine : mine = MessagesOf(<<>>, t)
      OBVIOUS
    <3>2. mine \in Seq(S)
      BY Zenon, <2>2, <3>1, MessagesOfRows
    <3>3. mine = <<>>
      BY <2>1, <3>2
    <3> QED BY Zenon, <3>1, <3>3
  <2> QED BY Zenon, <2>3
<1>5. ASSUME NEW t \in Threads PROVE Bare(rows, t)
  <2>1. rows.sessions[t] = NoSession
    BY <1>2
  <2>2. OfThread({}, t) = {}
    BY DEF OfThread
  <2> QED BY Zenon, <1>2, <1>4, <2>1, <2>2 DEF Bare
<1>6. ASSUME NEW t \in Threads PROVE ThreadRow(rows.threads[t])
  BY <1>1 DEF EmptyTables, ThreadRow, ThreadRowFields
<1>7. \A t \in Threads : Vacant(rows, t)
  BY Zenon, <1>1, <1>5 DEF Vacant
<1>8. PlainRows(rows)
  <2>1. ItemRows({})
    BY DEF ItemRows
  <2>2. MessageRows(<<>>)
    <3>1. PICK S : S = {}
      OBVIOUS
    <3>2. <<>> \in Seq(S) /\ \A r \in S : RowWell(r)
      BY <3>1
    <3> QED BY Zenon, <3>2, WellRows
  <2> QED BY Zenon, <1>2, <2>1, <2>2 DEF PlainRows
<1>9. ASSUME TurnsToldApart PROVE ToldRows(rows)
  <2>1. AllSpoken(<<>>)
    <3>1. PICK S : S = {}
      OBVIOUS
    <3>2. <<>> \in Seq(S) /\ \A m \in S : MessageIs(m)
      BY <3>1
    <3> QED BY Zenon, <3>2 DEF AllSpoken
  <2>2. PlanRows({})
    BY DEF PlanRows
  <2>3. TurnsApart({})
    BY DEF TurnsApart, TurnRows
  <2>4. None \notin StreamedIds
    BY Zenon, <1>9 DEF TurnsToldApart
  <2>5. \A t \in Threads : rows.pending[t].message = None
    BY <1>2 DEF NoPending
  <2>6. PendingTold(rows.pending)
    BY Zenon, <2>4, <2>5 DEF PendingTold
  <2>7. DOMAIN rows.pending = Threads
    BY <1>2
  <2> QED BY Zenon, <1>2, <2>1, <2>2, <2>3, <2>6, <2>7 DEF ToldRows
<1>10. Tidy(rows)
  BY Zenon, <1>2, <1>3, <1>6, <1>7, <1>8, <1>9 DEF Tidy
<1> QED BY Zenon, <1>1, <1>10

LEMMA SnapshotMirrors ==
  ASSUME NEW rows, Tidy(rows)
  PROVE  Mirrors(Snapshot(rows), rows)
<1>1. PICK m : m = Snapshot(rows)
  OBVIOUS
<1>2. /\ m = [projects |-> m.projects, threads |-> m.threads]
      /\ m.threads = [t \in Threads |-> m.threads[t]]
      /\ m.projects = rows.projects
  BY <1>1 DEF Snapshot
<1>3. \A t \in Threads : Agrees(m.threads[t], rows, t)
  BY Zenon, <1>1, SnapshotAgrees
<1> QED BY Zenon, <1>1, <1>2, <1>3 DEF Mirrors

(* An event the tables can take: a creation, or of a stream they have.     *)
Takes(rows, e) ==
  /\ Drafted(e) /\ OwnStream(e) /\ e.stream \in Projects \cup Threads
  /\ IsCreation(e.type) \/ Found(rows, e.stream)

LEMMA EventStaysTidy ==
  ASSUME OneThreadPerItem, ItemShapes, NEW rows, Tidy(rows), NEW e, Takes(rows, e),
         NEW after, after = ApplyEvent(rows, e)
  PROVE  Tidy(after)
<1>1. HomedTables(rows) /\ DOMAIN rows = TableNames /\ Drafted(e)
  BY Zenon DEF Tidy, HomedTables, Takes
<1>2. Homed(e)
  BY Zenon, <1>1, DraftHomed
<1>3. OthersKept(rows, after, e.stream)
  BY Zenon, <1>1, <1>2, EventKeepsOthers
<1>4. CASE e.stream \in Projects
  <2>1. after = PutProjects(rows, e.stream, e)
    BY Zenon, <1>1, <1>4, ProjectEventWritten
  <2>2. SameButProjects(rows, after)
    BY Zenon, <1>1, <2>1, ProjectEventSame
  <2> QED BY Zenon, <1>3, <2>2, ProjectEventTidy DEF OthersKept
<1>5. CASE e.stream \notin Projects
  <2>1. e.stream \in Threads
    BY Zenon, <1>5 DEF Takes
  <2>2. EventWritten(rows, e, after)
    BY Zenon, <1>1, <1>5, EventIsWritten
  <2>3. Keeps(rows, e)
    BY <1>5 DEF Takes, OwnStream, IsCreation, Found, Keeps
  <2> QED BY Zenon, <1>1, <1>3, <2>1, <2>2, <2>3, ThreadEventTidy
<1> QED BY Zenon, <1>4, <1>5

(* An event both can take alike.                                           *)
TakenByBoth(rows, e) == Takes(rows, e) /\ (IsCreation(e.type) => ~Found(rows, e.stream))

LEMMA ProjectMirrors ==
  ASSUME NEW m, NEW rows, Mirrors(m, rows), HomedTables(rows), NEW e, e.stream \in Projects,
         NEW after, after = PutProjects(rows, e.stream, e),
         HomedTables(after), \A t \in Threads : Alike(rows, after, t),
         NEW next, next = ProjectEvent(m, e)
  PROVE  Mirrors(next, after)
<1>1. PICK p, projects, old : p = e.stream /\ projects = m.projects /\ old = m.threads
  OBVIOUS
<1>2. m = [projects |-> projects, threads |-> old] /\ rows.projects = projects
  BY Zenon, <1>1 DEF Mirrors
<1>3. next = [m EXCEPT !.projects[p] = ProjectAfter(@, e)]
  BY Zenon, <1>1 DEF ProjectEvent
<1>4. /\ next.projects = [projects EXCEPT ![p] = ProjectAfter(@, e)] /\ next.threads = old
      /\ next = [projects |-> next.projects, threads |-> next.threads]
  BY <1>2, <1>3
<1>5. after.projects = [projects EXCEPT ![p] = ProjectAfter(@, e)]
  BY <1>1, <1>2 DEF PutProjects, HomedTables, TableNames
<1>6. next.threads = [t \in Threads |-> next.threads[t]]
  BY Zenon, <1>1, <1>4 DEF Mirrors
<1>7. \A t \in Threads : Agrees(next.threads[t], after, t)
  <2>1. ASSUME NEW t \in Threads PROVE Agrees(next.threads[t], after, t)
    <3>1. PICK th : th = next.threads[t]
      OBVIOUS
    <3>2. Agrees(th, rows, t)
      BY Zenon, <1>1, <1>4, <3>1 DEF Mirrors
    <3>3. Alike(rows, after, t)
      OBVIOUS
    <3>4. Agrees(th, after, t)
      BY Zenon, <3>2, <3>3, AgreesAlike
    <3> QED BY Zenon, <3>1, <3>4
  <2> QED BY Zenon, <2>1
<1> QED BY Zenon, <1>4, <1>5, <1>6, <1>7 DEF Mirrors

LEMMA ThreadMirrors ==
  ASSUME OneThreadPerItem, ItemShapes, NEW m, NEW rows, Mirrors(m, rows), Tidy(rows),
         NEW e, TakenByBoth(rows, e), e.stream \notin Projects,
         NEW after, EventWritten(rows, e, after), OthersKept(rows, after, e.stream),
         NEW next, next = ProjectEvent(m, e)
  PROVE  Mirrors(next, after)
<1>0. HomedTables(rows) /\ HomedTables(after)
  BY Zenon DEF Tidy, OthersKept
<1>1. PICK u, projects, old : u = e.stream /\ projects = m.projects /\ old = m.threads
  OBVIOUS
<1>2. /\ m = [projects |-> projects, threads |-> old] /\ rows.projects = projects
      /\ old = [t \in Threads |-> old[t]]
  BY Zenon, <1>1 DEF Mirrors
<1>3. u \in Threads /\ Drafted(e)
  BY Zenon, <1>1 DEF TakenByBoth, Takes
<1>4. next = [m EXCEPT !.threads[u] = ThreadAfter(@, e)]
  BY Zenon, <1>1 DEF ProjectEvent
<1>5. /\ next.projects = projects /\ next.threads = [old EXCEPT ![u] = ThreadAfter(@, e)]
      /\ next = [projects |-> next.projects, threads |-> next.threads]
  BY Zenon, <1>2, <1>4
<1>6. /\ next.threads = [t \in Threads |-> next.threads[t]]
      /\ next.threads[u] = ThreadAfter(old[u], e)
      /\ \A t \in Threads : t # u => next.threads[t] = old[t]
  BY <1>2, <1>3, <1>5
<1>7. after.projects = projects
  BY Zenon, <1>2 DEF EventWritten
<1>8. \A t \in Threads : t # u => Agrees(next.threads[t], after, t)
  <2>1. ASSUME NEW t \in Threads, t # u PROVE Agrees(next.threads[t], after, t)
    <3>1. Agrees(old[t], rows, t)
      BY Zenon, <1>1 DEF Mirrors
    <3>2. Alike(rows, after, t)
      BY Zenon, <1>1, <2>1 DEF OthersKept
    <3>3. Agrees(old[t], after, t)
      BY Zenon, <1>0, <3>1, <3>2, AgreesAlike
    <3> QED BY Zenon, <1>6, <2>1, <3>3
  <2> QED BY Zenon, <2>1
<1>9. Agrees(next.threads[u], after, u)
  <2>1. PICK th, made : th = old[u] /\ made = ThreadAfter(th, e)
    OBVIOUS
  <2>2. CASE e.type = "thread.created"
    <3>1. ~rows.threads[u].exists
      BY <1>1, <2>2 DEF TakenByBoth, Found, IsCreation
    <3>2. Vacant(rows, u)
      BY Zenon, <1>3, <3>1 DEF Tidy
    <3>3. CreationWritten(rows, e, after)
      BY Zenon, <1>0, <1>1, <1>3, <2>2, CreationIsWritten
    <3>4. Agrees(NewThread(e.arg), after, u)
      BY Zenon, <1>0, <1>1, <3>2, <3>3, AgreesAnew
    <3>5. made = NewThread(e.arg)
      BY <2>1, <2>2 DEF ThreadAfter
    <3> QED BY Zenon, <1>6, <2>1, <3>4, <3>5
  <2>3. CASE e.type # "thread.created"
    <3>1. rows.threads[u].exists
      BY <1>1, <2>3 DEF TakenByBoth, Takes, OwnStream, IsCreation, Found
    <3>2. Agrees(th, rows, u)
      BY Zenon, <1>1, <1>3, <2>1 DEF Mirrors
    <3>3. Agrees(made, after, u)
      BY Zenon, <1>1, <1>3, <2>1, <2>3, <3>1, <3>2, AgreesOn
    <3> QED BY Zenon, <1>6, <2>1, <3>3
  <2> QED BY Zenon, <2>2, <2>3
<1> QED BY Zenon, <1>5, <1>6, <1>7, <1>8, <1>9 DEF Mirrors

LEMMA EventMirrors ==
  ASSUME OneThreadPerItem, ItemShapes, NEW m, NEW rows, Mirrors(m, rows), Tidy(rows),
         NEW e, TakenByBoth(rows, e),
         NEW next, next = ProjectEvent(m, e), NEW after, after = ApplyEvent(rows, e)
  PROVE  Mirrors(next, after)
<1>1. HomedTables(rows) /\ DOMAIN rows = TableNames /\ Drafted(e)
  BY Zenon DEF Tidy, HomedTables, Takes, TakenByBoth
<1>2. Homed(e)
  BY Zenon, <1>1, DraftHomed
<1>3. OthersKept(rows, after, e.stream)
  BY Zenon, <1>1, <1>2, EventKeepsOthers
<1>4. HomedTables(after)
  BY Zenon, <1>3 DEF OthersKept
<1>5. CASE e.stream \in Projects
  <2>1. after = PutProjects(rows, e.stream, e)
    BY Zenon, <1>1, <1>5, ProjectEventWritten
  <2>2. SameButProjects(rows, after)
    BY Zenon, <1>1, <2>1, ProjectEventSame
  <2>3. \A t \in Threads : Alike(rows, after, t)
    BY Zenon, <1>4, <2>2, ProjectEventTidy
  <2> QED BY Zenon, <1>1, <1>4, <1>5, <2>1, <2>3, ProjectMirrors
<1>6. CASE e.stream \notin Projects
  <2>1. EventWritten(rows, e, after)
    BY Zenon, <1>1, <1>6, EventIsWritten
  <2> QED BY Zenon, <1>3, <1>6, <2>1, ThreadMirrors
<1> QED BY Zenon, <1>5, <1>6

-----------------------------------------------------------------------------
(* Two models that mirror the same tables decide alike, and are the same   *)
(* where no turn runs.                                                     *)
Busy(th) == th.session.status \in {"running", "starting"}
AnyStreams(th) == \E i \in DOMAIN th.messages : th.messages[i].streaming
PlanIds(th) == {x.id : x \in th.plans}
ViewOf(th) ==
  [exists |-> th.exists, project |-> th.project, archived |-> th.archived,
   deleted |-> th.deleted, busy |-> Busy(th), streaming |-> AnyStreams(th), plans |-> PlanIds(th)]

LEMMA ViewsOf ==
  ASSUME NEW m
  PROVE  AdmissionView(m) = [t \in Threads |-> ViewOf(m.threads[t])]
BY DEF AdmissionView, ViewOf, Busy, AnyStreams, PlanIds

LEMMA SameViews ==
  ASSUME TurnsToldApart, NEW rows, NEW t, NEW th, NEW other, Agrees(th, rows, t),
         Agrees(other, rows, t)
  PROVE  ViewOf(th) = ViewOf(other)
<1>1. /\ SameRow(th, rows.threads[t]) /\ th.session = rows.sessions[t]
      /\ SameStreams(th, rows, t) /\ SamePlans(th, rows, t)
  BY Zenon DEF Agrees, SameView
<1>2. /\ SameRow(other, rows.threads[t]) /\ other.session = rows.sessions[t]
      /\ SameStreams(other, rows, t) /\ SamePlans(other, rows, t)
  BY Zenon DEF Agrees, SameView
<1>3. /\ th.exists = other.exists /\ th.project = other.project
      /\ th.archived = other.archived /\ th.deleted = other.deleted
  BY Zenon, <1>1, <1>2 DEF SameRow
<1>4. Busy(th) = Busy(other)
  BY Zenon, <1>1, <1>2 DEF Busy
<1>5. AnyStreams(th) <=> AnyStreams(other)
  <2>1. AnyStreams(th) <=> \E id : Streaming(th.messages, id)
    BY Zenon DEF AnyStreams, Streaming
  <2>2. AnyStreams(other) <=> \E id : Streaming(other.messages, id)
    BY Zenon DEF AnyStreams, Streaming
  <2> QED BY Zenon, <1>1, <1>2, <2>1, <2>2 DEF SameStreams
<1>6. PlanIds(th) = PlanIds(other)
  <2>1. \A id : id \in PlanIds(th) <=> \E turn : HasPlan(th.plans, id, turn)
    BY DEF PlanIds, HasPlan
  <2>2. \A id : id \in PlanIds(other) <=> \E turn : HasPlan(other.plans, id, turn)
    BY DEF PlanIds, HasPlan
  <2>3. \A id : id \in PlanIds(th) <=> id \in PlanIds(other)
    BY Zenon, <1>1, <1>2, <2>1, <2>2 DEF SamePlans
  <2> QED BY Zenon, <2>3
<1>7. AnyStreams(th) = AnyStreams(other)
  BY <1>5 DEF AnyStreams
<1> QED BY Zenon, <1>3, <1>4, <1>6, <1>7 DEF ViewOf

LEMMA MirrorsDecideAlike ==
  ASSUME TurnsToldApart, NEW rows, NEW m, NEW n, Mirrors(m, rows), Mirrors(n, rows)
  PROVE  AdmissionView(m) = AdmissionView(n)
<1>1. \A t \in Threads : ViewOf(m.threads[t]) = ViewOf(n.threads[t])
  <2>1. ASSUME NEW t \in Threads PROVE ViewOf(m.threads[t]) = ViewOf(n.threads[t])
    <3>1. PICK th, other : th = m.threads[t] /\ other = n.threads[t]
      OBVIOUS
    <3>2. Agrees(th, rows, t) /\ Agrees(other, rows, t)
      BY Zenon, <3>1 DEF Mirrors
    <3>3. ViewOf(th) = ViewOf(other)
      BY Zenon, <3>2, SameViews
    <3> QED BY Zenon, <3>1, <3>3
  <2> QED BY Zenon, <2>1
<1>2. [t \in Threads |-> ViewOf(m.threads[t])] = [t \in Threads |-> ViewOf(n.threads[t])]
  BY Zenon, <1>1
<1> QED BY Zenon, <1>2, ViewsOf

LEMMA SameRecords ==
  ASSUME NoTurnRuns, NEW rows, NEW t, NEW th, NEW other, Agrees(th, rows, t),
         Agrees(other, rows, t)
  PROVE  th = other
<1>1. /\ SameRow(th, rows.threads[t]) /\ th.session = rows.sessions[t]
      /\ SameItems(th, rows, t) /\ Record(th)
  BY Zenon DEF Agrees
<1>2. /\ SameRow(other, rows.threads[t]) /\ other.session = rows.sessions[t]
      /\ SameItems(other, rows, t) /\ Record(other)
  BY Zenon DEF Agrees
<1>3. /\ th.exists = other.exists /\ th.project = other.project
      /\ th.archived = other.archived /\ th.deleted = other.deleted /\ th.session = other.session
  BY Zenon, <1>1, <1>2 DEF SameRow
<1>4. /\ th.messages = other.messages /\ th.plans = other.plans
      /\ th.activities = other.activities /\ th.checkpoints = other.checkpoints
      /\ th.latestTurn = other.latestTurn
  BY Zenon, <1>1, <1>2 DEF SameItems, SameMessages, Shows, SamePlain
<1>5. \A f \in ThreadFields : th[f] = other[f]
  BY <1>3, <1>4 DEF ThreadFields
<1>6. [f \in ThreadFields |-> th[f]] = [f \in ThreadFields |-> other[f]]
  BY Zenon, <1>5
<1> QED BY Zenon, <1>1, <1>2, <1>6 DEF Record

LEMMA MirrorsAreSame ==
  ASSUME NoTurnRuns, NEW rows, NEW m, NEW n, Mirrors(m, rows), Mirrors(n, rows)
  PROVE  m = n
<1>1. \A t \in Threads : m.threads[t] = n.threads[t]
  <2>1. ASSUME NEW t \in Threads PROVE m.threads[t] = n.threads[t]
    <3>1. PICK th, other : th = m.threads[t] /\ other = n.threads[t]
      OBVIOUS
    <3>2. Agrees(th, rows, t) /\ Agrees(other, rows, t)
      BY Zenon, <3>1 DEF Mirrors
    <3> QED BY Zenon, <3>1, <3>2, SameRecords
  <2> QED BY Zenon, <2>1
<1>2. [t \in Threads |-> m.threads[t]] = [t \in Threads |-> n.threads[t]]
  BY Zenon, <1>1
<1>3. m.threads = n.threads /\ m.projects = n.projects
  BY Zenon, <1>2 DEF Mirrors
<1> QED BY Zenon, <1>3 DEF Mirrors

-----------------------------------------------------------------------------
(* An event at a time.                                                     *)
LEMMA OneMoreEvent ==
  ASSUME NEW m, NEW rows, NEW events \in Seq(StoredEvent), NEW e \in StoredEvent,
         NEW more, more = Append(events, e)
  PROVE  /\ FoldLeft(ProjectEvent, m, more) = ProjectEvent(FoldLeft(ProjectEvent, m, events), e)
         /\ FoldLeft(ApplyEvent, rows, more) = ApplyEvent(FoldLeft(ApplyEvent, rows, events), e)
<1>1. more = events \o <<e>> /\ <<e>> \in Seq(StoredEvent)
  OBVIOUS
<1>2. PICK one : one = <<e>>
  OBVIOUS
<1>0. PICK S, first, second : S = StoredEvent /\ first = events /\ second = one
  OBVIOUS
<1>s. first \in Seq(S) /\ second \in Seq(S)
  BY <1>0, <1>1, <1>2
<1>3. ModelFold!Fold(0, m, first \o second)
        = ModelFold!Fold(0, ModelFold!Fold(0, m, first), second)
  BY <1>s, ModelFoldLeast, ModelFold!FoldConcat
<1>4. TablesFold!Fold(0, rows, first \o second)
        = TablesFold!Fold(0, TablesFold!Fold(0, rows, first), second)
  BY <1>s, TablesFoldLeast, TablesFold!FoldConcat
<1>5. \A acc : ModelFold!Fold(0, acc, one) = ProjectEvent(acc, e)
  BY Zenon, <1>2, ModelFoldLeast, ModelFold!FoldOne DEF ModelStep
<1>6. \A acc : TablesFold!Fold(0, acc, one) = ApplyEvent(acc, e)
  BY Zenon, <1>2, TablesFoldLeast, TablesFold!FoldOne DEF TablesStep
<1>7. more = events \o one
  BY Zenon, <1>1, <1>2
<1>8. ModelFold!Fold(0, m, more) = ProjectEvent(ModelFold!Fold(0, m, events), e)
  BY Zenon, <1>0, <1>3, <1>5, <1>7
<1>9. TablesFold!Fold(0, rows, more) = ApplyEvent(TablesFold!Fold(0, rows, events), e)
  BY Zenon, <1>0, <1>4, <1>6, <1>7
<1> QED BY Zenon, <1>8, <1>9, ModelFoldIsFold, TablesFoldIsFold

LEMMA NoMoreEvents ==
  ASSUME NEW m, NEW rows
  PROVE  FoldLeft(ProjectEvent, m, <<>>) = m /\ FoldLeft(ApplyEvent, rows, <<>>) = rows
<1>1. PICK none : none = <<>>
  OBVIOUS
<1>2. ModelFold!Fold(0, m, none) = m
  BY Zenon, <1>1, ModelFoldLeast, ModelFold!FoldEmpty
<1>3. TablesFold!Fold(0, rows, none) = rows
  BY Zenon, <1>1, TablesFoldLeast, TablesFold!FoldEmpty
<1> QED BY Zenon, <1>1, <1>2, <1>3, ModelFoldIsFold, TablesFoldIsFold

(* Nothing is stored beyond the last event, and what is appended after it. *)
LEMMA NothingBeyond ==
  ASSUME NEW events \in Seq(StoredEvent), InSequence(events)
  PROVE  EventsAfter(events, LastSequence(events)) = <<>>
<1>1. Len(events) \in Nat /\ Len(events) \in 0..Len(events) /\ Len(events) <= Len(events)
  OBVIOUS
<1>2. EventsAfter(events, SeqAt(events, Len(events))) = Slice(events, Len(events), Len(events))
  BY <1>1, EventsAfterCursor
<1>3. Slice(events, Len(events), Len(events)) = <<>>
  BY <1>1, SliceEmpty
<1> QED BY Zenon, <1>2, <1>3, LastIsSeqAt

LEMMA AppendedBeyond ==
  ASSUME NEW events \in Seq(StoredEvent), NEW more \in Seq(StoredEvent),
         InSequence(events \o more)
  PROVE  EventsAfter(events \o more, SeqAt(events, Len(events))) = more
<1>1. PICK all : all = events \o more
  OBVIOUS
<1>2. /\ all \in Seq(StoredEvent) /\ Len(all) = Len(events) + Len(more)
      /\ Len(events) \in 0..Len(all)
      /\ \A i \in 1..Len(events) : all[i] = events[i]
  BY <1>1
<1>3. SeqAt(all, Len(events)) = SeqAt(events, Len(events))
  BY <1>2 DEF SeqAt
<1>4. EventsAfter(all, SeqAt(all, Len(events))) = Slice(all, Len(events), Len(all))
  BY <1>1, <1>2, EventsAfterCursor
<1>5. Slice(all, Len(events), Len(all)) = more
  BY <1>1, <1>2, SliceOfMore
<1> QED BY Zenon, <1>1, <1>3, <1>4, <1>5

(* What is left to read ends with the last event.                          *)
LEMMA LastBeyond ==
  ASSUME NEW events \in Seq(StoredEvent), InSequence(events), NEW n \in 0..Len(events),
         NEW found, found = EventsAfter(events, SeqAt(events, n)), found # <<>>
  PROVE  Last(found).sequence = LastSequence(events)
<1>1. found = Slice(events, n, Len(events)) /\ n \in Nat /\ Len(events) \in Nat
  BY EventsAfterCursor
<1>2. n # Len(events)
  BY <1>1, SliceEmpty
<1>n. n <= Len(events) /\ Len(events) <= Len(events) /\ Len(events) - n \in Nat \ {0}
  BY <1>1, <1>2
<1>f. /\ Len(found) = Len(events) - n
      /\ \A i \in 1..Len(events) - n : found[i] = events[n + i]
  <2>1. PICK m \in Nat : m = Len(events)
    BY <1>1
  <2>2. n <= m /\ m <= Len(events)
    BY <1>n, <2>1
  <2>3. /\ Len(Slice(events, n, m)) = m - n
        /\ \A i \in 1..m - n : Slice(events, n, m)[i] = events[n + i]
    BY Zenon, <1>1, <2>2, SliceFields
  <2> QED BY Zenon, <1>1, <2>1, <2>3
<1>3. /\ Len(found) \in 1..Len(events) - n /\ n + Len(found) = Len(events)
      /\ found[Len(found)] = events[n + Len(found)]
  BY <1>1, <1>n, <1>f
<1>4. Last(found) = events[Len(events)]
  BY <1>1, <1>3 DEF Last
<1>5. LastSequence(events) = SeqAt(events, Len(events)) /\ Len(events) # 0
  BY <1>1, <1>2, LastIsSeqAt
<1> QED BY Zenon, <1>4, <1>5 DEF SeqAt

-----------------------------------------------------------------------------
(* The tables a settled start begins with.                                 *)
TidyClaim(x, k, acc) == Tidy(acc) /\ FindsToo(EmptyTables, acc, x.events, k)
TidyFold == INSTANCE FoldLaws WITH Op <- TablesStep, P <- TidyClaim

LEMMA TidyFoldLeast == TidyFold!LeastMembers
BY LeastNatural DEF TidyFold!LeastMembers

LEMMA TidyFoldIsFold ==
  \A x, rows, events : TidyFold!Fold(x, rows, events) = FoldLeft(ApplyEvent, rows, events)
BY Zenon DEF TidyFold!Fold, TidyFold!Greatest, FoldLeft, MapThenFoldSet, Max, TablesStep

LEMMA SettledTidy ==
  ASSUME OneThreadPerItem, ItemShapes, StartsSettled, Init
  PROVE  Tidy(tables)
<1>1. PICK events \in Seq(StoredEvent) : events = InitialLog
  BY InitialLogAssumption
<1>x. PICK x : x = [events |-> events]
  OBVIOUS
<1>2. x.events = events /\ Len(events) \in Nat /\ DOMAIN events = 1..Len(events)
  BY <1>x
<1>3. TidyClaim(x, 0, EmptyTables)
  <2>1. FindsToo(EmptyTables, EmptyTables, events, 0)
    BY EmptyFinds, WithinAll DEF FindsToo
  <2> QED BY Zenon, <1>2, <2>1, EmptyTidy DEF TidyClaim
<1>4. ASSUME NEW k \in 1..Len(events), NEW acc, TidyClaim(x, k - 1, acc)
      PROVE  TidyClaim(x, k, TablesStep(x, acc, events[k]))
  <2>1. PICK e, next : e = events[k] /\ next = ApplyEvent(acc, e)
    OBVIOUS
  <2>2. Tidy(acc) /\ FindsToo(EmptyTables, acc, events, k - 1)
    BY Zenon, <1>2, <1>4 DEF TidyClaim
  <2>3. Shaped(acc) /\ \A s \in Streams :
          Found(acc, s) <=> Found(EmptyTables, s) \/ CreatedWithin(events, k - 1, s)
    BY Zenon, <2>2 DEF FindsToo
  <2>4. e \in StoredEvent /\ OwnStream(e) /\ Drafted(e) /\ e.stream \in Streams
    <3>1. k \in DOMAIN InitialLog /\ e = InitialLog[k]
      BY Zenon, <1>1, <1>2, <2>1
    <3>2. e \in StoredEvent
      BY <2>1
    <3>3. e.stream \in Streams
      BY <3>2 DEF StoredEvent, Streams
    <3> QED BY Zenon, <3>1, <3>2, <3>3, InitialLogDrafted, InitialLogAssumption
  <2>5. IsCreation(e.type) \/ Found(acc, e.stream)
    <3>1. PICK j \in 1..k : Creates(events[j], e.stream)
      BY <1>1, <1>2, <2>1 DEF StartsSettled, Creates
    <3>2. CASE j = k
      BY Zenon, <2>1, <3>1, <3>2 DEF Creates
    <3>3. CASE j # k
      <4>1. j \in 1..k - 1
        BY <3>3
      <4> QED BY Zenon, <2>3, <2>4, <3>1, <4>1 DEF CreatedWithin
    <3> QED BY Zenon, <3>2, <3>3
  <2>6. Takes(acc, e)
    BY Zenon, <2>4, <2>5 DEF Takes, Streams
  <2>7. Tidy(next)
    BY Zenon, <2>1, <2>2, <2>6, EventStaysTidy
  <2>8. Shaped(next)
    BY Zenon, <2>1, <2>3, <2>4, ApplyEventFinds
  <2>9. \A s \in Streams : Found(next, s) <=> Found(acc, s) \/ Creates(e, s)
    BY Zenon, <2>1, <2>3, <2>4, ApplyEventFinds
  <2>10. FindsToo(EmptyTables, next, events, k)
    BY <2>1, <2>3, <2>8, <2>9, WithinAll DEF FindsToo
  <2>11. TablesStep(x, acc, e) = next
    BY Zenon, <2>1 DEF TablesStep
  <2> QED BY Zenon, <1>2, <2>1, <2>7, <2>10, <2>11 DEF TidyClaim
<1>5. TidyClaim(x, Len(events), TidyFold!Fold(x, EmptyTables, events))
  BY Zenon, <1>3, <1>4, TidyFoldLeast, TidyFold!FoldInvariant
<1>6. Tidy(FoldLeft(ApplyEvent, EmptyTables, InitialLog))
  BY Zenon, <1>1, <1>5, TidyFoldIsFold DEF TidyClaim
<1>7. tables = FoldLeft(ApplyWhatIsRecorded, EmptyTables, InitialLog)
  BY Zenon DEF Init
<1>8. FoldLeft(ApplyWhatIsRecorded, EmptyTables, InitialLog)
        = FoldLeft(ApplyEvent, EmptyTables, InitialLog)
  BY Zenon, RecordedIsApplied DEF StartsSettled
<1> QED BY Zenon, <1>6, <1>7, <1>8

-----------------------------------------------------------------------------
(* The rows of a transaction, each in its place: a creation before all     *)
(* else, anything else of a stream the tables have or after its creation.  *)
Placed(rows, left, row) ==
  /\ Drafted(row.event)
  /\ IF IsCreation(row.event.type)
     THEN \A other \in left : other # row => row.rank < other.rank
     ELSE \/ Found(rows, row.event.stream)
          \/ \E other \in left : Creates(other.event, row.event.stream) /\ other.rank < row.rank
AllPlaced(rows, left) == \A row \in left : Placed(rows, left, row)
NoneMade(rows, left) ==
  \A row \in left : IsCreation(row.event.type) => ~Found(rows, row.event.stream)

LEMMA PlacedNext ==
  ASSUME NEW left \in SUBSET RowToInsert, NEW row \in left,
         \A other \in left : row.rank <= other.rank,
         NEW rows, AllPlaced(rows, left), NEW after,
         \A s \in Streams : Found(after, s) <=> Found(rows, s) \/ Creates(row.event, s)
  PROVE  /\ IsCreation(row.event.type) \/ Found(rows, row.event.stream)
         /\ AllPlaced(after, left \ {row}) /\ NoneMade(after, left \ {row})
<1>1. \A other \in left : /\ other.rank \in Nat /\ ~(other.rank < row.rank)
                          /\ other.event.stream \in Streams
  BY DEF RowToInsert, PlannedEvent, Streams
<1>2. IsCreation(row.event.type) \/ Found(rows, row.event.stream)
  BY Zenon, <1>1 DEF AllPlaced, Placed
<1>3. ASSUME NEW other \in left \ {row}
      PROVE  ~IsCreation(other.event.type) /\ Placed(after, left \ {row}, other)
  <2>1. ~IsCreation(other.event.type) /\ Drafted(other.event)
    BY Zenon, <1>1, <1>3 DEF AllPlaced, Placed
  <2>2. CASE Found(rows, other.event.stream)
    BY Zenon, <1>1, <2>1, <2>2 DEF Placed
  <2>3. CASE ~Found(rows, other.event.stream)
    <3>1. PICK first \in left : Creates(first.event, other.event.stream) /\ first.rank < other.rank
      BY Zenon, <2>1, <2>3 DEF AllPlaced, Placed
    <3>2. CASE first = row
      BY Zenon, <1>1, <2>1, <3>1, <3>2 DEF Placed
    <3>3. CASE first # row
      <4>1. first \in left \ {row}
        BY Zenon, <3>3
      <4> QED BY Zenon, <2>1, <3>1, <4>1 DEF Placed
    <3> QED BY Zenon, <3>2, <3>3
  <2> QED BY Zenon, <2>1, <2>2, <2>3
<1> QED BY Zenon, <1>2, <1>3 DEF AllPlaced, NoneMade

(* What an admitted command plans is placed, if the tables find all that   *)
(* the read model finds.                                                   *)
LEMMA PlanIsPlaced ==
  ASSUME NEW model, NEW cmd \in Commands, Admits(model, cmd), cmd.type # "chat.fork",
         NEW rows, \A s \in Streams : Found(model, s) => Found(rows, s),
         NEW left,
         left = {[event |-> Plan(model, cmd)[i], version |-> None, rank |-> i] :
                   i \in DOMAIN Plan(model, cmd)}
  PROVE  /\ AllPlaced(rows, left)
         /\ (\A s \in Streams : ~Found(model, s) => ~Found(rows, s)) => NoneMade(rows, left)
<1>1. PICK plan : plan = Plan(model, cmd)
  OBVIOUS
<1>2. plan \in Seq(PlannedEvent)
  BY Zenon, <1>1, PlanType
<1>3. /\ DOMAIN plan \subseteq Nat /\ (\A i \in DOMAIN plan : i > 1 => 1 \in DOMAIN plan /\ 1 < i)
      /\ \A i \in DOMAIN plan : i # 1 => 1 < i
  BY <1>2
<1>4. \A i \in DOMAIN plan : plan[i].stream \in Streams
  <2>1. \A i \in DOMAIN plan : plan[i] \in PlannedEvent
    BY <1>2
  <2> QED BY <2>1 DEF PlannedEvent, Streams
<1>5. \A i \in DOMAIN plan : PlannedWell(model, plan, i)
  BY Zenon, <1>1, PlanEvents
<1>6. \A i \in DOMAIN plan : Drafted(plan[i])
  BY Zenon, <1>1, PlannedDrafted
<1> DEFINE row(i) == [event |-> plan[i], version |-> None, rank |-> i]
<1>r. left = {row(i) : i \in DOMAIN plan}
  BY Zenon, <1>1
<1>v. \A i : row(i).event = plan[i] /\ row(i).rank = i
  OBVIOUS
<1> HIDE DEF row
<1>7. /\ \A r \in left : \E i \in DOMAIN plan : r.event = plan[i] /\ r.rank = i
      /\ \A i \in DOMAIN plan : \E r \in left : r.event = plan[i] /\ r.rank = i
      /\ \A r, q \in left : r.rank = q.rank => r = q
  <2>1. \A r \in left : \E i \in DOMAIN plan : r.event = plan[i] /\ r.rank = i /\ r = row(i)
    BY Zenon, <1>r, <1>v
  <2>2. \A i \in DOMAIN plan : \E r \in left : r.event = plan[i] /\ r.rank = i
    BY Zenon, <1>r, <1>v
  <2>3. ASSUME NEW r \in left, NEW q \in left, r.rank = q.rank PROVE r = q
    <3>1. PICK i \in DOMAIN plan : r.rank = i /\ r = row(i)
      BY Zenon, <2>1
    <3>2. PICK j \in DOMAIN plan : q.rank = j /\ q = row(j)
      BY Zenon, <2>1
    <3> QED BY Zenon, <2>3, <3>1, <3>2
  <2>4. \A r \in left : \E i \in DOMAIN plan : r.event = plan[i] /\ r.rank = i
    BY Zenon, <2>1
  <2> QED BY <2>2, <2>3, <2>4
<1>8. ASSUME NEW r \in left
      PROVE  /\ Placed(rows, left, r)
             /\ IsCreation(r.event.type) => ~Found(model, r.event.stream)
             /\ r.event.stream \in Streams
  <2>1. PICK i \in DOMAIN plan : r.event = plan[i] /\ r.rank = i
    BY Zenon, <1>7
  <2>2. PlannedWell(model, plan, i) /\ Drafted(plan[i]) /\ plan[i].stream \in Streams
    BY Zenon, <1>4, <1>5, <1>6
  <2>3. CASE IsCreation(plan[i].type)
    <3>1. i = 1 /\ ~Found(model, plan[i].stream)
      BY Zenon, <2>2, <2>3 DEF PlannedWell
    <3>2. ASSUME NEW other \in left, other # r PROVE r.rank < other.rank
      <4>1. PICK j \in DOMAIN plan : other.event = plan[j] /\ other.rank = j
        BY Zenon, <1>7
      <4>2. j # 1
        BY <1>7, <2>1, <3>1, <3>2, <4>1
      <4> QED BY Zenon, <1>3, <2>1, <3>1, <4>1, <4>2
    <3> QED BY Zenon, <2>1, <2>2, <2>3, <3>1, <3>2 DEF Placed
  <2>4. CASE ~IsCreation(plan[i].type) /\ Found(model, plan[i].stream)
    BY Zenon, <2>1, <2>2, <2>4 DEF Placed
  <2>5. CASE ~IsCreation(plan[i].type) /\ ~Found(model, plan[i].stream)
    <3>1. i > 1 /\ Creates(plan[1], plan[i].stream)
      BY Zenon, <2>2, <2>5 DEF PlannedWell
    <3>2. 1 \in DOMAIN plan /\ 1 < i
      BY Zenon, <1>3, <3>1
    <3>3. PICK first \in left : first.event = plan[1] /\ first.rank = 1
      BY Zenon, <1>7, <3>2
    <3> QED BY Zenon, <2>1, <2>2, <2>5, <3>1, <3>2, <3>3 DEF Placed
  <2> QED BY Zenon, <2>3, <2>4, <2>5
<1> QED BY Zenon, <1>8 DEF AllPlaced, NoneMade

-----------------------------------------------------------------------------
(* The invariant: the tables are tidy; the read model, with what is stored *)
(* beyond it applied, mirrors them; and so do, inside a transaction, the   *)
(* next read model and the tables that a commit would leave.               *)
RowsSoFar == FoldLeft(ApplyEvent, tables, saved)
CurrentModel == FoldLeft(ProjectEvent, readModel, EventsAfter(log, snapshotSequence))

TransactionFollows ==
  /\ Tidy(RowsSoFar) /\ AllPlaced(RowsSoFar, todo)
  /\ nextModel = FoldLeft(ProjectEvent, readModel, saved)
  /\ ~unreconciled => Mirrors(nextModel, RowsSoFar) /\ NoneMade(RowsSoFar, todo)
FollowsStore ==
  ~truncated =>
    /\ Tidy(tables)
    /\ Running /\ ~unreconciled => Mirrors(CurrentModel, tables)
    /\ phase = "append" => TransactionFollows

(* The read model is current whenever no failure is being recovered from.  *)
LEMMA CurrentIsModel ==
  ASSUME TypeOK, Cursors, Delivery, Running, ~unreconciled, ~truncated, phase # "recover"
  PROVE  CurrentModel = readModel
<1>1. log \in Seq(StoredEvent) /\ InSequence(log)
  BY VisibleLog DEF Cursors
<1>2. snapshotSequence = LastSequence(log)
  BY SnapshotIsLast
<1>3. EventsAfter(log, snapshotSequence) = <<>>
  BY Zenon, <1>1, <1>2, NothingBeyond
<1> QED BY Zenon, <1>3, NoMoreEvents DEF CurrentModel

(* Nothing the invariant looks at moves.                                   *)
LEMMA FollowsUnmoved ==
  ASSUME FollowsStore, log' = log, tables' = tables,
         readModel' = readModel, snapshotSequence' = snapshotSequence,
         Running' => Running, truncated => truncated',
         Running' => (unreconciled => unreconciled'),
         \/ phase' # "append"
         \/ /\ phase' = phase /\ saved' = saved /\ todo' = todo /\ nextModel' = nextModel
            /\ unreconciled' = unreconciled
  PROVE  FollowsStore'
<1>1. CurrentModel' = CurrentModel
  BY Zenon DEF CurrentModel
<1>2. ASSUME ~truncated' PROVE Tidy(tables')
  BY Zenon, <1>2 DEF FollowsStore
<1>3. ASSUME ~truncated', Running', ~unreconciled' PROVE Mirrors(CurrentModel', tables')
  BY Zenon, <1>1, <1>3 DEF FollowsStore
<1>4. ASSUME ~truncated', phase' = "append" PROVE TransactionFollows'
  <2>1. saved' = saved /\ todo' = todo /\ nextModel' = nextModel /\ unreconciled' = unreconciled
        /\ phase = "append" /\ ~truncated
    BY Zenon, <1>4
  <2>2. TransactionFollows
    BY Zenon, <2>1 DEF FollowsStore
  <2>3. RowsSoFar' = RowsSoFar
    BY Zenon, <2>1 DEF RowsSoFar
  <2>4. (nextModel = FoldLeft(ProjectEvent, readModel, saved))'
    BY Zenon, <2>1, <2>2 DEF TransactionFollows
  <2> QED BY Zenon, <2>1, <2>2, <2>3, <2>4 DEF TransactionFollows
<1> QED BY Zenon, <1>2, <1>3, <1>4 DEF FollowsStore

LEMMA FollowsLoad ==
  ASSUME TypeOK, Working, Cursors, Cursors', Delivery, FollowsStore, LoadSnapshot
  PROVE  FollowsStore'
<1>1. /\ readModel' = Snapshot(tables) /\ log' = log /\ tables' = tables
      /\ truncated' = truncated /\ phase' = "idle"
  BY DEF LoadSnapshot
<1>2. ASSUME ~truncated PROVE Tidy(tables) /\ Mirrors(CurrentModel', tables)
  <2>1. PICK r \in Nat : Delivering(r)'
    BY <1>1, <1>2, DeliveryLoad
  <2>2. snapshotSequence' = SeqAt(log, Len(log))
    BY <1>1, <2>1 DEF Delivering
  <2>3. log \in Seq(StoredEvent) /\ InSequence(log)
    BY VisibleLog DEF Cursors
  <2>4. EventsAfter(log, snapshotSequence') = <<>>
    BY Zenon, <2>2, <2>3, NothingBeyond, LastIsSeqAt
  <2>5. CurrentModel' = FoldLeft(ProjectEvent, Snapshot(tables), <<>>)
    BY Zenon, <1>1, <2>4 DEF CurrentModel
  <2>6. CurrentModel' = Snapshot(tables)
    BY Zenon, <2>5, NoMoreEvents
  <2>7. Tidy(tables)
    BY Zenon, <1>2 DEF FollowsStore
  <2> QED BY Zenon, <2>6, <2>7, SnapshotMirrors
<1>3. phase' # "append"
  BY <1>1
<1> QED BY Zenon, <1>1, <1>2, <1>3 DEF FollowsStore

LEMMA FollowsBegin ==
  ASSUME OneThreadPerItem, TypeOK, Cursors, Delivery, Existence, FollowsStore, BeginTransaction
  PROVE  FollowsStore'
<1>1. PICK cmd : cmd = Head(queue)
  OBVIOUS
<1>2. /\ cmd \in Commands /\ phase = "idle" /\ log' = log /\ tables' = tables /\ saved' = <<>>
      /\ readModel' = readModel /\ snapshotSequence' = snapshotSequence /\ nextModel' = readModel
      /\ unreconciled' = unreconciled /\ truncated' = truncated /\ phase' = "append"
      /\ todo' = RowsToInsert(cmd) /\ Admits(readModel, cmd)
  <2>1. Head(queue) \in Commands
    BY DEF TypeOK, BeginTransaction, Take
  <2> QED BY <1>1, <2>1 DEF BeginTransaction, Take, Acceptable
<1>3. cmd.type # "chat.fork"
  <2>1. PICK id \in CommandIds, r \in Requests : cmd = CommandFor(id, r)
    BY <1>2 DEF Commands
  <2>2. cmd.type = r.type /\ r.type # "chat.fork"
    BY <2>1 DEF CommandFor, OneThreadPerItem
  <2> QED BY <2>2
<1>4. CurrentModel' = CurrentModel
  BY Zenon, <1>2 DEF CurrentModel
<1>5. Running
  BY <1>2 DEF Running
<1> SUFFICES ASSUME ~truncated
             PROVE  /\ Tidy(tables) /\ (~unreconciled => Mirrors(CurrentModel, tables))
                    /\ TransactionFollows'
  BY Zenon, <1>2, <1>4 DEF FollowsStore
<1>6. Tidy(tables) /\ (~unreconciled => Mirrors(CurrentModel, tables))
  BY Zenon, <1>5 DEF FollowsStore
<1>7. RowsSoFar' = tables
  <2>1. RowsSoFar' = FoldLeft(ApplyEvent, tables, <<>>)
    BY Zenon, <1>2 DEF RowsSoFar
  <2> QED BY Zenon, <2>1, NoMoreEvents
<1>8. (nextModel = FoldLeft(ProjectEvent, readModel, saved))'
  BY Zenon, <1>2, NoMoreEvents
<1>9. ~unreconciled => Mirrors(readModel, tables)
  BY <1>2, <1>5, <1>6, CurrentIsModel
<1>10. log \in Seq(StoredEvent) /\ InSequence(log)
  BY VisibleLog DEF Cursors
<1>11. \A s \in Streams : CreatedIn(log, s) => Found(tables, s)
  <2>1. ASSUME NEW s \in Streams, CreatedIn(log, s) PROVE Found(tables, s)
    <3>1. applied[OwnerOf(s)] = LastSequence(log)
      BY <1>5, OwnerIsProjector DEF Cursors, AllApplied
    <3>2. CreatedBy(log, LastSequence(log), s)
      BY <1>10, <2>1, CreatedByLast
    <3> QED BY <3>1, <3>2 DEF Existence, TablesFind
  <2> QED BY <2>1
<1>12. \A s \in Streams : Found(readModel, s) => Found(tables, s)
  BY <1>5, <1>11 DEF Existence, ModelFinds
<1>13. ASSUME ~unreconciled PROVE \A s \in Streams : ~Found(readModel, s) => ~Found(tables, s)
  <2>1. \A s \in Streams : Found(readModel, s) <=> CreatedIn(log, s)
    BY <1>2, <1>5, <1>13, ModelKnowsLog DEF Existence
  <2> QED BY <2>1 DEF Existence, TablesFind
<1>14. PICK left, rows : left = RowsToInsert(cmd) /\ rows = tables
  OBVIOUS
<1>15. left = {[event |-> Plan(readModel, cmd)[i], version |-> None, rank |-> i] :
                 i \in DOMAIN Plan(readModel, cmd)}
  BY <1>3, <1>14 DEF RowsToInsert
<1>f. \A s \in Streams : Found(readModel, s) => Found(rows, s)
  BY Zenon, <1>12, <1>14
<1>16. AllPlaced(rows, left)
  BY Zenon, <1>2, <1>3, <1>f, <1>15, PlanIsPlaced
<1>17. (\A s \in Streams : ~Found(readModel, s) => ~Found(rows, s)) => NoneMade(rows, left)
  BY Zenon, <1>2, <1>3, <1>f, <1>15, PlanIsPlaced
<1>18. ~unreconciled => NoneMade(rows, left)
  BY Zenon, <1>13, <1>14, <1>17
<1>19. TransactionFollows'
  BY Zenon, <1>2, <1>6, <1>7, <1>8, <1>9, <1>14, <1>16, <1>18 DEF TransactionFollows
<1> QED BY Zenon, <1>6, <1>19

LEMMA FollowsAppend ==
  ASSUME OneThreadPerItem, ItemShapes, TypeOK, Existence, FollowsStore, AppendEvent
  PROVE  FollowsStore'
<1>1. PICK row \in todo, e \in StoredEvent :
        /\ NextRow(row) /\ e.stream = row.event.stream /\ e.type = row.event.type
        /\ e.arg = row.event.arg
        /\ saved' = Append(saved, e) /\ todo' = todo \ {row} /\ log' = log
        /\ phase = "append" /\ phase' = "append"
        /\ unreconciled' = unreconciled /\ truncated' = truncated
  BY AppendsRow
<1>2. /\ tables' = tables /\ readModel' = readModel /\ snapshotSequence' = snapshotSequence
      /\ saved \in Seq(StoredEvent) /\ todo \in SUBSET RowToInsert
  BY DEF AppendEvent, TypeOK
<1>3. nextModel' = ProjectEvent(nextModel, e)
  <2>1. PICK f : saved' = Append(saved, f) /\ nextModel' = ProjectEvent(nextModel, f)
    BY DEF AppendEvent
  <2>2. /\ Append(saved, f)[Len(saved) + 1] = f /\ Append(saved, e)[Len(saved) + 1] = e
    BY <1>2
  <2>3. f = e
    BY Zenon, <1>1, <2>1, <2>2
  <2> QED BY Zenon, <2>1, <2>3
<1>4. CurrentModel' = CurrentModel
  BY Zenon, <1>1, <1>2 DEF CurrentModel
<1>5. Running /\ Running'
  BY <1>1 DEF Running
<1> SUFFICES ASSUME ~truncated
             PROVE  /\ Tidy(tables) /\ (~unreconciled => Mirrors(CurrentModel, tables))
                    /\ TransactionFollows'
  BY Zenon, <1>1, <1>2, <1>4 DEF FollowsStore
<1>6. Tidy(tables) /\ (~unreconciled => Mirrors(CurrentModel, tables)) /\ TransactionFollows
  BY Zenon, <1>1, <1>5 DEF FollowsStore
<1>7. PICK rows, after, model, next :
        /\ rows = RowsSoFar /\ after = ApplyEvent(rows, e)
        /\ model = nextModel /\ next = ProjectEvent(model, e)
  OBVIOUS
<1>8. RowsSoFar' = after
  <2>1. FoldLeft(ApplyEvent, tables, Append(saved, e))
          = ApplyEvent(FoldLeft(ApplyEvent, tables, saved), e)
    BY Zenon, <1>2, OneMoreEvent
  <2> QED BY Zenon, <1>1, <1>2, <1>7, <2>1 DEF RowsSoFar
<1>9. (nextModel = FoldLeft(ProjectEvent, readModel, saved))' /\ nextModel' = next
  <2>1. FoldLeft(ProjectEvent, readModel, Append(saved, e))
          = ProjectEvent(FoldLeft(ProjectEvent, readModel, saved), e)
    BY Zenon, <1>2, OneMoreEvent
  <2>2. nextModel = FoldLeft(ProjectEvent, readModel, saved)
    BY Zenon, <1>6 DEF TransactionFollows
  <2> QED BY Zenon, <1>1, <1>2, <1>3, <1>7, <2>1, <2>2
<1>10. OwnStream(row.event) /\ OwnStreams(saved) /\ Shaped(tables)
  BY Zenon DEF Existence, Own, TablesFind
<1>11. e \in StoredEvent /\ OwnStream(e) /\ e.stream \in Streams
  <2>1. OwnStream(e)
    BY Zenon, <1>1, <1>10 DEF OwnStream
  <2> QED BY <2>1 DEF StoredEvent, Streams
<1>12. Shaped(rows)
  BY Zenon, <1>2, <1>7, <1>10, ApplyEventsFind DEF RowsSoFar
<1>13. \A s \in Streams : Found(after, s) <=> Found(rows, s) \/ Creates(e, s)
  BY Zenon, <1>7, <1>11, <1>12, ApplyEventFinds
<1>14. \A s \in Streams : Found(after, s) <=> Found(rows, s) \/ Creates(row.event, s)
  BY Zenon, <1>1, <1>13 DEF Creates
<1>15. \A other \in todo : row.rank <= other.rank
  BY Zenon, <1>1 DEF NextRow
<1>16. AllPlaced(rows, todo) /\ Tidy(rows)
  BY Zenon, <1>6, <1>7 DEF TransactionFollows
<1>17. IsCreation(row.event.type) \/ Found(rows, row.event.stream)
  BY Zenon, <1>2, <1>14, <1>15, <1>16, PlacedNext
<1>18. AllPlaced(after, todo \ {row})
  BY Zenon, <1>2, <1>14, <1>15, <1>16, PlacedNext
<1>19. NoneMade(after, todo \ {row})
  BY Zenon, <1>2, <1>14, <1>15, <1>16, PlacedNext
<1>20. Takes(rows, e)
  <2>1. Drafted(row.event)
    BY Zenon, <1>16 DEF AllPlaced, Placed
  <2>2. Drafted(e)
    BY Zenon, <1>1, <2>1 DEF Drafted
  <2> QED BY Zenon, <1>1, <1>11, <1>17, <2>2 DEF Takes, Streams
<1>21. Tidy(after)
  BY Zenon, <1>7, <1>16, <1>20, EventStaysTidy
<1>22. ASSUME ~unreconciled PROVE Mirrors(next, after)
  <2>1. Mirrors(model, rows) /\ NoneMade(rows, todo)
    BY Zenon, <1>6, <1>7, <1>22 DEF TransactionFollows
  <2>2. TakenByBoth(rows, e)
    BY Zenon, <1>1, <1>20, <2>1 DEF TakenByBoth, NoneMade
  <2> QED BY Zenon, <1>7, <1>16, <2>1, <2>2, EventMirrors
<1>23. TransactionFollows'
  BY Zenon, <1>1, <1>8, <1>9, <1>18, <1>19, <1>21, <1>22 DEF TransactionFollows
<1> QED BY Zenon, <1>6, <1>23

LEMMA FollowsCommit ==
  ASSUME TypeOK, Working, Cursors, Delivery, FollowsStore,
         CommitAcknowledged \/ CommitUnacknowledged
  PROVE  FollowsStore'
<1>1. /\ Commit /\ phase = "append" /\ phase' # "append"
      /\ unreconciled' = unreconciled /\ truncated' = truncated
  BY DEF CommitAcknowledged, CommitUnacknowledged, Commit
<1>2. Running
  BY <1>1 DEF Running
<1> SUFFICES ASSUME ~truncated
             PROVE  Tidy(tables') /\ (~unreconciled => Mirrors(CurrentModel', tables'))
  BY Zenon, <1>1 DEF FollowsStore
<1>3. TransactionFollows
  BY Zenon, <1>1 DEF FollowsStore
<1>4. tables' = RowsSoFar
  BY Zenon, <1>1 DEF Commit, RowsSoFar
<1>5. /\ log \in Seq(StoredEvent) /\ saved \in Seq(StoredEvent) /\ log' \in Seq(StoredEvent)
      /\ log' = log \o saved /\ InSequence(log') /\ Last(saved).sequence = LastSequence(log')
  BY <1>1, CommitLast DEF Cursors, TypeOK
<1>6. ASSUME ~unreconciled PROVE CurrentModel' = nextModel
  <2>1. CASE CommitAcknowledged
    <3>1. readModel' = nextModel /\ snapshotSequence' = LastSequence(log')
      BY <1>5, <2>1 DEF CommitAcknowledged
    <3>2. EventsAfter(log', snapshotSequence') = <<>>
      BY Zenon, <1>5, <3>1, NothingBeyond
    <3> QED BY Zenon, <3>1, <3>2, NoMoreEvents DEF CurrentModel
  <2>2. CASE CommitUnacknowledged
    <3>1. readModel' = readModel /\ snapshotSequence' = snapshotSequence
      BY <2>2 DEF CommitUnacknowledged
    <3>2. snapshotSequence = SeqAt(log, Len(log))
      BY <1>1, <1>2, <1>6, SnapshotIsLast
    <3>3. InSequence(log \o saved)
      BY Zenon, <1>5
    <3>4. EventsAfter(log \o saved, SeqAt(log, Len(log))) = saved
      BY Zenon, <1>5, <3>3, AppendedBeyond
    <3>5. EventsAfter(log', snapshotSequence') = saved
      BY Zenon, <1>5, <3>1, <3>2, <3>4
    <3> QED BY Zenon, <1>3, <3>1, <3>5 DEF CurrentModel, TransactionFollows
  <2> QED BY Zenon, <2>1, <2>2
<1> QED BY Zenon, <1>3, <1>4, <1>6 DEF TransactionFollows

LEMMA FollowsReconcile ==
  ASSUME TypeOK, Cursors, Delivery, FollowsStore, Reconcile
  PROVE  FollowsStore'
<1>1. PICK found : found = ReadFromSequence(startSequence)
  OBVIOUS
<1>2. /\ phase = "recover" /\ phase' = "publish" /\ log' = log /\ tables' = tables
      /\ truncated' = truncated /\ unreconciled' = (unreconciled \/ CutOff(startSequence))
  BY DEF Reconcile
<1>3. Running
  BY <1>2 DEF Running
<1>4. phase' # "append"
  BY <1>2
<1> SUFFICES ASSUME ~truncated
             PROVE  Tidy(tables) /\ (~unreconciled' => Mirrors(CurrentModel', tables))
  BY Zenon, <1>2, <1>4 DEF FollowsStore
<1>5. Tidy(tables) /\ (~unreconciled => Mirrors(CurrentModel, tables))
  BY Zenon, <1>3 DEF FollowsStore
<1>6. ASSUME ~unreconciled' PROVE ~unreconciled /\ CurrentModel' = CurrentModel
  <2>1. ~unreconciled /\ ~CutOff(startSequence)
    BY Zenon, <1>2, <1>6
  <2>2. found = EventsAfter(log, startSequence)
    BY Zenon, <1>1, <2>1 DEF CutOff
  <2>3. PICK r \in Nat : Delivering(r)
    BY <1>3, <2>1 DEF Delivery
  <2>4. PICK n : n = SentTo(r)
    OBVIOUS
  <2>5. log \in Seq(StoredEvent) /\ InSequence(log) /\ n \in 0..Len(log)
    BY <2>3, <2>4, VisibleLog, DeliveringFields DEF Cursors
  <2>6. startSequence = SeqAt(log, n) /\ snapshotSequence = SeqAt(log, n)
    BY <1>2, <2>3, <2>4 DEF Delivering
  <2>7. CASE found = <<>>
    <3>1. readModel' = readModel /\ snapshotSequence' = snapshotSequence
      BY <1>1, <2>7 DEF Reconcile
    <3> QED BY Zenon, <1>2, <2>1, <3>1 DEF CurrentModel
  <2>8. CASE found # <<>>
    <3>1. /\ readModel' = FoldLeft(ProjectEvent, readModel, found)
          /\ snapshotSequence' = Last(found).sequence
      BY Zenon, <1>1, <2>8 DEF Reconcile
    <3>2. found = EventsAfter(log, SeqAt(log, n))
      BY Zenon, <2>2, <2>6
    <3>3. Last(found).sequence = LastSequence(log)
      BY Zenon, <2>5, <2>8, <3>2, LastBeyond
    <3>4. EventsAfter(log', snapshotSequence') = <<>>
      BY Zenon, <1>2, <2>5, <3>1, <3>3, NothingBeyond
    <3>5. CurrentModel' = readModel'
      BY Zenon, <3>4, NoMoreEvents DEF CurrentModel
    <3>6. CurrentModel = FoldLeft(ProjectEvent, readModel, found)
      BY Zenon, <2>6, <3>2 DEF CurrentModel
    <3> QED BY Zenon, <2>1, <3>1, <3>5, <3>6
  <2> QED BY Zenon, <2>7, <2>8
<1> QED BY Zenon, <1>5, <1>6

LEMMA FollowsStoreKept ==
  ASSUME OneThreadPerItem, ItemShapes, TypeOK, Working, Cursors, Delivery, Existence,
         Following, FollowsStore, [Next]_vars
  PROVE  FollowsStore'
<1>1. CASE StartServer \/ BootstrapNext
  <2>1. /\ log' = log /\ tables' = tables /\ readModel' = readModel
        /\ snapshotSequence' = snapshotSequence /\ ~Running' /\ phase' # "append"
        /\ ~Crash
    BY <1>1 DEF StartServer, BootstrapNext, Running, Crash
  <2>2. truncated => truncated'
    BY <2>1, HistoryKept
  <2> QED BY Zenon, <2>1, <2>2, FollowsUnmoved
<1>2. CASE BootstrapEvent
  BY <1>2 DEF BootstrapEvent, Following
<1>3. CASE LoadSnapshot
  BY Zenon, <1>3, CursorsKept, FollowsLoad
<1>4. CASE Crash
  <2>1. /\ log' = log /\ tables' = tables /\ truncated' = truncated
        /\ ~Running' /\ phase' # "append"
    BY <1>4 DEF Crash, Running
  <2> QED BY Zenon, <2>1 DEF FollowsStore
<1>5. CASE BeginTransaction
  BY Zenon, <1>5, FollowsBegin
<1>6. CASE AppendEvent
  BY Zenon, <1>6, FollowsAppend
<1>7. CASE CommitAcknowledged \/ CommitUnacknowledged
  BY Zenon, <1>7, FollowsCommit
<1>8. CASE Reconcile
  BY Zenon, <1>8, FollowsReconcile
<1>9. CASE Client \/ ReplayReceipt \/ PublishEvent \/ UNCHANGED vars
  <2>1. /\ log' = log /\ tables' = tables /\ readModel' = readModel
        /\ snapshotSequence' = snapshotSequence /\ phase' = phase /\ saved' = saved
        /\ todo' = todo /\ nextModel' = nextModel /\ unreconciled' = unreconciled
        /\ truncated' = truncated
    BY <1>9 DEF Client, Redispatch, Dispatch, Enqueue, ReplayReceipt, PublishEvent, vars
  <2>2. Running' => Running
    BY <2>1 DEF Running
  <2> QED BY Zenon, <2>1, <2>2, FollowsUnmoved
<1>10. CASE \/ BreakInvariant \/ FailLookup \/ ViolateUnique \/ FailTransaction \/ FailReconcile
            \/ RecordRejection \/ AnswerClient
  <2>1. /\ log' = log /\ tables' = tables /\ readModel' = readModel
        /\ snapshotSequence' = snapshotSequence /\ Running /\ phase' # "append" /\ ~Crash
    BY <1>10 DEF BreakInvariant, FailLookup, Take, ViolateUnique, FailTransaction, Rollback,
       FailReconcile, RecordRejection, AnswerClient, Running, Crash
  <2>2. (truncated => truncated') /\ (unreconciled => unreconciled')
    BY <2>1, HistoryKept
  <2> QED BY Zenon, <2>1, <2>2, FollowsUnmoved
<1> QED BY Zenon, <1>1, <1>2, <1>3, <1>4, <1>5, <1>6, <1>7, <1>8, <1>9, <1>10
        DEF Next, Startup, Process, StorageFailure

LEMMA FollowsStoreReachable ==
  ASSUME OneThreadPerItem, ItemShapes, StartsSettled
  PROVE  Spec => [](TypeOK /\ Working /\ Cursors /\ Delivery /\ Existence /\ Following
                    /\ FollowsStore)
<1>1. Init => Following /\ FollowsStore
  <2> SUFFICES ASSUME Init PROVE Following /\ FollowsStore
    OBVIOUS
  <2>1. Following
    <3>1. tables = FoldLeft(ApplyWhatIsRecorded, EmptyTables, InitialLog) /\ log = InitialLog
      BY Zenon DEF Init
    <3>2. tables = FoldLeft(ApplyEvent, EmptyTables, log)
      BY Zenon, <3>1, RecordedIsApplied DEF StartsSettled
    <3>3. (\A p \in ProjectorSet : applied[p] = LastSequence(log)) /\ phase # "bootstrap"
      BY DEF Init, StartsSettled
    <3> QED BY Zenon, <3>2, <3>3 DEF Following
  <2>2. Tidy(tables)
    BY Zenon, SettledTidy
  <2>3. ~Running /\ phase # "append"
    BY DEF Init, Running
  <2> QED BY Zenon, <2>1, <2>2, <2>3 DEF FollowsStore
<1>2. TypeOK /\ TypeOK' /\ Working /\ Cursors /\ Following /\ [Next]_vars => Following'
  BY FollowingKept DEF Cursors
<1>3. /\ TypeOK /\ Working /\ Cursors /\ Delivery /\ Existence /\ Following /\ FollowsStore
      /\ [Next]_vars
      => FollowsStore'
  BY Zenon, FollowsStoreKept
<1> QED BY <1>1, <1>2, <1>3, ExistenceReachable, PTL DEF Spec

(* Where turns are told apart, a restart changes no verdict: between two   *)
(* commands, after whatever failures were read back, the read model that   *)
(* the projector kept and the one a restarted server would load from the   *)
(* rows the SQL statements kept decide every command alike.                *)
THEOREM RestartsKeepVerdicts ==
  ASSUME OneThreadPerItem, ItemShapes, TurnsToldApart, StartsSettled
  PROVE  Spec => []RestartKeepsVerdicts
<1>1. TypeOK /\ Cursors /\ Delivery /\ FollowsStore => RestartKeepsVerdicts
  <2> SUFFICES ASSUME TypeOK, Cursors, Delivery, FollowsStore,
                      phase = "idle", ~unreconciled, ~truncated
               PROVE  AdmissionView(readModel) = AdmissionView(Snapshot(tables))
    BY Zenon DEF RestartKeepsVerdicts
  <2>1. Running /\ phase # "recover"
    BY DEF Running
  <2>2. CurrentModel = readModel
    BY Zenon, <2>1, CurrentIsModel
  <2>3. Mirrors(readModel, tables) /\ Tidy(tables)
    BY Zenon, <2>1, <2>2 DEF FollowsStore
  <2>4. Mirrors(Snapshot(tables), tables)
    BY Zenon, <2>3, SnapshotMirrors
  <2> QED BY Zenon, <2>3, <2>4, MirrorsDecideAlike
<1> QED BY <1>1, FollowsStoreReachable, PTL

(* Where no turn runs, the two are one and the same: between two commands  *)
(* the read model is the snapshot of the tables, and read model, tables    *)
(* and every cursor reflect the whole log.                                 *)
THEOREM MemoryFollowsTheStore ==
  ASSUME OneThreadPerItem, ItemShapes, NoTurnRuns, StartsSettled
  PROVE  Spec => []MemoryMatchesStore
<1>1. TypeOK /\ Cursors /\ Delivery /\ FollowsStore => MemoryMatchesStore
  <2> SUFFICES ASSUME TypeOK, Cursors, Delivery, FollowsStore,
                      phase = "idle", ~unreconciled, ~truncated
               PROVE  /\ snapshotSequence = LastSequence(log)
                      /\ readModel = Snapshot(tables)
                      /\ \A p \in ProjectorSet : applied[p] = LastSequence(log)
    BY Zenon DEF MemoryMatchesStore
  <2>1. Running /\ phase # "recover"
    BY DEF Running
  <2>2. CurrentModel = readModel
    BY Zenon, <2>1, CurrentIsModel
  <2>3. Mirrors(readModel, tables) /\ Tidy(tables)
    BY Zenon, <2>1, <2>2 DEF FollowsStore
  <2>4. Mirrors(Snapshot(tables), tables)
    BY Zenon, <2>3, SnapshotMirrors
  <2>5. readModel = Snapshot(tables)
    BY Zenon, <2>3, <2>4, MirrorsAreSame
  <2>6. snapshotSequence = LastSequence(log)
    BY <2>1, SnapshotIsLast
  <2>7. \A p \in ProjectorSet : applied[p] = LastSequence(log)
    BY <2>1 DEF Cursors, AllApplied
  <2> QED BY Zenon, <2>5, <2>6, <2>7
<1> QED BY <1>1, FollowsStoreReachable, PTL
=============================================================================
