------------------------------- MODULE FoldLaws -------------------------------
(***************************************************************************)
(* What a fold over a sequence computes.  The community modules define     *)
(* FoldLeft by a recursive function over subsets of the domain; Fold is    *)
(* that function written out, so that an instance of this module brings    *)
(* none of theirs along.  These are the laws the engine's proofs use.  They*)
(* hold for every operator: Op is the one folded and P what is claimed of  *)
(* the accumulator, both with a first argument for what else they depend   *)
(* on.  They are proved by induction, so their hypothesis is that a        *)
(* nonempty set of naturals has a least member; whoever takes an instance  *)
(* has that from the library, and the instance need not carry the library. *)
(***************************************************************************)
EXTENDS Naturals, Sequences, TLAPS

CONSTANTS Op(_, _, _), P(_, _, _)

(* Max and FoldLeft of the community modules.                              *)
Greatest(S) == CHOOSE n \in S : \A m \in S : n >= m

Fold(x, base, s) ==
  LET it[set \in SUBSET DOMAIN s] ==
        IF set = {} THEN base
        ELSE LET n == Greatest(set) IN Op(x, it[set \ {n}], s[n])
  IN  it[DOMAIN s]

LeastMembers == \A S \in SUBSET Nat : S # {} => \E n \in S : \A m \in S : n <= m

-----------------------------------------------------------------------------
(* The function FoldLeft is defined by.                                    *)
Step(x, base, s, it, set) ==
  IF set = {} THEN base ELSE Op(x, it[set \ {Greatest(set)}], s[Greatest(set)])
Iterates(x, base, s, n, it) == it = [set \in SUBSET (1..n) |-> Step(x, base, s, it, set)]

LEMMA GreatestOf ==
  ASSUME NEW n \in Nat, NEW set \in SUBSET (1..n + 1)
  PROVE  /\ n + 1 \in set => Greatest(set) = n + 1
         /\ n + 1 \notin set => set \in SUBSET (1..n)
<1>1. ASSUME n + 1 \in set PROVE Greatest(set) = n + 1
  <2>1. n + 1 \in set /\ \A y \in set : n + 1 >= y
    BY <1>1
  <2>2. Greatest(set) \in set /\ \A y \in set : Greatest(set) >= y
    BY <2>1 DEF Greatest
  <2>3. Greatest(set) \in 1..n + 1 /\ Greatest(set) >= n + 1
    BY <2>1, <2>2
  <2> QED BY <2>3
<1> QED BY <1>1

LEMMA IterationExists ==
  ASSUME LeastMembers, NEW x, NEW base, NEW s, NEW n \in Nat
  PROVE  \E it : Iterates(x, base, s, n, it)
<1> DEFINE Good(k) == \E it : Iterates(x, base, s, k, it)
           Bad == {k \in Nat : ~Good(k)}
<1>1. Good(0)
  <2> DEFINE it == [set \in SUBSET (1..0) |-> base]
  <2>1. \A set \in SUBSET (1..0) : Step(x, base, s, it, set) = base
    <3>1. \A set \in SUBSET (1..0) : set = {}
      OBVIOUS
    <3> HIDE DEF it
    <3> QED BY <3>1 DEF Step
  <2>2. it = [set \in SUBSET (1..0) |-> Step(x, base, s, it, set)]
    <3> DEFINE value(set) == Step(x, base, s, it, set)
    <3>1. \A set \in SUBSET (1..0) : base = value(set)
      BY <2>1
    <3> HIDE DEF value
    <3>2. it = [set \in SUBSET (1..0) |-> value(set)]
      BY <3>1
    <3> QED BY <3>2 DEF value
  <2> HIDE DEF it
  <2> QED BY <2>2 DEF Iterates
<1>2. ASSUME NEW k \in Nat, Good(k) PROVE Good(k + 1)
  <2>1. PICK it : Iterates(x, base, s, k, it)
    BY <1>2
  <2> DEFINE next == [set \in SUBSET (1..k + 1) |->
                        IF k + 1 \in set THEN Op(x, it[set \ {k + 1}], s[k + 1]) ELSE it[set]]
  <2>2. ASSUME NEW set \in SUBSET (1..k + 1)
        PROVE  next[set] = Step(x, base, s, next, set)
    <3>1. CASE k + 1 \in set
      <4>1. set \ {k + 1} \in SUBSET (1..k + 1) /\ k + 1 \notin set \ {k + 1}
        OBVIOUS
      <4>2. next[set \ {k + 1}] = it[set \ {k + 1}]
        BY <4>1
      <4>3. next[set] = Op(x, it[set \ {k + 1}], s[k + 1])
        BY <3>1
      <4> HIDE DEF next
      <4>4. Greatest(set) = k + 1 /\ set # {}
        BY <3>1, GreatestOf
      <4> QED BY <4>2, <4>3, <4>4 DEF Step
    <3>2. CASE k + 1 \notin set
      <4>1. next[set] = it[set]
        BY <3>2
      <4>2. set \in SUBSET (1..k)
        BY <3>2, GreatestOf
      <4>3. it[set] = Step(x, base, s, it, set)
        <5> DEFINE value(v) == Step(x, base, s, it, v)
        <5>1. it = [v \in SUBSET (1..k) |-> value(v)]
          BY <2>1 DEF Iterates
        <5> HIDE DEF value
        <5>2. it[set] = value(set)
          BY <4>2, <5>1
        <5> QED BY <5>2 DEF value
      <4>4. next[set \ {Greatest(set)}] = it[set \ {Greatest(set)}]
        <5>1. set \ {Greatest(set)} \in SUBSET (1..k + 1) /\ k + 1 \notin set \ {Greatest(set)}
          BY <3>2
        <5> QED BY <5>1
      <4> HIDE DEF next
      <4> QED BY <4>1, <4>3, <4>4 DEF Step
    <3> QED BY <3>1, <3>2
  <2>3. next = [set \in SUBSET (1..k + 1) |-> next[set]]
    OBVIOUS
  <2> HIDE DEF next
  <2>4. next = [set \in SUBSET (1..k + 1) |-> Step(x, base, s, next, set)]
    <3> DEFINE value(set) == Step(x, base, s, next, set)
    <3>1. \A set \in SUBSET (1..k + 1) : next[set] = value(set)
      BY <2>2
    <3> HIDE DEF value
    <3>2. next = [set \in SUBSET (1..k + 1) |-> value(set)]
      BY <2>3, <3>1
    <3> QED BY <3>2 DEF value
  <2> QED BY <2>4 DEF Iterates
<1>3. Good(n)
  <2> SUFFICES ASSUME ~Good(n) PROVE FALSE
    OBVIOUS
  <2> HIDE DEF Good
  <2>1. Bad \in SUBSET Nat /\ Bad # {}
    OBVIOUS
  <2>2. PICK k \in Bad : \A j \in Bad : k <= j
    BY <2>1 DEF LeastMembers
  <2>3. \A j \in Bad : ~(j < k)
    BY <2>2
  <2>4. k \in Nat /\ ~Good(k) /\ k # 0
    BY <1>1
  <2>5. k - 1 \in Nat /\ k - 1 < k /\ (k - 1) + 1 = k
    BY <2>4
  <2>6. Good(k - 1)
    BY <2>3, <2>5
  <2>7. Good((k - 1) + 1)
    BY <1>2, <2>5, <2>6
  <2> QED BY <2>4, <2>5, <2>7
<1> QED BY <1>3

(* The values an iteration takes on the initial segments of its domain.    *)
Steps(x, base, s, n, it) ==
  /\ it[1..0] = base
  /\ \A k \in 1..n : it[1..k] = Op(x, it[1..k - 1], s[k])

LEMMA IterationSteps ==
  ASSUME NEW x, NEW base, NEW s, NEW n \in Nat, NEW it, Iterates(x, base, s, n, it)
  PROVE  Steps(x, base, s, n, it)
<1> DEFINE value(v) == Step(x, base, s, it, v)
<1>1. it = [v \in SUBSET (1..n) |-> value(v)]
  BY DEF Iterates
<1>2. \A v \in SUBSET (1..n) : it[v] = value(v)
  <2> HIDE DEF value
  <2> QED BY <1>1
<1>3. it[1..0] = base
  <2>1. 1..0 = {} /\ 1..0 \in SUBSET (1..n)
    OBVIOUS
  <2>2. it[1..0] = Step(x, base, s, it, 1..0)
    BY <1>2, <2>1
  <2> QED BY <2>1, <2>2 DEF Step
<1>4. ASSUME NEW k \in 1..n PROVE it[1..k] = Op(x, it[1..k - 1], s[k])
  <2>1. 1..k \in SUBSET (1..n) /\ 1..k # {} /\ (1..k) \ {k} = 1..k - 1
    OBVIOUS
  <2>2. Greatest(1..k) = k
    <3>1. PICK j \in Nat : k = j + 1
      <4>1. k - 1 \in Nat /\ k = (k - 1) + 1
        OBVIOUS
      <4> QED BY <4>1
    <3>2. 1..j + 1 \in SUBSET (1..j + 1) /\ j + 1 \in 1..j + 1
      BY <3>1
    <3>3. Greatest(1..j + 1) = j + 1
      BY <3>2, GreatestOf
    <3> QED BY <3>1, <3>3
  <2>3. it[1..k] = Step(x, base, s, it, 1..k)
    BY <1>2, <2>1
  <2>4. Step(x, base, s, it, 1..k) = Op(x, it[(1..k) \ {Greatest(1..k)}], s[Greatest(1..k)])
    BY <2>1 DEF Step
  <2> QED BY <2>1, <2>2, <2>3, <2>4
<1> QED BY <1>3, <1>4 DEF Steps

(* A fold is where such an iteration ends.                                 *)
Iterated(x, base, s, n) == \E it : Steps(x, base, s, n, it) /\ Fold(x, base, s) = it[1..n]

LEMMA FoldIterates ==
  ASSUME LeastMembers, NEW x, NEW base, NEW s, NEW n \in Nat, DOMAIN s = 1..n
  PROVE  Iterated(x, base, s, n)
<1> DEFINE Defines(it) ==
      it = [set \in SUBSET (1..n) |->
              IF set = {} THEN base
              ELSE LET k == Greatest(set) IN Op(x, it[set \ {k}], s[k])]
           it == CHOOSE it : Defines(it)
<1>1. Fold(x, base, s) = it[1..n]
  BY Zenon DEF Fold
<1>2. \A f : Iterates(x, base, s, n, f) <=> Defines(f)
  BY Zenon DEF Iterates, Step
<1>3. \E f : Defines(f)
  BY Zenon, <1>2, IterationExists
<1>4. Defines(it)
  <2> HIDE DEF Defines
  <2> QED BY Zenon, <1>3
<1> HIDE DEF Defines, it
<1>5. Steps(x, base, s, n, it)
  BY Zenon, <1>2, <1>4, IterationSteps
<1> QED BY <1>1, <1>5 DEF Iterated

-----------------------------------------------------------------------------
(* A fold over nothing is its base.                                        *)
LEMMA FoldOfNone ==
  ASSUME LeastMembers, NEW x, NEW base, NEW s, DOMAIN s = 1..0
  PROVE  Fold(x, base, s) = base
<1>1. 0 \in Nat
  OBVIOUS
<1>2. \E it : Steps(x, base, s, 0, it) /\ Fold(x, base, s) = it[1..0]
  BY <1>1, FoldIterates DEF Iterated
<1>3. PICK it : Steps(x, base, s, 0, it) /\ Fold(x, base, s) = it[1..0]
  BY Zenon, <1>2
<1> QED BY <1>3 DEF Steps

LEMMA FoldEmpty ==
  ASSUME LeastMembers, NEW x, NEW base, NEW s, s = <<>>
  PROVE  Fold(x, base, s) = base
<1>1. DOMAIN s = 1..0
  OBVIOUS
<1> QED BY Zenon, <1>1, FoldOfNone

LEMMA FoldOne ==
  ASSUME LeastMembers, NEW x, NEW base, NEW e
  PROVE  Fold(x, base, <<e>>) = Op(x, base, e)
<1> DEFINE s == <<e>>
<1>1. s[1] = e /\ 1 \in 1..1 /\ 1 - 1 = 0
  OBVIOUS
<1>a. 1 \in Nat /\ DOMAIN s = 1..1
  OBVIOUS
<1> HIDE DEF s
<1>2. PICK it : Steps(x, base, s, 1, it) /\ Fold(x, base, s) = it[1..1]
  BY Zenon, <1>a, FoldIterates DEF Iterated
<1>3. it[1..0] = base /\ it[1..1] = Op(x, it[1..1 - 1], s[1])
  BY <1>1, <1>2 DEF Steps
<1> QED BY <1>1, <1>2, <1>3 DEF s

(* What the base has and every step keeps, the fold has.                   *)
LEMMA FoldInvariant ==
  ASSUME LeastMembers, NEW x, NEW base, NEW S, NEW s \in Seq(S), P(x, 0, base),
         \A k \in 1..Len(s) : \A acc : P(x, k - 1, acc) => P(x, k, Op(x, acc, s[k]))
  PROVE  P(x, Len(s), Fold(x, base, s))
<1> DEFINE n == Len(s)
<1>1. n \in Nat /\ DOMAIN s = 1..n
  OBVIOUS
<1>2. PICK it : Steps(x, base, s, n, it) /\ Fold(x, base, s) = it[1..n]
  BY Zenon, <1>1, FoldIterates DEF Iterated
<1>3. it[1..0] = base /\ \A k \in 1..n : it[1..k] = Op(x, it[1..k - 1], s[k])
  BY <1>2 DEF Steps
<1> DEFINE Bad == {k \in 0..n : ~P(x, k, it[1..k])}
<1>4. P(x, n, it[1..n])
  <2> SUFFICES ASSUME ~P(x, n, it[1..n]) PROVE FALSE
    OBVIOUS
  <2>1. Bad \in SUBSET Nat /\ Bad # {}
    BY <1>1
  <2>2. PICK k \in Bad : \A j \in Bad : k <= j
    BY <2>1 DEF LeastMembers
  <2>3. \A j \in Bad : ~(j < k)
    BY <2>1, <2>2
  <2>4. k \in 0..n /\ ~P(x, k, it[1..k]) /\ k # 0
    BY <1>3
  <2>5. k \in 1..n /\ k - 1 \in 0..n /\ k - 1 < k
    BY <1>1, <2>4
  <2>6. P(x, k - 1, it[1..k - 1])
    BY <2>3, <2>5
  <2>7. P(x, k, Op(x, it[1..k - 1], s[k]))
    BY <2>5, <2>6
  <2> QED BY <1>3, <2>4, <2>5, <2>7
<1> QED BY <1>2, <1>4

(* A fold over a concatenation goes on where the fold over its first part  *)
(* stopped.                                                                *)
LEMMA FoldConcat ==
  ASSUME LeastMembers, NEW x, NEW base, NEW S, NEW s \in Seq(S), NEW t \in Seq(S)
  PROVE  Fold(x, base, s \o t) = Fold(x, Fold(x, base, s), t)
<1> DEFINE n == Len(s)  m == Len(t)  st == s \o t
<1>1. /\ n \in Nat /\ m \in Nat /\ DOMAIN s = 1..n /\ DOMAIN t = 1..m /\ DOMAIN st = 1..n + m
      /\ \A k \in 1..n : st[k] = s[k]
      /\ \A k \in 1..m : st[n + k] = t[k]
  OBVIOUS
<1> HIDE DEF n, m, st
<1>a. n \in Nat /\ DOMAIN s = 1..n
  BY <1>1
<1>b. m \in Nat /\ DOMAIN t = 1..m
  BY <1>1
<1>2. PICK is : Steps(x, base, s, n, is) /\ Fold(x, base, s) = is[1..n]
  BY Zenon, <1>a, FoldIterates DEF Iterated
<1> DEFINE mid == Fold(x, base, s)
<1> HIDE DEF mid
<1>3. PICK it : Steps(x, mid, t, m, it) /\ Fold(x, mid, t) = it[1..m]
  BY <1>b, FoldIterates DEF Iterated
<1>4. PICK w \in Nat : w = n + m
  BY <1>1
<1>c. DOMAIN st = 1..w
  BY <1>1, <1>4
<1>d. PICK ist : Steps(x, base, st, w, ist) /\ Fold(x, base, st) = ist[1..w]
  BY <1>4, <1>c, FoldIterates DEF Iterated
<1>5. Steps(x, base, st, n + m, ist) /\ Fold(x, base, st) = ist[1..n + m]
  BY <1>4, <1>d
<1>6. is[1..0] = base /\ \A k \in 1..n : is[1..k] = Op(x, is[1..k - 1], s[k])
  BY <1>2 DEF Steps
<1>7. it[1..0] = mid /\ \A k \in 1..m : it[1..k] = Op(x, it[1..k - 1], t[k])
  BY <1>3 DEF Steps
<1>8. ist[1..0] = base /\ \A k \in 1..n + m : ist[1..k] = Op(x, ist[1..k - 1], st[k])
  BY <1>5 DEF Steps
<1> DEFINE Agree(k) == ist[1..k] = IF k <= n THEN is[1..k] ELSE it[1..k - n]
           Bad == {k \in 0..n + m : ~Agree(k)}
<1>9. Agree(n + m)
  <2> SUFFICES ASSUME ~Agree(n + m) PROVE FALSE
    OBVIOUS
  <2>0. Agree(0)
    BY <1>1, <1>6, <1>8
  <2>1. ASSUME NEW k \in 1..n + m, Agree(k - 1) PROVE Agree(k)
    <3>1. ist[1..k] = Op(x, ist[1..k - 1], st[k])
      BY <1>8
    <3>2. CASE k <= n
      <4>1. k \in 1..n /\ k - 1 <= n
        BY <1>1, <3>2
      <4>2. ist[1..k - 1] = is[1..k - 1]
        BY <2>1, <4>1
      <4>3. st[k] = s[k] /\ is[1..k] = Op(x, is[1..k - 1], s[k])
        BY <1>1, <1>6, <4>1
      <4> QED BY <3>1, <3>2, <4>2, <4>3
    <3>3. CASE k > n
      <4>1. k - n \in 1..m /\ n + (k - n) = k /\ (k - 1) - n = (k - n) - 1 /\ ~(k <= n)
        BY <1>1, <3>3
      <4>2. ist[1..k - 1] = it[1..(k - n) - 1]
        <5>1. CASE k - 1 <= n
          <6>1. k - 1 = n /\ (k - n) - 1 = 0
            BY <1>1, <3>3, <5>1
          <6>2. ist[1..k - 1] = is[1..k - 1]
            BY <2>1, <5>1
          <6> QED BY <1>2, <1>7, <6>1, <6>2 DEF mid
        <5>2. CASE ~(k - 1 <= n)
          BY <2>1, <4>1, <5>2
        <5> QED BY <5>1, <5>2
      <4>3. st[n + (k - n)] = t[k - n] /\ it[1..k - n] = Op(x, it[1..(k - n) - 1], t[k - n])
        BY <1>1, <1>7, <4>1
      <4> QED BY <3>1, <4>1, <4>2, <4>3
    <3> QED BY <1>1, <3>2, <3>3
  <2> HIDE DEF Agree
  <2>2. Bad \in SUBSET Nat /\ Bad # {}
    BY <1>1
  <2>3. PICK k \in Bad : \A j \in Bad : k <= j
    BY <2>2 DEF LeastMembers
  <2>4. \A j \in Bad : ~(j < k)
    BY <2>2, <2>3
  <2>5. k \in 0..n + m /\ ~Agree(k) /\ k # 0
    BY <2>0
  <2>6. k \in 1..n + m /\ k - 1 \in 0..n + m /\ k - 1 < k
    BY <1>1, <2>5
  <2>7. Agree(k - 1)
    BY <2>4, <2>6
  <2> QED BY <2>1, <2>5, <2>6, <2>7
<1>10. CASE m = 0
  <2>1. ist[1..n + m] = is[1..n] /\ it[1..m] = mid
    BY <1>1, <1>7, <1>9, <1>10
  <2> QED BY <1>2, <1>3, <1>5, <2>1 DEF st, mid
<1>11. CASE m # 0
  <2>1. ~(n + m <= n) /\ (n + m) - n = m
    BY <1>1, <1>11
  <2>2. ist[1..n + m] = it[1..m]
    BY <1>9, <2>1
  <2> QED BY <1>3, <1>5, <2>2 DEF st, mid
<1> QED BY <1>10, <1>11
=============================================================================
