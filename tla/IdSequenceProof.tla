-------------------------- MODULE IdSequenceProof ---------------------------
(***************************************************************************)
(* What the id generators return, for every set of numbers in use and every*)
(* value of the constants.  A finite set of numbers is bounded; boundedness*)
(* is what these facts need.  Induction in this project is LeastExists: of *)
(* the numbers a statement fails for, none is the least.                   *)
(***************************************************************************)
EXTENDS IdSequence, Positions, FiniteSetTheorems, WellFoundedInduction, TLAPS

\* A bound on a set of naturals.
Bounded(S) == \E b \in Nat : \A n \in S : n <= b

\* The order of the naturals as a relation, for the well-foundedness theorem.
Below == {p \in Nat \X Nat : p[1] < p[2]}

\* Every nonempty set of naturals has a least element.
LEMMA LeastExists ==
    ASSUME NEW T, T \subseteq Nat, T # {}
    PROVE  \E x \in T : \A y \in T : x <= y
<1>1. IsWellFoundedOn(Below, Nat)
  BY NatLessThanWellFounded DEF Below, OpToRel
<1>2. PICK x \in T : \A y \in T : ~ (<<y, x>> \in Below)
  BY <1>1, WFMin
<1>3. ASSUME NEW y \in T PROVE x <= y
  <2>1. ~ (<<y, x>> \in Below)
    BY <1>2
  <2>2. x \in Nat /\ y \in Nat
    OBVIOUS
  <2> QED BY <2>1, <2>2 DEF Below
<1> QED BY <1>3

\* Every nonempty bounded set of naturals has a greatest element.
LEMMA GreatestExists ==
    ASSUME NEW S, S \subseteq Nat, S # {}, Bounded(S)
    PROVE  \E m \in S : \A n \in S : n <= m
<1> DEFINE U == {m \in Nat : \A n \in S : n <= m}
<1>1. U # {} /\ U \subseteq Nat
  BY DEF Bounded
<1>2. PICK u \in U : \A m \in U : u <= m
  BY <1>1, LeastExists
<1>3. u \in Nat /\ \A n \in S : n <= u
  OBVIOUS
<1>4. u \in S
  <2> SUFFICES ASSUME u \notin S
               PROVE  FALSE
    OBVIOUS
  <2>1. PICK s \in S : TRUE
    OBVIOUS
  <2>2. s \in Nat /\ s <= u /\ s # u
    BY <1>3
  <2>3. u - 1 \in Nat
    BY <2>2, <1>3
  <2>4. ASSUME NEW n \in S PROVE n <= u - 1
    <3>1. n \in Nat /\ n <= u /\ n # u
      BY <1>3
    <3> QED BY <3>1, <1>3
  <2>5. u - 1 \in U
    BY <2>3, <2>4
  <2>6. u <= u - 1
    BY <1>2, <2>5
  <2> QED BY <2>6, <1>3
<1> QED BY <1>3, <1>4

\* The loop of the generators computes the greatest number in use, or 0.
LEMMA HighestIsGreatest ==
    ASSUME NEW S, S \subseteq Nat, Bounded(S)
    PROVE  /\ Highest(S) \in S \cup {0}
           /\ Highest(S) \in Nat
           /\ \A n \in S : n <= Highest(S)
<1>1. Bounded(S \cup {0})
  <2>1. PICK b \in Nat : \A n \in S : n <= b
    BY DEF Bounded
  <2>2. \A n \in S \cup {0} : n <= b
    BY <2>1
  <2> QED BY <2>2 DEF Bounded
<1>2. S \cup {0} \subseteq Nat /\ S \cup {0} # {}
  OBVIOUS
<1>3. \E m \in S \cup {0} : \A n \in S : n <= m
  <2>1. \E m \in S \cup {0} : \A n \in S \cup {0} : n <= m
    BY <1>1, <1>2, GreatestExists
  <2> QED BY <2>1
<1>4. Highest(S) \in S \cup {0} /\ \A n \in S : n <= Highest(S)
  BY <1>3 DEF Highest
<1>5. ASSUME NEW m \in S \cup {0} PROVE m \in Nat
  OBVIOUS
<1>6. Highest(S) \in Nat
  BY <1>4, <1>5
<1> QED BY <1>4, <1>6

\* A file id is new: no name in the directory has its number.
LEMMA NextFileIdIsNew ==
    ASSUME NEW S, S \subseteq Nat, Bounded(S)
    PROVE  NextFileId(S) \in Nat \ {0} /\ \A n \in S : n < NextFileId(S)
<1>1. Highest(S) \in Nat /\ \A n \in S : n <= Highest(S)
  BY HighestIsGreatest
<1>2. NextFileId(S) \in Nat \ {0}
  BY <1>1 DEF NextFileId
<1>3. ASSUME NEW n \in S PROVE n < NextFileId(S)
  <2>1. n \in Nat /\ n <= Highest(S)
    BY <1>1
  <2> QED BY <2>1, <1>1 DEF NextFileId
<1> QED BY <1>2, <1>3

\* The three digits read of a number are never more than the number.
LEMMA CapturedIsLess ==
    ASSUME NEW n \in Nat
    PROVE  Captured(n) \in Nat /\ Captured(n) <= n
<1>1. CASE n < IdLimit
  BY <1>1 DEF Captured
<1>2. CASE ~ (n < IdLimit)
  <2> DEFINE q == n \div IdBase
  <2>1. IdBase \in Nat /\ IdBase >= 2
    BY IdAssumption
  <2>2. q \in Nat /\ q <= n
    BY <2>1
  <2> QED BY <1>2, <2>2 DEF Captured
<1> QED BY <1>1, <1>2

\* A log id is new among the numbers that can be read whole.
LEMMA NextLogIdIsNew ==
    ASSUME NEW S, S \subseteq Nat, Bounded(S)
    PROVE  /\ NextLogId(S) \in Nat
           /\ \A n \in S : n < IdLimit => n < NextLogId(S)
<1> DEFINE C == {Captured(n) : n \in S}
<1>1. C \subseteq Nat
  BY CapturedIsLess
<1>2. Bounded(C)
  <2>1. PICK b \in Nat : \A n \in S : n <= b
    BY DEF Bounded
  <2>2. ASSUME NEW n \in S PROVE Captured(n) <= b
    <3>1. n \in Nat /\ n <= b
      BY <2>1
    <3>2. Captured(n) \in Nat /\ Captured(n) <= n
      BY <3>1, CapturedIsLess
    <3> QED BY <3>1, <3>2
  <2>3. \A c \in C : c <= b
    BY <2>2
  <2> QED BY <2>3 DEF Bounded
<1>3. Highest(C) \in Nat /\ \A c \in C : c <= Highest(C)
  BY <1>1, <1>2, HighestIsGreatest
<1>4. NextLogId(S) = Highest(C) + 1
  BY DEF NextLogId
<1>5. ASSUME NEW n \in S, n < IdLimit PROVE n < NextLogId(S)
  <2>1. Captured(n) \in C /\ Captured(n) = n
    BY <1>5 DEF Captured
  <2>2. n \in Nat /\ n <= Highest(C)
    BY <2>1, <1>3
  <2> QED BY <2>2, <1>3, <1>4
<1>6. NextLogId(S) \in Nat
  BY <1>3, <1>4
<1> QED BY <1>5, <1>6
-----------------------------------------------------------------------------
\* A strict order in which any two are comparable.
Ordered(before, I) ==
    /\ \A i \in I : <<i, i>> \notin before
    /\ \A i, j, k \in I : <<i, j>> \in before /\ <<j, k>> \in before => <<i, k>> \in before
    /\ \A i, j \in I : i = j \/ <<i, j>> \in before \/ <<j, i>> \in before

\* In a finite set that is ordered, each rank from 0 on has one element.
LEMMA RankedOnce ==
    ASSUME NEW I, IsFiniteSet(I), NEW before, Ordered(before, I),
           NEW rank, rank = [i \in I |-> Cardinality({j \in I : <<j, i>> \in before})]
    PROVE  /\ \A i \in I : rank[i] \in 0 .. Cardinality(I) - 1
           /\ \A i, k \in I : rank[i] = rank[k] => i = k
           /\ \A n \in 0 .. Cardinality(I) - 1 : \E i \in I : rank[i] = n
<1> DEFINE Down(i) == {j \in I : <<j, i>> \in before}
           c == Cardinality(I)
           T == 0 .. c - 1
<1>1. c \in Nat
  BY FS_CardinalityType
<1>2. ASSUME NEW i \in I PROVE IsFiniteSet(Down(i)) /\ Cardinality(Down(i)) \in T
  <2>1. IsFiniteSet(I \ {i}) /\ Cardinality(I \ {i}) = c - 1
    BY FS_RemoveElement
  <2>2. Down(i) \in SUBSET (I \ {i})
    BY DEF Ordered
  <2>3. ASSUME NEW X, X = I \ {i}, NEW D, D = Down(i)
        PROVE  IsFiniteSet(D) /\ Cardinality(D) <= c - 1
    <3>1. IsFiniteSet(X) /\ Cardinality(X) = c - 1 /\ D \in SUBSET X
      BY <2>1, <2>2, <2>3
    <3> HIDE DEF c
    <3> QED BY ONLY <3>1, FS_Subset
  <2>4. IsFiniteSet(Down(i)) /\ Cardinality(Down(i)) <= c - 1
    BY <2>3
  <2>5. Cardinality(Down(i)) \in Nat
    BY <2>4, FS_CardinalityType
  <2> QED BY <1>1, <2>4, <2>5
<1>3. ASSUME NEW i \in I, NEW k \in I, <<i, k>> \in before
      PROVE  Cardinality(Down(i)) # Cardinality(Down(k))
  <2>1. Down(i) \in SUBSET Down(k) /\ i \in Down(k) /\ i \notin Down(i)
    BY <1>3 DEF Ordered
  <2>2. Cardinality(Down(k)) = Cardinality(Down(i)) => Down(k) = Down(i)
    BY <1>2, <2>1, FS_Subset
  <2> QED BY <2>1, <2>2
<1>4. ASSUME NEW i \in I, NEW k \in I, Cardinality(Down(i)) = Cardinality(Down(k)) PROVE i = k
  BY <1>3, <1>4 DEF Ordered
<1>5. \A n \in T : \E i \in I : Cardinality(Down(i)) = n
  <2>1. rank \in [I -> T]
    BY <1>2
  <2>2. rank \in Injection(I, T)
    BY <2>1, <1>4 DEF Injection, IsInjective
  <2>3. IsFiniteSet(T) /\ Cardinality(T) = c
    <3>1. ASSUME NEW k \in Nat PROVE IsFiniteSet(0 .. k - 1) /\ Cardinality(0 .. k - 1) = k
      <4>1. k - 1 \in Int /\ (IF 0 > k - 1 THEN 0 ELSE (k - 1) - 0 + 1) = k
        OBVIOUS
      <4> QED BY ONLY <4>1, 0 \in Int, FS_Interval
    <3> HIDE DEF c
    <3> QED BY <1>1, <3>1
  <2>4. rank \in Surjection(I, T)
    BY <2>2, <2>3, FS_Injection
  <2> QED BY <2>4 DEF Surjection
<1> QED BY <1>2, <1>4, <1>5

\* The n-th positions are the positions of the set, each once and in order.
LEMMA NthIs ==
    ASSUME NEW I, IsFiniteSet(I), I \subseteq Int
    PROVE  /\ \A n \in 1 .. Cardinality(I) : Nth(I, n) \in I /\ Ahead(I, Nth(I, n)) = n - 1
           /\ \A i \in I : Ahead(I, i) + 1 \in 1 .. Cardinality(I) /\ Ahead(I, i) \in Nat
           /\ \A i \in I, n \in Int : Ahead(I, i) = n - 1 => Nth(I, n) = i
<1> DEFINE before == {p \in I \X I : p[1] < p[2]}
<1>1. Cardinality(I) \in Nat
  BY FS_CardinalityType
<1>2. Ordered(before, I)
  BY DEF Ordered
<1>3. \A i \in I : {j \in I : <<j, i>> \in before} = {j \in I : j < i}
  OBVIOUS
<1> HIDE DEF before
<1>4. PICK rank : rank = [i \in I |-> Cardinality({j \in I : j < i})]
  OBVIOUS
<1>5. rank = [i \in I |-> Cardinality({j \in I : <<j, i>> \in before})]
  BY <1>3, <1>4
<1>6. /\ \A i \in I : rank[i] \in 0 .. Cardinality(I) - 1
      /\ \A i, k \in I : rank[i] = rank[k] => i = k
      /\ \A n \in 0 .. Cardinality(I) - 1 : \E i \in I : rank[i] = n
  BY ONLY <1>2, <1>5, RankedOnce, IsFiniteSet(I)
<1>7. \A i \in I : Ahead(I, i) = rank[i]
  BY <1>4 DEF Ahead
<1>8. ASSUME NEW n \in 1 .. Cardinality(I)
      PROVE  Nth(I, n) \in I /\ Ahead(I, Nth(I, n)) = n - 1
  <2>1. n - 1 \in 0 .. Cardinality(I) - 1
    BY <1>1
  <2>2. \E i \in I : Ahead(I, i) = n - 1
    BY <1>6, <1>7, <2>1
  <2> QED BY <2>2 DEF Nth
<1>9. ASSUME NEW i \in I PROVE Ahead(I, i) + 1 \in 1 .. Cardinality(I) /\ Ahead(I, i) \in Nat
  BY <1>1, <1>6, <1>7
<1>10. ASSUME NEW i \in I, NEW n \in Int, Ahead(I, i) = n - 1 PROVE Nth(I, n) = i
  <2>1. Nth(I, n) \in I /\ Ahead(I, Nth(I, n)) = n - 1
    BY <1>10 DEF Nth
  <2>2. rank[Nth(I, n)] = rank[i]
    BY <1>7, <1>10, <2>1
  <2> QED BY <1>6, <2>1, <2>2
<1>11. \A i \in I, n \in Int : Ahead(I, i) = n - 1 => Nth(I, n) = i
  BY ONLY <1>10
<1> QED BY ONLY <1>8, <1>9, <1>11

\* What a filter leaves of a list: the elements at the positions it keeps, one
\* place for each.
LEMMA OnlyIs ==
    ASSUME NEW S, NEW s \in Seq(S), NEW I, I \subseteq DOMAIN s
    PROVE  /\ Only(s, I) \in Seq(S)
           /\ DOMAIN Only(s, I) = 1 .. Cardinality(I)
           /\ \A n \in DOMAIN Only(s, I) : Nth(I, n) \in I /\ Only(s, I)[n] = s[Nth(I, n)]
           /\ \A n, m \in DOMAIN Only(s, I) : Nth(I, n) = Nth(I, m) => n = m
           /\ \A i \in I : \E n \in DOMAIN Only(s, I) : Nth(I, n) = i
<1>1. Len(s) \in Nat /\ DOMAIN s = 1 .. Len(s) /\ I \subseteq Int
  OBVIOUS
<1>2. IsFiniteSet(I)
  <2>1. ASSUME NEW N \in Int PROVE IsFiniteSet(1 .. N)
    BY FS_Interval
  <2>2. IsFiniteSet(DOMAIN s) /\ I \in SUBSET DOMAIN s
    BY <1>1, <2>1
  <2> QED BY ONLY <2>2, FS_Subset
<1>3. Cardinality(I) \in Nat
  BY <1>2, FS_CardinalityType
<1>4. \A n \in 1 .. Cardinality(I) : Nth(I, n) \in I /\ Ahead(I, Nth(I, n)) = n - 1
  BY <1>1, <1>2, NthIs
<1>5. DOMAIN Only(s, I) = 1 .. Cardinality(I) /\ \A n \in 1 .. Cardinality(I) : Only(s, I)[n] = s[Nth(I, n)]
  BY DEF Only
<1>6. Only(s, I) \in [1 .. Cardinality(I) -> S]
  <2>3. \A i \in I : s[i] \in S
    OBVIOUS
  <2>1. \A n \in 1 .. Cardinality(I) : s[Nth(I, n)] \in S
    BY <1>4, <2>3
  <2> QED BY <2>1 DEF Only
<1>7. Only(s, I) \in Seq(S)
  BY <1>3, <1>6
<1>8. \A n, m \in 1 .. Cardinality(I) : Nth(I, n) = Nth(I, m) => n = m
  <2> SUFFICES ASSUME NEW n \in 1 .. Cardinality(I), NEW m \in 1 .. Cardinality(I), Nth(I, n) = Nth(I, m)
               PROVE  n = m
    OBVIOUS
  <2>1. n - 1 = m - 1
    BY <1>4
  <2> QED BY <2>1
<1>9. \A i \in I : \E n \in 1 .. Cardinality(I) : Nth(I, n) = i
  <2> TAKE i \in I
  <2> DEFINE n == Ahead(I, i) + 1
  <2>1. n \in 1 .. Cardinality(I) /\ Ahead(I, i) \in Nat
    BY <1>1, <1>2, NthIs
  <2>2. Ahead(I, i) = n - 1 /\ n \in Int
    BY <2>1
  <2>3. Nth(I, n) = i
    BY <1>1, <1>2, <2>2, NthIs
  <2> QED BY <2>1, <2>3
<1> QED BY <1>4, <1>5, <1>7, <1>8, <1>9

\* A function of the number of a step and of what there was before it, and what
\* m such steps make of a.
IsStepOn(g, X)      == \A n \in Nat, x \in X : g[<<n, x>>] \in X
Iterates(f, g, a, m) == f[0] = a /\ \A n \in 1 .. m : f[n] = g[<<n, f[n - 1]>>]

\* Any number of steps can be made: what a recursive definition needs in order
\* to define something.
LEMMA IterationExists ==
    ASSUME NEW X, NEW a \in X, NEW g, IsStepOn(g, X), NEW m \in Nat
    PROVE  \E f \in [0 .. m -> X] : Iterates(f, g, a, m)
<1> USE DEF IsStepOn, Iterates
<1> DEFINE Runs(k, f) == /\ f \in [0 .. k -> X] /\ f[0] = a
                         /\ \A n \in 1 .. k : f[n] = g[<<n, f[n - 1]>>]
           Bad == {k \in Nat : ~ \E f : Runs(k, f)}
<1>1. Bad = {}
  <2> SUFFICES ASSUME Bad # {} PROVE FALSE
    OBVIOUS
  <2>1. PICK k \in Bad : \A j \in Bad : k <= j
    BY LeastExists
  <2>2. k # 0
    <3>1. Runs(0, [n \in 0 .. 0 |-> a])
      OBVIOUS
    <3> QED BY <3>1
  <2>3. k - 1 \in Nat /\ k - 1 \notin Bad
    BY <2>1, <2>2
  <2>4. PICK f : Runs(k - 1, f)
    BY <2>3
  <2> DEFINE h == [n \in 0 .. k |-> IF n = k THEN g[<<k, f[k - 1]>>] ELSE f[n]]
  <2>5. /\ h \in [0 .. k -> X] /\ h[0] = a
        /\ \A n \in 0 .. k - 1 : h[n] = f[n]
        /\ h[k] = g[<<k, f[k - 1]>>]
    <3>1. f[k - 1] \in X /\ g[<<k, f[k - 1]>>] \in X
      BY <2>3, <2>4
    <3> QED BY <2>2, <2>3, <2>4, <3>1
  <2> HIDE DEF h
  <2>6. ASSUME NEW n \in 1 .. k PROVE h[n] = g[<<n, h[n - 1]>>]
    <3>1. CASE n = k
      <4>1. k - 1 \in 0 .. k - 1 /\ h[k - 1] = f[k - 1]
        BY <2>3, <2>5
      <4> QED BY <2>5, <3>1, <4>1
    <3>2. CASE n # k
      <4>1. n \in 1 .. k - 1 /\ n - 1 \in 0 .. k - 1 /\ n \in 0 .. k - 1
        BY <2>3, <3>2
      <4>2. h[n] = f[n] /\ h[n - 1] = f[n - 1] /\ f[n] = g[<<n, f[n - 1]>>]
        BY <2>4, <2>5, <4>1
      <4> QED BY <4>2
    <3> QED BY <3>1, <3>2
  <2>7. Runs(k, h)
    BY <2>5, <2>6
  <2> QED BY <2>1, <2>7
<1>2. \E f : Runs(m, f)
  BY <1>1
<1> QED BY <1>2
=============================================================================
