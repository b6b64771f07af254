----------------------- MODULE DependencyEnginesProof -----------------------
(***************************************************************************)
(* The search finds the cycles and the queue orders the items, for any     *)
(* number of items, any dependencies and any indices.                      *)
(*                                                                         *)
(* The argument for the search: the stack is a path of the graph, so an    *)
(* item on it that is met again lies on a cycle; and while nothing is      *)
(* reported, what has been left is closed under the edges, so an item that *)
(* is left cannot be reached from itself.  For the queue: the degree of an *)
(* item counts what it needs and is not placed yet.                        *)
(***************************************************************************)
EXTENDS DependencyEngines, FiniteSetTheorems, SequenceTheorems, WellFoundedInduction, TLAPS

\* The graph that is searched.
Graph == [n \in Items |-> Edges(n)]

\* n is reached from itself along the edges of g.
Returns(g, n) ==
    \A S \in SUBSET Items : g[n] \subseteq S /\ (\A m \in S : g[m] \subseteq S) => n \in S

\* sorted(E).index(m)
Position(E, m) == Cardinality({k \in E : k < m})

\* The item at place k of the stack.
Item(k) == stack[k][1]

\* The stack is a path of the graph, without what has been left.
StackInv ==
    /\ \A k \in 1 .. Len(stack) : Item(k) \notin visited
    /\ \A j, k \in 1 .. Len(stack) : j # k => Item(j) # Item(k)
    /\ \A k \in 1 .. Len(stack) - 1 : Item(k + 1) \in Graph[Item(k)] /\ Item(k) \in path
    /\ path \subseteq {Item(k) : k \in 1 .. Len(stack)}

\* m, looked at from place k, has been left or comes next on the stack.
Seen(k, m) == m \in visited \/ (k < Len(stack) /\ m = Item(k + 1))

\* While nothing is reported, what is left is closed and free of cycles.
NothingFound ==
    /\ \A n \in visited : Graph[n] \subseteq visited /\ ~Returns(Graph, n)
    /\ \A k \in 1 .. Len(stack) : \A m \in Graph[Item(k)] :
          Position(Graph[Item(k)], m) < stack[k][2] => Seen(k, m)

SearchInv ==
    /\ StackInv
    /\ \A n \in reported : Returns(Graph, n)
    /\ reported = {} => NothingFound
    /\ phase # "detect" /\ engine # "job" => reported # {} \/ visited = Items

\* What is to be placed, and what may be placed next.
KahnInv ==
    /\ degree = [n \in Items |-> Cardinality(Inner(n) \ Placed(Len(order)))]
    /\ ready = {n \in Items \ Placed(Len(order)) : Inner(n) \subseteq Placed(Len(order))}
    /\ phase = "detect" => order = <<>>
    /\ phase = "execute" /\ engine # "job" => ready = {}
    /\ phase = "done" /\ engine # "job" /\ order # <<>> => ready = {}

\* Every item of the order follows what it needs, and goes before what else
\* could have been placed there.
OrderedInv ==
    \A i \in DOMAIN order :
        /\ order[i] \notin Placed(i - 1)
        /\ Inner(order[i]) \subseteq Placed(i - 1)
        /\ \A m \in Items \ Placed(i - 1) :
              Inner(m) \subseteq Placed(i - 1) => Before(order[i], m)

Inv == TypeOK /\ SearchInv /\ KahnInv /\ OrderedInv

-----------------------------------------------------------------------------
(* Least elements, and the elements of a set in order *)

\* The order of the naturals as a relation, for the well-foundedness theorem.
Below == {p \in Nat \X Nat : p[1] < p[2]}

\* Every nonempty set of naturals has a least element.
LEMMA LeastNatural ==
    ASSUME NEW T, T \subseteq Nat, T # {}
    PROVE  \E x \in T : \A y \in T : x <= y
<1>1. IsWellFoundedOn(Below, Nat)
  BY NatLessThanWellFounded DEF Below, OpToRel
<1>2. PICK x \in T : \A y \in T : ~ (<<y, x>> \in Below)
  BY <1>1, WFMin
<1>3. ASSUME NEW y \in T PROVE x <= y
  <2>1. ~ (<<y, x>> \in Below)
    BY <1>2
  <2>2. x \in Nat /\ y \in Nat
    OBVIOUS
  <2> QED BY <2>1, <2>2 DEF Below
<1> QED BY <1>3

\* A total order R has a least element in every nonempty finite set.
LEMMA LeastOf ==
    ASSUME NEW S, IsFiniteSet(S), S # {}, NEW R,
           \A x, y \in S : <<x, y>> \in R \/ <<y, x>> \in R,
           \A x, y, z \in S : <<x, y>> \in R /\ <<y, z>> \in R => <<x, z>> \in R
    PROVE  \E x \in S : \A y \in S : <<x, y>> \in R
<1> DEFINE D(x) == {y \in S : <<y, x>> \in R}
           T == {Cardinality(D(x)) : x \in S}
<1>1. ASSUME NEW x \in S PROVE IsFiniteSet(D(x)) /\ Cardinality(D(x)) \in Nat
  <2>1. D(x) \in SUBSET S
    OBVIOUS
  <2> HIDE DEF D
  <2> QED BY <2>1, FS_Subset, FS_CardinalityType
<1>2. PICK x \in S : \A y \in S : Cardinality(D(x)) <= Cardinality(D(y))
  <2> HIDE DEF D
  <2>1. T \subseteq Nat /\ T # {}
    BY <1>1
  <2>2. PICK c \in T : \A d \in T : c <= d
    BY <2>1, LeastNatural
  <2>3. PICK x \in S : c = Cardinality(D(x))
    OBVIOUS
  <2>4. \A y \in S : Cardinality(D(y)) \in T
    OBVIOUS
  <2> HIDE DEF T
  <2> QED BY <2>2, <2>3, <2>4
<1>3. ASSUME NEW y \in S PROVE <<x, y>> \in R
  <2> SUFFICES ASSUME <<x, y>> \notin R PROVE FALSE
    OBVIOUS
  <2>1. D(y) \in SUBSET D(x)
    OBVIOUS
  <2>2. x \in D(x) /\ x \notin D(y)
    OBVIOUS
  <2> HIDE DEF D
  <2>3. Cardinality(D(y)) <= Cardinality(D(x)) /\ Cardinality(D(x)) # Cardinality(D(y))
    BY <1>1, <2>1, <2>2, FS_Subset
  <2> QED BY <1>1, <1>2, <2>3
<1> QED BY <1>3

\* The least of a set of numbers, and the greatest.
LEMMA Extremes ==
    ASSUME NEW S, S \subseteq Int, IsFiniteSet(S), S # {}
    PROVE  /\ \E x \in S : \A y \in S : x <= y
           /\ \E x \in S : \A y \in S : y <= x
<1> DEFINE U == {p \in Int \X Int : p[1] <= p[2]}
           V == {p \in Int \X Int : p[2] <= p[1]}
<1>1. \A x, y \in S : (<<x, y>> \in U <=> x <= y) /\ (<<x, y>> \in V <=> y <= x)
  OBVIOUS
<1> HIDE DEF U, V
<1>2. \E x \in S : \A y \in S : <<x, y>> \in U
  <2>1. \A x, y \in S : <<x, y>> \in U \/ <<y, x>> \in U
    <3>1. \A x, y \in S : x <= y \/ y <= x
      OBVIOUS
    <3> QED BY <1>1, <3>1
  <2>2. \A x, y, z \in S : <<x, y>> \in U /\ <<y, z>> \in U => <<x, z>> \in U
    BY <1>1
  <2> QED BY <2>1, <2>2, LeastOf
<1>3. \E x \in S : \A y \in S : <<x, y>> \in V
  <2>1. \A x, y \in S : <<x, y>> \in V \/ <<y, x>> \in V
    <3>1. \A x, y \in S : x <= y \/ y <= x
      OBVIOUS
    <3> QED BY <1>1, <3>1
  <2>2. \A x, y, z \in S : <<x, y>> \in V /\ <<y, z>> \in V => <<x, z>> \in V
    BY <1>1
  <2> QED BY <2>1, <2>2, LeastOf
<1> QED BY <1>1, <1>2, <1>3

USE DependencyEnginesAssumption

LEMMA LeastIs ==
    ASSUME NEW S \in SUBSET Items, S # {}
    PROVE  Least(S) \in S
<1>1. IsFiniteSet(S)
  BY FS_Subset
<1>2. \E x \in S : \A y \in S : x <= y
  BY <1>1, Extremes
<1> QED BY <1>2 DEF Least

LEMMA FirstIs ==
    ASSUME NEW S \in SUBSET Items, S # {}, index \in [Items -> Nat]
    PROVE  /\ First(S) \in S
           /\ \A m \in S : Before(First(S), m)
<1> DEFINE R == {p \in S \X S : Before(p[1], p[2])}
<1>1. IsFiniteSet(S)
  BY FS_Subset
<1>2. \A x, y \in S : <<x, y>> \in R <=> Before(x, y)
  OBVIOUS
<1>3. \A x \in S : index[x] \in Nat /\ x \in Int
  OBVIOUS
<1>4. \A x, y \in S : Before(x, y) \/ Before(y, x)
  BY <1>3 DEF Before
<1>5. \A x, y, z \in S : Before(x, y) /\ Before(y, z) => Before(x, z)
  BY <1>3 DEF Before
<1> HIDE DEF R
<1>6. \E x \in S : \A y \in S : <<x, y>> \in R
  BY <1>1, <1>2, <1>4, <1>5, LeastOf
<1>7. \E x \in S : \A y \in S : Before(x, y)
  BY <1>2, <1>6
<1> QED BY <1>7 DEF First

\* In a finite set of numbers there is one at each position.
LEMMA Positions ==
    ASSUME NEW E, E \subseteq Int, IsFiniteSet(E),
           NEW i \in Nat, i < Cardinality(E)
    PROVE  \E m \in E : Position(E, m) = i
<1> DEFINE D(x) == {k \in E : k < x}
           T == {x \in E : Cardinality(D(x)) >= i}
<1>1. ASSUME NEW x \in E
      PROVE  /\ D(x) \subseteq Int /\ IsFiniteSet(D(x)) /\ Cardinality(D(x)) \in Nat
             /\ Cardinality(D(x) \cup {x}) = Cardinality(D(x)) + 1
  <2>1. D(x) \in SUBSET E /\ x \notin D(x)
    OBVIOUS
  <2> HIDE DEF D
  <2>2. D(x) \subseteq Int /\ IsFiniteSet(D(x)) /\ Cardinality(D(x)) \in Nat
    BY <2>1, FS_Subset, FS_CardinalityType
  <2>3. Cardinality(D(x) \cup {x}) = Cardinality(D(x)) + 1
    BY <2>1, <2>2, FS_AddElement
  <2> QED BY <2>2, <2>3
<1>2. \A x, k : k \in D(x) <=> k \in E /\ k < x
  OBVIOUS
<1> HIDE DEF D
<1>3. T # {}
  <2>1. E # {}
    BY FS_EmptySet
  <2>2. PICK x \in E : \A y \in E : y <= x
    BY <2>1, Extremes
  <2>3. \A y \in E : y \in D(x) \cup {x}
    BY <1>2, <2>2
  <2>4. E = D(x) \cup {x}
    <3>1. D(x) \cup {x} \subseteq E
      BY <1>2
    <3> QED BY <2>3, <3>1, Zenon
  <2>5. Cardinality(E) = Cardinality(D(x)) + 1
    BY <1>1, <2>4
  <2>6. Cardinality(D(x)) >= i
    <3>1. Cardinality(D(x)) \in Nat
      BY <1>1
    <3> QED BY <2>5, <3>1
  <2> QED BY <2>6
<1>4. PICK x \in T : \A y \in T : x <= y
  <2>1. T \in SUBSET E
    OBVIOUS
  <2>2. T \subseteq Int /\ IsFiniteSet(T)
    BY <2>1, FS_Subset
  <2> QED BY <1>3, <2>2, Extremes
<1>5. x \in E /\ x \in Int /\ Cardinality(D(x)) >= i
  BY <1>4
<1>6. CASE D(x) = {}
  <2>1. Cardinality(D(x)) = 0
    BY <1>6, FS_EmptySet
  <2> QED BY <1>5, <2>1 DEF D, Position
<1>7. CASE D(x) # {}
  <2>1. PICK y \in D(x) : \A z \in D(x) : z <= y
    BY <1>1, <1>5, <1>7, Extremes
  <2>2. y \in E /\ y \in Int /\ y < x
    BY <1>2, <2>1
  <2>3. \A z : z \in D(x) <=> z \in D(y) \/ z = y
    <3>1. ASSUME NEW z \in D(x) PROVE z \in D(y) \/ z = y
      <4>1. z \in E /\ z \in Int /\ z <= y
        BY <1>2, <2>1, <3>1
      <4> QED BY <1>2, <2>2, <4>1
    <3>2. ASSUME NEW z \in D(y) PROVE z \in D(x)
      <4>1. z \in E /\ z \in Int /\ z < y
        BY <1>2, <3>2
      <4> QED BY <1>2, <1>5, <2>2, <4>1
    <3> QED BY <2>1, <3>1, <3>2
  <2>4. D(x) = D(y) \cup {y}
    BY <2>3
  <2>5. Cardinality(D(x)) = Cardinality(D(y)) + 1
    BY <1>1, <2>2, <2>4
  <2>6. y \notin T
    BY <1>4, <1>5, <2>2
  <2>7. ~ (Cardinality(D(y)) >= i)
    BY <2>2, <2>6
  <2>8. Cardinality(D(x)) = i
    <3>1. Cardinality(D(x)) \in Nat /\ Cardinality(D(y)) \in Nat
      BY <1>1, <1>5, <2>2
    <3> QED BY <1>5, <2>5, <2>7, <3>1
  <2> QED BY <1>5, <2>8 DEF D, Position
<1> QED BY <1>6, <1>7

\* Two numbers of the set are not at one position.
LEMMA PositionsDiffer ==
    ASSUME NEW E, E \subseteq Int, IsFiniteSet(E), NEW m \in E, NEW n \in E,
           Cardinality({k \in E : k < m}) = Cardinality({k \in E : k < n})
    PROVE  m = n
<1> SUFFICES ASSUME NEW x \in E, NEW y \in E, x < y,
                    Cardinality({k \in E : k < x}) = Cardinality({k \in E : k < y})
             PROVE  FALSE
  <2>1. m < n \/ n < m \/ m = n
    OBVIOUS
  <2> QED BY <2>1
<1>1. PICK C : C = {k \in E : k < x}
  OBVIOUS
<1>2. PICK D : D = {k \in E : k < y}
  OBVIOUS
<1>3. x \in Int /\ y \in Int /\ \A k \in E : k \in Int
  OBVIOUS
<1>4. C \in SUBSET D
  <2> SUFFICES ASSUME NEW k \in C PROVE k \in D
    OBVIOUS
  <2>1. k \in E /\ k \in Int /\ k < x
    BY <1>1, <1>3
  <2>2. k < y
    BY <1>3, <2>1
  <2> QED BY <1>2, <2>1, <2>2
<1>5. x \in D /\ x \notin C
  BY <1>1, <1>2, <1>3
<1>6. IsFiniteSet(D)
  <2>1. D \in SUBSET E
    BY <1>2
  <2> QED BY <2>1, FS_Subset
<1>7. Cardinality(C) = Cardinality(D)
  BY <1>1, <1>2
<1> QED BY <1>4, <1>5, <1>6, <1>7, FS_Subset

-----------------------------------------------------------------------------
(* The graph *)

LEMMA GraphIs ==
    ASSUME TypeOK
    PROVE  /\ Graph \in [Items -> SUBSET Items]
           /\ \A n \in Items : /\ Graph[n] = Edges(n)
                               /\ Graph[n] \subseteq Int /\ IsFiniteSet(Graph[n])
                               /\ Cardinality(Graph[n]) \in Nat
<1>1. \A n \in Items : Edges(n) \in SUBSET Items
  BY DEF Edges, Users, Inner
<1>2. Graph \in [Items -> SUBSET Items] /\ \A n \in Items : Graph[n] = Edges(n)
  BY <1>1 DEF Graph
<1> QED BY <1>1, <1>2, FS_Subset, FS_CardinalityType

LEMMA GraphStays ==
    ASSUME UNCHANGED input PROVE Graph' = Graph
BY DEF Graph, Edges, Users, Inner, input

\* The positions in a finite set of numbers are the numbers below its size.
LEMMA PositionIs ==
    ASSUME NEW E, E \subseteq Int, IsFiniteSet(E)
    PROVE  /\ \A m \in E : Position(E, m) \in Nat /\ Position(E, m) < Cardinality(E)
           /\ \A k, m \in E : Position(E, k) = Position(E, m) => k = m
<1>1. ASSUME NEW m \in E PROVE Position(E, m) \in Nat /\ Position(E, m) < Cardinality(E)
  <2>1. PICK D : D = {k \in E : k < m}
    OBVIOUS
  <2>2. D \in SUBSET E /\ m \notin D
    BY <2>1
  <2>3. IsFiniteSet(D) /\ Cardinality(D) \in Nat /\ Cardinality(D) <= Cardinality(E)
        /\ Cardinality(D) # Cardinality(E) /\ Cardinality(E) \in Nat
    BY <2>2, FS_Subset, FS_CardinalityType
  <2>4. Position(E, m) = Cardinality(D)
    BY <2>1 DEF Position
  <2> QED BY <2>3, <2>4
<1>2. \A k, m \in E : Position(E, k) = Position(E, m) => k = m
  BY PositionsDiffer DEF Position
<1> QED BY <1>1, <1>2

\* The neighbour at position i.
LEMMA NeighbourIs ==
    ASSUME TypeOK, NEW n \in Items, NEW i \in Nat, i < Cardinality(Edges(n))
    PROVE  Neighbour(n, i) \in Graph[n] /\ Position(Graph[n], Neighbour(n, i)) = i
<1>1. PICK E : E = Edges(n)
  OBVIOUS
<1>2. E = Graph[n] /\ E \subseteq Int /\ IsFiniteSet(E)
  BY <1>1, GraphIs
<1>3. \E m \in E : Position(E, m) = i
  BY <1>1, <1>2, Positions
<1>4. Neighbour(n, i) = CHOOSE m \in E : Position(E, m) = i
  BY <1>1 DEF Neighbour, Position
<1> QED BY <1>2, <1>3, <1>4

\* What returns to itself along E does so against E.
LEMMA Reversed ==
    ASSUME NEW E \in [Items -> SUBSET Items], NEW F \in [Items -> SUBSET Items],
           \A k, m \in Items : m \in E[k] <=> k \in F[m], NEW n \in Items,
           \A S \in SUBSET Items : E[n] \subseteq S /\ (\A m \in S : E[m] \subseteq S) => n \in S
    PROVE  \A S \in SUBSET Items : F[n] \subseteq S /\ (\A m \in S : F[m] \subseteq S) => n \in S
<1> SUFFICES ASSUME NEW S \in SUBSET Items, F[n] \subseteq S, \A m \in S : F[m] \subseteq S,
                    n \notin S
             PROVE  FALSE
  OBVIOUS
<1> DEFINE C == (Items \ S) \ {n}
<1>1. ASSUME NEW k \in Items \ S PROVE E[k] \subseteq C
  <2> SUFFICES ASSUME NEW m \in E[k] PROVE m \in Items \ S /\ m # n
    OBVIOUS
  <2>1. m \in Items /\ k \in F[m]
    OBVIOUS
  <2> QED BY <2>1
<1>2. n \in C
  BY <1>1
<1> QED BY <1>2

LEMMA ReturnsIs ==
    ASSUME TypeOK, NEW n \in Items
    PROVE  Returns(Graph, n) <=> OnCycle(n)
<1>1. PICK E : E = [k \in Items |-> Inner(k)]
  OBVIOUS
<1>2. PICK F : F = [k \in Items |-> Users(k)]
  OBVIOUS
<1>3. /\ E \in [Items -> SUBSET Items] /\ F \in [Items -> SUBSET Items]
      /\ \A k \in Items : E[k] = Inner(k) /\ F[k] = Users(k)
  BY <1>1, <1>2 DEF Inner, Users
<1>4. \A k, m \in Items : m \in E[k] <=> k \in F[m]
  BY <1>3 DEF Inner, Users
<1>5. OnCycle(n) <=> \A S \in SUBSET Items :
                        E[n] \subseteq S /\ (\A m \in S : E[m] \subseteq S) => n \in S
  BY <1>3 DEF OnCycle
<1>6. CASE engine # "swarm"
  <2>1. \A k \in Items : Graph[k] = E[k]
    BY <1>3, <1>6, GraphIs DEF Edges
  <2> QED BY <1>5, <2>1 DEF Returns
<1>7. CASE engine = "swarm"
  <2>1. \A k \in Items : Graph[k] = F[k]
    BY <1>3, <1>7, GraphIs DEF Edges
  <2>2. Returns(Graph, n) <=> \A S \in SUBSET Items :
                          F[n] \subseteq S /\ (\A m \in S : F[m] \subseteq S) => n \in S
    BY <2>1 DEF Returns
  <2> QED BY <1>3, <1>4, <1>5, <2>2, Reversed
<1> QED BY <1>6, <1>7

-----------------------------------------------------------------------------
(* The search *)

\* Along a path of g, from j to l and back, everything returns to itself.
LEMMA PathReturns ==
    ASSUME NEW l \in Nat, NEW it, NEW g, NEW j \in 1 .. l,
           \A k \in 1 .. l - 1 : it[k + 1] \in g[it[k]],
           it[j] \in g[it[l]]
    PROVE  Returns(g, it[j])
<1> SUFFICES ASSUME NEW S \in SUBSET Items, g[it[j]] \subseteq S,
                    \A m \in S : g[m] \subseteq S
             PROVE  it[j] \in S
  BY DEF Returns
<1> DEFINE B == {k \in j + 1 .. l : it[k] \notin S}
<1>1. B = {}
  <2> SUFFICES ASSUME B # {} PROVE FALSE
    OBVIOUS
  <2>1. PICK x \in B : \A y \in B : x <= y
    <3>1. B \subseteq Nat
      OBVIOUS
    <3> QED BY <3>1, LeastNatural
  <2>2. x \in j + 1 .. l /\ x - 1 \in 1 .. l - 1 /\ it[(x - 1) + 1] = it[x]
    OBVIOUS
  <2>3. it[x] \in g[it[x - 1]]
    BY <2>2
  <2>4. CASE x = j + 1
    <3>1. x - 1 = j
      BY <2>4
    <3> QED BY <2>3, <3>1
  <2>5. CASE x # j + 1
    <3>1. x - 1 \in j + 1 .. l /\ ~ (x <= x - 1)
      BY <2>2, <2>5
    <3>2. x - 1 \notin B
      BY <2>1, <3>1
    <3> QED BY <2>3, <3>1, <3>2
  <2> QED BY <2>4, <2>5
<1>2. CASE j = l
  BY <1>2
<1>3. CASE j # l
  <2>1. it[l] \in S
    BY <1>1, <1>3
  <2> QED BY <2>1
<1> QED BY <1>2, <1>3

\* The stack, its top and what is below.
LEMMA StackIs ==
    ASSUME TypeOK, stack # << >>
    PROVE  /\ Len(stack) \in Nat \ {0} /\ DOMAIN stack = 1 .. Len(stack)
           /\ \A k \in 1 .. Len(stack) : /\ stack[k] \in Items \X Nat
                                         /\ Item(k) \in Items /\ stack[k][2] \in Nat
           /\ Top = stack[Len(stack)] /\ Top[1] \in Items /\ Top[2] \in Nat
           /\ Rest \in Seq(Items \X Nat) /\ Len(Rest) = Len(stack) - 1
           /\ \A k \in 1 .. Len(stack) - 1 : Rest[k] = stack[k]
<1>1. stack \in Seq(Items \X Nat) /\ Len(stack) \in Nat \ {0}
  BY DEF TypeOK
<1>2. \A k \in 1 .. Len(stack) : stack[k] \in Items \X Nat
  BY <1>1
<1>3. /\ Rest \in Seq(Items \X Nat) /\ Len(Rest) = Len(stack) - 1
      /\ \A k \in 1 .. Len(stack) - 1 : Rest[k] = stack[k]
  <2>1. PICK n \in Nat : n = Len(stack) - 1
    BY <1>1
  <2>2. \A i \in 1 .. n : stack[i] \in Items \X Nat
    BY <1>1, <1>2, <2>1
  <2>3. Rest = SubSeq(stack, 1, n)
    BY <2>1 DEF Rest
  <2>4. /\ Rest \in Seq(Items \X Nat) /\ Len(Rest) = IF 1 <= n THEN n - 1 + 1 ELSE 0
        /\ \A i \in 1 .. n - 1 + 1 : Rest[i] = stack[1 + i - 1]
    BY <2>1, <2>2, <2>3, SubSeqProperties
  <2> QED BY <2>1, <2>4
<1>4. Top \in Items \X Nat
  BY <1>1, <1>2 DEF Top
<1> QED BY <1>1, <1>2, <1>3, <1>4 DEF Top, Item

LEMMA StartKeeps ==
    ASSUME TypeOK, SearchInv, Start
    PROVE  SearchInv' /\ stack' \in Seq(Items \X Nat) /\ path' \subseteq Items
<1>1. PICK s : s = Least(Items \ visited)
  OBVIOUS
<1>2. s \in Items \ visited
  BY <1>1, LeastIs DEF Start, TypeOK
<1>3. /\ stack' = <<<<s, 0>>>> /\ path' = {}
      /\ phase = "detect" /\ UNCHANGED <<input, phase, visited, reported>>
  BY <1>1 DEF Start
<1>4. /\ stack' \in Seq(Items \X Nat) /\ Len(stack') = 1
      /\ stack'[1][1] = s /\ stack'[1][2] = 0
  BY <1>2, <1>3
<1>5. Graph' = Graph
  BY <1>3, GraphStays
<1>6. StackInv'
  BY <1>2, <1>3, <1>4 DEF StackInv, Item
<1>7. NothingFound => NothingFound'
  <2>1. \A m \in Graph[s] : ~ (Position(Graph[s], m) < 0)
    BY <1>2, GraphIs, PositionIs
  <2> QED BY <1>3, <1>4, <1>5, <2>1 DEF NothingFound, Item
<1> QED BY <1>3, <1>4, <1>5, <1>6, <1>7 DEF SearchInv

\* An item below the top is on the path; the path leads to the top.
LEMMA OnStack ==
    ASSUME TypeOK, StackInv, stack # << >>, NEW m \in path \cup {Top[1]}
    PROVE  \E k \in 1 .. Len(stack) : m = Item(k)
BY StackIs DEF StackInv, Item

LEMMA LookKeeps ==
    ASSUME TypeOK, SearchInv, Look
    PROVE  /\ SearchInv' /\ stack' \in Seq(Items \X Nat)
           /\ path' \subseteq Items /\ reported' \subseteq Items
<1>1. PICK l, t, c : l = Len(stack) /\ t = Top[1] /\ c = Top[2]
  OBVIOUS
<1>2. PICK m : m = Neighbour(t, c)
  OBVIOUS
<1>3. PICK on : on = path \cup {t}
  OBVIOUS
<1>4. PICK next : next = Append(Rest, <<t, c + 1>>)
  OBVIOUS
<1>5. /\ phase = "detect" /\ stack # << >> /\ c < Cardinality(Edges(t))
      /\ path' = on
      /\ reported' = IF m \in on THEN reported \cup {m} ELSE reported
      /\ stack' = IF m \in on \cup visited THEN next ELSE Append(next, <<m, 0>>)
      /\ phase' = IF m \in on /\ engine = "operation" THEN "order" ELSE phase
      /\ UNCHANGED <<input, visited>>
  BY <1>1, <1>2, <1>3, <1>4 DEF Look
<1>6. /\ l \in Nat \ {0} /\ t \in Items /\ c \in Nat
      /\ Rest \in Seq(Items \X Nat) /\ Len(Rest) = l - 1
      /\ \A k \in 1 .. l - 1 : Rest[k] = stack[k]
      /\ \A k \in 1 .. l : Item(k) \in Items
      /\ stack[l][1] = t /\ stack[l][2] = c
  BY <1>1, <1>5, StackIs
<1>7. /\ next \in Seq(Items \X Nat) /\ Len(next) = l
      /\ \A k \in 1 .. l - 1 : next[k] = stack[k]
      /\ next[l] = <<t, c + 1>>
  BY <1>4, <1>6
<1>8. m \in Graph[t] /\ Position(Graph[t], m) = c /\ m \in Items
  BY <1>2, <1>5, <1>6, NeighbourIs, GraphIs
<1>9. Graph' = Graph
  BY <1>5, GraphStays
<1>10. /\ stack' \in Seq(Items \X Nat) /\ \A k \in 1 .. l - 1 : stack'[k] = stack[k]
       /\ stack'[l] = <<t, c + 1>>
       /\ Len(stack') = IF m \in on \cup visited THEN l ELSE l + 1
       /\ m \notin on \cup visited => stack'[l + 1] = <<m, 0>>
  <2>1. CASE m \in on \cup visited
    BY <1>5, <1>7, <2>1
  <2>2. CASE m \notin on \cup visited
    <3>1. stack' = Append(next, <<m, 0>>) /\ <<m, 0>> \in Items \X Nat
      BY <1>5, <1>8, <2>2
    <3>2. /\ stack' \in Seq(Items \X Nat) /\ Len(stack') = l + 1
          /\ stack'[l + 1] = <<m, 0>> /\ \A k \in 1 .. l : stack'[k] = next[k]
      BY <1>6, <1>7, <3>1
    <3> QED BY <1>6, <1>7, <2>2, <3>2
  <2> QED BY <2>1, <2>2
<1>11. PICK it : it = [k \in 1 .. l |-> Item(k)]
  BY Zenon
<1>12. \A k \in 1 .. l : it[k] = Item(k) /\ it[k] \in Items /\ Item(k)' = it[k]
  <2>1. ASSUME NEW k \in 1 .. l PROVE it[k] = Item(k) /\ it[k] \in Items
    BY <1>6, <1>11, Zenon
  <2>2. ASSUME NEW k \in 1 .. l PROVE stack'[k][1] = stack[k][1]
    <3>1. stack'[l][1] = t
      BY <1>10
    <3>2. k = l \/ k \in 1 .. l - 1
      BY <1>6
    <3>3. CASE k = l
      BY <1>6, <3>1, <3>3, Zenon
    <3>4. CASE k \in 1 .. l - 1
      BY <1>10, <3>4, Zenon
    <3> QED BY <3>2, <3>3, <3>4
  <2> QED BY <2>1, <2>2 DEF Item
<1>13. l \in 1 .. l /\ it[l] = t
  <2>1. l \in 1 .. l
    BY <1>6
  <2> QED BY <1>6, <1>12, <2>1 DEF Item
<1>14. /\ \A k \in 1 .. l : it[k] \notin visited
       /\ \A j, k \in 1 .. l : j # k => it[j] # it[k]
       /\ \A k \in 1 .. l - 1 : it[k + 1] \in Graph[it[k]] /\ it[k] \in path
       /\ path \subseteq {it[k] : k \in 1 .. l}
  <2>1. l = Len(stack) /\ \A k \in 1 .. l - 1 : k \in 1 .. l /\ k + 1 \in 1 .. l
    BY <1>1, <1>6
  <2>2. StackInv
    BY DEF SearchInv
  <2>3. \A k \in 1 .. l : it[k] \notin visited
    BY <1>12, <2>1, <2>2 DEF StackInv
  <2>4. \A j, k \in 1 .. l : j # k => it[j] # it[k]
    BY <1>12, <2>1, <2>2 DEF StackInv
  <2>5. \A k \in 1 .. l - 1 : it[k + 1] \in Graph[it[k]] /\ it[k] \in path
    BY <1>12, <2>1, <2>2 DEF StackInv
  <2>6. path \subseteq {it[k] : k \in 1 .. l}
    BY <1>12, <2>1, <2>2 DEF StackInv
  <2> QED BY <2>3, <2>4, <2>5, <2>6
<1>15. on \subseteq {it[k] : k \in 1 .. l} /\ \A k \in 1 .. l : it[k] \in on
  <2>1. \A k \in 1 .. l : k = l \/ k \in 1 .. l - 1
    BY <1>6
  <2> QED BY <1>3, <1>13, <1>14, <2>1
<1>16. on \subseteq Items
  BY <1>12, <1>15
<1>17. StackInv'
  <2>1. CASE m \in on \cup visited
    <3>1. Len(stack') = l
      BY <1>10, <2>1
    <3>2. \A k \in 1 .. l - 1 : k \in 1 .. l /\ k + 1 \in 1 .. l
      BY <1>6
    <3>3. \A k \in 1 .. Len(stack') : Item(k)' \notin visited'
      BY <1>5, <1>12, <1>14, <3>1
    <3>4. \A j, k \in 1 .. Len(stack') : j # k => Item(j)' # Item(k)'
      BY <1>12, <1>14, <3>1
    <3>5. \A k \in 1 .. Len(stack') - 1 :
             Item(k + 1)' \in Graph'[Item(k)'] /\ Item(k)' \in path'
      BY <1>5, <1>9, <1>12, <1>14, <1>15, <3>1, <3>2
    <3>6. path' \subseteq {Item(k)' : k \in 1 .. Len(stack')}
      BY <1>5, <1>12, <1>15, <3>1
    <3> QED BY <3>3, <3>4, <3>5, <3>6 DEF StackInv
  <2>2. CASE m \notin on \cup visited
    <3>1. Len(stack') = l + 1 /\ Item(l + 1)' = m
      BY <1>10, <2>2 DEF Item
    <3>2. \A k \in 1 .. l + 1 : k \in 1 .. l \/ k = l + 1
      BY <1>6
    <3>3. \A k \in 1 .. Len(stack') : Item(k)' \notin visited'
      BY <1>5, <1>12, <1>14, <2>2, <3>1, <3>2
    <3>4. \A j, k \in 1 .. Len(stack') : j # k => Item(j)' # Item(k)'
      BY <1>12, <1>14, <1>15, <2>2, <3>1, <3>2
    <3>5. ASSUME NEW k \in 1 .. Len(stack') - 1
          PROVE  Item(k + 1)' \in Graph'[Item(k)'] /\ Item(k)' \in path'
      <4>1. k \in 1 .. l /\ (k = l \/ (k \in 1 .. l - 1 /\ k + 1 \in 1 .. l))
        BY <1>6, <3>1
      <4>2. Item(k)' = it[k] /\ it[k] \in path'
        BY <1>5, <1>12, <1>15, <4>1
      <4>3. CASE k = l
        BY <1>8, <1>9, <1>13, <3>1, <4>2, <4>3
      <4>4. CASE k \in 1 .. l - 1 /\ k + 1 \in 1 .. l
        BY <1>9, <1>12, <1>14, <4>2, <4>4
      <4> QED BY <4>1, <4>2, <4>3, <4>4
    <3>6. path' \subseteq {Item(k)' : k \in 1 .. Len(stack')}
      <4>1. \A k \in 1 .. l : k \in 1 .. Len(stack')
        BY <1>6, <3>1
      <4> QED BY <1>5, <1>12, <1>15, <4>1
    <3> QED BY <3>3, <3>4, <3>5, <3>6 DEF StackInv
  <2> QED BY <2>1, <2>2
<1>18. \A n \in reported' : Returns(Graph', n)
  <2>1. CASE m \notin on
    BY <1>5, <1>9, <2>1 DEF SearchInv
  <2>2. CASE m \in on
    <3>1. PICK j \in 1 .. l : m = it[j]
      BY <1>15, <2>2
    <3>2. Returns(Graph, m)
      BY <1>6, <1>8, <1>13, <1>14, <3>1, PathReturns
    <3> QED BY <1>5, <1>9, <2>2, <3>2 DEF SearchInv
  <2> QED BY <2>1, <2>2
<1>19. reported' = {} => NothingFound'
  <2> SUFFICES ASSUME m \notin on, reported = {}, NothingFound PROVE NothingFound'
    BY <1>5 DEF SearchInv
  <2>1. \A n \in visited' : Graph'[n] \subseteq visited' /\ ~Returns(Graph', n)
    BY <1>5, <1>9 DEF NothingFound
  <2> SUFFICES ASSUME NEW k \in 1 .. Len(stack'), NEW x \in Graph'[Item(k)'],
                      Position(Graph'[Item(k)'], x) < stack'[k][2]
               PROVE  x \in visited \/ (k < Len(stack') /\ x = Item(k + 1)')
    BY <1>5, <2>1 DEF NothingFound, Seen
  <2>2. CASE k \in 1 .. l - 1
    <3>1. k \in 1 .. l /\ k + 1 \in 1 .. l /\ k < Len(stack') /\ k < Len(stack)
      BY <1>1, <1>6, <1>10, <2>2
    <3>2. stack'[k] = stack[k] /\ Item(k)' = Item(k) /\ Item(k + 1)' = Item(k + 1)
      BY <1>10, <1>12, <2>2, <3>1
    <3>3. Seen(k, x)
      BY <1>1, <1>9, <3>1, <3>2 DEF NothingFound
    <3> QED BY <3>1, <3>2, <3>3 DEF Seen
  <2>3. CASE k = l
    <3>1. Item(k)' = t /\ stack'[k][2] = c + 1
      BY <1>6, <1>10, <1>12, <1>13, <2>3
    <3>2. x \in Graph[t] /\ Position(Graph[t], x) \in Nat
      BY <1>6, <1>9, <3>1, GraphIs, PositionIs
    <3>3. CASE Position(Graph[t], x) = c
      <4>1. x = m
        <5>1. m \in Graph[t] /\ Position(Graph[t], m) = c
          BY <1>6, <1>8
        <5>2. Graph[t] \subseteq Int /\ IsFiniteSet(Graph[t])
          BY <1>6, GraphIs
        <5> QED BY <3>2, <3>3, <5>1, <5>2, PositionIs
      <4>2. m \notin visited => Len(stack') = l + 1 /\ Item(l + 1)' = m
        BY <1>10 DEF Item
      <4> QED BY <1>6, <2>3, <4>1, <4>2
    <3>4. CASE Position(Graph[t], x) # c
      <4>1. Position(Graph[t], x) < c
        BY <1>6, <1>9, <3>1, <3>2, <3>4
      <4>2. Item(l) = t /\ l \in 1 .. Len(stack) /\ ~ (l < Len(stack))
        BY <1>1, <1>6 DEF Item
      <4>3. Seen(l, x)
        BY <1>6, <3>2, <4>1, <4>2 DEF NothingFound
      <4> QED BY <4>2, <4>3 DEF Seen
    <3> QED BY <3>3, <3>4
  <2>4. CASE k = l + 1 /\ m \notin on \cup visited
    <3>1. Item(k)' = m /\ stack'[k][2] = 0
      BY <1>10, <2>4 DEF Item
    <3>2. Position(Graph[m], x) \in Nat
      BY <1>8, <1>9, <3>1, GraphIs, PositionIs
    <3> QED BY <1>9, <3>1, <3>2
  <2> QED BY <1>6, <1>10, <2>2, <2>3, <2>4
<1>20. phase' # "detect" => reported' # {}
  BY <1>5
<1>21. reported' \subseteq Items
  BY <1>5, <1>8 DEF TypeOK
<1> QED BY <1>5, <1>10, <1>16, <1>17, <1>18, <1>19, <1>20, <1>21 DEF SearchInv

LEMMA LeaveKeeps ==
    ASSUME TypeOK, SearchInv, Leave
    PROVE  /\ SearchInv' /\ stack' \in Seq(Items \X Nat)
           /\ path' \subseteq Items /\ visited' \subseteq Items
<1>1. PICK l, t, c : l = Len(stack) /\ t = Top[1] /\ c = Top[2]
  OBVIOUS
<1>2. /\ phase = "detect" /\ stack # << >> /\ c >= Cardinality(Edges(t))
      /\ path' = path \ {t} /\ visited' = visited \cup {t} /\ stack' = Rest
      /\ UNCHANGED <<input, phase, reported>>
  BY <1>1 DEF Leave
<1>3. /\ l \in Nat \ {0} /\ t \in Items /\ c \in Nat
      /\ stack' \in Seq(Items \X Nat) /\ Len(stack') = l - 1
      /\ \A k \in 1 .. l - 1 : stack'[k] = stack[k]
      /\ Item(l) = t /\ stack[l][2] = c
  BY <1>1, <1>2, StackIs DEF Item
<1>4. Graph' = Graph
  BY <1>2, GraphStays
<1>5. \A k \in 1 .. l - 1 : /\ Item(k)' = Item(k) /\ k \in 1 .. l /\ k \in 1 .. Len(stack')
                            /\ k + 1 \in 1 .. l
  BY <1>3 DEF Item
<1>6. /\ \A k \in 1 .. l : Item(k) \notin visited
      /\ \A j, k \in 1 .. l : j # k => Item(j) # Item(k)
      /\ \A k \in 1 .. l - 1 : Item(k + 1) \in Graph[Item(k)] /\ Item(k) \in path
      /\ path \subseteq {Item(k) : k \in 1 .. l}
  BY <1>1 DEF SearchInv, StackInv
<1>7. \A k \in 1 .. l - 1 : Item(k) # t
  <2>1. l \in 1 .. l /\ \A k \in 1 .. l - 1 : k # l
    BY <1>3
  <2> QED BY <1>3, <1>5, <1>6, <2>1
<1>8. StackInv'
  <2>1. \A k \in 1 .. Len(stack') : Item(k)' \notin visited'
    BY <1>2, <1>3, <1>5, <1>6, <1>7
  <2>2. \A j, k \in 1 .. Len(stack') : j # k => Item(j)' # Item(k)'
    BY <1>3, <1>5, <1>6
  <2>3. ASSUME NEW k \in 1 .. Len(stack') - 1
        PROVE  Item(k + 1)' \in Graph'[Item(k)'] /\ Item(k)' \in path'
    <3>1. k \in 1 .. l - 1 /\ k + 1 \in 1 .. l - 1
      BY <1>3
    <3> QED BY <1>2, <1>4, <1>5, <1>6, <1>7, <3>1
  <2>4. path' \subseteq {Item(k)' : k \in 1 .. Len(stack')}
    <3> SUFFICES ASSUME NEW x \in path, x # t
                 PROVE  \E k \in 1 .. Len(stack') : x = Item(k)'
      BY <1>2
    <3>1. PICK k \in 1 .. l : x = Item(k)
      BY <1>6
    <3>2. k \in 1 .. l - 1
      BY <1>3, <3>1
    <3> QED BY <1>5, <3>1, <3>2
  <2> QED BY <2>1, <2>2, <2>3, <2>4 DEF StackInv
<1>9. NothingFound => NothingFound'
  <2> SUFFICES ASSUME NothingFound PROVE NothingFound'
    OBVIOUS
  <2>1. Graph[t] \subseteq visited
    <3> SUFFICES ASSUME NEW m \in Graph[t] PROVE m \in visited
      OBVIOUS
    <3>1. Position(Graph[t], m) \in Nat /\ Position(Graph[t], m) < Cardinality(Graph[t])
      BY <1>3, GraphIs, PositionIs
    <3>2. Cardinality(Graph[t]) <= c /\ Cardinality(Graph[t]) \in Nat
      BY <1>2, <1>3, GraphIs
    <3>3. l \in 1 .. Len(stack) /\ ~ (l < Len(stack)) /\ Position(Graph[t], m) < stack[l][2]
      BY <1>1, <1>3, <3>1, <3>2
    <3>4. Seen(l, m)
      BY <1>3, <3>3 DEF NothingFound
    <3> QED BY <3>3, <3>4 DEF Seen
  <2>2. visited \in SUBSET Items /\ t \notin visited /\ \A n \in visited : Graph[n] \subseteq visited
    <3>1. l \in 1 .. l
      BY <1>3
    <3> QED BY <1>3, <1>6, <3>1 DEF NothingFound, TypeOK
  <2>3. ~Returns(Graph, t)
    BY <2>1, <2>2 DEF Returns
  <2>4. \A n \in visited' : Graph'[n] \subseteq visited' /\ ~Returns(Graph', n)
    BY <1>2, <1>4, <2>1, <2>3 DEF NothingFound
  <2>5. ASSUME NEW k \in 1 .. Len(stack'), NEW x \in Graph'[Item(k)'],
               Position(Graph'[Item(k)'], x) < stack'[k][2]
        PROVE  x \in visited' \/ (k < Len(stack') /\ x = Item(k + 1)')
    <3>1. k \in 1 .. l - 1 /\ k \in 1 .. Len(stack)
      BY <1>1, <1>3
    <3>2. Seen(k, x)
      BY <1>3, <1>4, <1>5, <2>5, <3>1 DEF NothingFound
    <3>3. CASE k = l - 1
      BY <1>1, <1>2, <1>3, <3>2, <3>3 DEF Seen
    <3>4. CASE k # l - 1
      <4>1. k + 1 \in 1 .. l - 1 /\ k < Len(stack')
        BY <1>3, <3>1, <3>4
      <4> QED BY <1>2, <1>5, <3>2, <4>1 DEF Seen
    <3> QED BY <3>3, <3>4
  <2> QED BY <2>4, <2>5 DEF NothingFound, Seen
<1>10. path' \subseteq Items /\ visited' \subseteq Items
  BY <1>2, <1>3 DEF TypeOK
<1> QED BY <1>2, <1>3, <1>4, <1>8, <1>9, <1>10 DEF SearchInv

-----------------------------------------------------------------------------
(* The queue *)

\* What an item needs and does not find among P.
LEMMA NeedsAre ==
    ASSUME TypeOK, NEW n \in Items, NEW P
    PROVE  IsFiniteSet(Inner(n) \ P) /\ Cardinality(Inner(n) \ P) \in Nat
<1>1. (Inner(n) \ P) \in SUBSET Items
  BY DEF Inner
<1> QED BY <1>1, FS_Subset, FS_CardinalityType

LEMMA PlacedAre ==
    ASSUME TypeOK
    PROVE  /\ Placed(Len(order)) \subseteq Items
           /\ \A k \in DOMAIN order : order[k] \in Placed(Len(order))
           /\ \A i \in 0 .. Len(order) : Placed(i) \subseteq Placed(Len(order))
<1>1. order \in Seq(Items) /\ Len(order) \in Nat /\ DOMAIN order = 1 .. Len(order)
  BY DEF TypeOK
<1> QED BY <1>1 DEF Placed

LEMMA PlaceKeeps ==
    ASSUME TypeOK, KahnInv, OrderedInv, Place
    PROVE  KahnInv' /\ OrderedInv' /\ order' \in Seq(Items)
           /\ ready' \subseteq Items /\ degree' \in [Items -> Nat]
<1>0. PICK l : l = Len(order)
  OBVIOUS
<1>1. PICK n : n = First(ready)
  OBVIOUS
<1>2. PICK P : P = Placed(l) /\ P = Placed(Len(order))
  BY <1>0
<1>3. /\ order' = Append(order, n) /\ ready' = (ready \ {n}) \cup Freed(n)
      /\ degree' = [m \in Items |-> IF m \in Users(n) THEN degree[m] - 1 ELSE degree[m]]
      /\ phase = "order" /\ UNCHANGED <<input, phase, dfs, completed>>
  BY <1>1 DEF Place
<1>4. ready = {m \in Items \ P : Inner(m) \subseteq P} /\ P \subseteq Items
  BY <1>2, PlacedAre DEF KahnInv
<1>5. n \in ready /\ \A m \in ready : Before(n, m)
  BY <1>1, <1>4, FirstIs DEF Place, TypeOK
<1>6. n \in Items /\ n \notin P /\ Inner(n) \subseteq P
  BY <1>4, <1>5
<1>7. /\ order' \in Seq(Items) /\ l \in Nat /\ Len(order') = l + 1
      /\ order'[l + 1] = n /\ \A k \in 1 .. l : order'[k] = order[k]
      /\ DOMAIN order = 1 .. l
  BY <1>0, <1>3, <1>6 DEF TypeOK
<1>8. \A i \in 0 .. l : Placed(i)' = Placed(i)
  BY <1>7 DEF Placed
<1>9. Placed(l + 1)' = P \cup {n}
  <2>1. \A k \in 1 .. l + 1 : k \in 1 .. l \/ k = l + 1
    BY <1>7
  <2>2. 1 .. l \subseteq 1 .. l + 1 /\ l + 1 \in 1 .. l + 1
    BY <1>7
  <2>3. Placed(l + 1)' = {order'[k] : k \in 1 .. l + 1}
    BY DEF Placed
  <2>4. P = {order'[k] : k \in 1 .. l}
    BY <1>2, <1>7 DEF Placed
  <2> QED BY <1>7, <2>1, <2>2, <2>3, <2>4
<1>10. deps' = deps /\ index' = index
  BY <1>3 DEF input
<1>11. \A m \in Items : degree[m] = Cardinality(Inner(m) \ P)
  BY <1>2 DEF KahnInv
<1>12. ASSUME NEW m \in Items
       PROVE  /\ m \in Users(n) <=> n \in Inner(m) \ P
              /\ degree'[m] = Cardinality(Inner(m) \ (P \cup {n}))
              /\ degree'[m] \in Nat
  <2>1. m \in Users(n) <=> n \in Inner(m) \ P
    BY <1>6 DEF Users, Inner
  <2>2. Inner(m) \ (P \cup {n}) = (Inner(m) \ P) \ {n}
    OBVIOUS
  <2>3. Cardinality((Inner(m) \ P) \ {n})
           = IF n \in Inner(m) \ P THEN Cardinality(Inner(m) \ P) - 1
                                   ELSE Cardinality(Inner(m) \ P)
    BY NeedsAre, FS_RemoveElement
  <2>4. degree'[m] = IF m \in Users(n) THEN degree[m] - 1 ELSE degree[m]
    BY <1>3
  <2>5. degree'[m] = Cardinality(Inner(m) \ (P \cup {n}))
    BY <1>11, <2>1, <2>2, <2>3, <2>4
  <2>6. (Inner(m) \ (P \cup {n})) \in SUBSET Items
    BY DEF Inner
  <2>7. Cardinality(Inner(m) \ (P \cup {n})) \in Nat
    BY <2>6, FS_Subset, FS_CardinalityType
  <2> QED BY <2>1, <2>5, <2>7
<1>13. ready' = {m \in Items \ (P \cup {n}) : Inner(m) \subseteq P \cup {n}}
  <2>1. ASSUME NEW m \in Items
        PROVE  m \in Freed(n) <=> n \in Inner(m) \ P /\ Inner(m) \subseteq P \cup {n}
    <3>1. m \in Freed(n) <=> n \in Inner(m) \ P /\ Cardinality(Inner(m) \ P) = 1
      BY <1>11, <1>12 DEF Freed
    <3>2. Cardinality(Inner(m) \ P) = 1 <=> \E x : Inner(m) \ P = {x}
      BY NeedsAre, FS_Singleton
    <3> QED BY <3>1, <3>2
  <2>2. \A m \in P : Inner(m) \subseteq P
    <3> SUFFICES ASSUME NEW m \in P PROVE Inner(m) \subseteq P
      OBVIOUS
    <3>1. PICK k \in 1 .. l : m = order[k]
      BY <1>2 DEF Placed
    <3>2. Inner(m) \subseteq Placed(k - 1)
      BY <1>7, <3>1 DEF OrderedInv
    <3>3. k - 1 \in 0 .. Len(order)
      BY <1>0, <1>7
    <3>4. Placed(k - 1) \subseteq P
      BY <1>2, <3>3, PlacedAre
    <3> QED BY <3>2, <3>4
  <2>3. Freed(n) \subseteq Items
    BY DEF Freed, Users
  <2>4. ASSUME NEW m \in Freed(n)
        PROVE  m \notin P \cup {n} /\ Inner(m) \subseteq P \cup {n}
    <3>1. n \in Inner(m) \ P /\ Inner(m) \subseteq P \cup {n}
      BY <2>1, <2>3
    <3>2. m \notin P
      BY <2>2, <3>1
    <3>3. m # n
      BY <1>6, <3>1
    <3> QED BY <3>1, <3>2, <3>3
  <2>5. ASSUME NEW m \in Items \ (P \cup {n}), Inner(m) \subseteq P \cup {n}
        PROVE  m \in (ready \ {n}) \cup Freed(n)
    <3>1. CASE n \in Inner(m)
      BY <1>6, <2>1, <2>5, <3>1
    <3>2. CASE n \notin Inner(m)
      BY <1>4, <2>5, <3>2
    <3> QED BY <3>1, <3>2
  <2>6. ASSUME NEW m \in ready \ {n}
        PROVE  m \in Items \ (P \cup {n}) /\ Inner(m) \subseteq P \cup {n}
    BY <1>4
  <2> QED BY <1>3, <2>3, <2>4, <2>5, <2>6
<1>14. KahnInv'
  <2>1. degree' = [m \in Items |-> Cardinality(Inner(m) \ (P \cup {n}))]
    <3>1. \A m \in Items : degree'[m] = Cardinality(Inner(m) \ (P \cup {n}))
      BY <1>12
    <3>2. degree' = [m \in Items |-> degree'[m]]
      BY <1>3
    <3> QED BY <3>1, <3>2
  <2>2. Placed(Len(order))' = P \cup {n}
    BY <1>7, <1>9 DEF Placed
  <2>3. phase' = "order"
    BY <1>3
  <2>4. degree' = [m \in Items |-> Cardinality(Inner(m)' \ Placed(Len(order))')]
    BY <1>10, <2>1, <2>2 DEF Inner
  <2>5. ready' = {m \in Items \ Placed(Len(order))' : Inner(m)' \subseteq Placed(Len(order))'}
    BY <1>10, <1>13, <2>2 DEF Inner
  <2> QED BY <2>3, <2>4, <2>5 DEF KahnInv
<1>15. OrderedInv'
  <2> SUFFICES ASSUME NEW i \in 1 .. l + 1
               PROVE  /\ order'[i] \notin Placed(i - 1)'
                      /\ Inner(order[i])' \subseteq Placed(i - 1)'
                      /\ \A m \in Items \ Placed(i - 1)' :
                            Inner(m)' \subseteq Placed(i - 1)' => Before(order[i], m)'
    <3>1. DOMAIN order' = 1 .. l + 1
      BY <1>7
    <3> QED BY <3>1 DEF OrderedInv
  <2>1. i - 1 \in 0 .. l /\ order'[i] \in Items
    BY <1>7
  <2>2. Placed(i - 1)' = Placed(i - 1)
    BY <1>8, <2>1
  <2>3. CASE i \in 1 .. l
    <3>1. order'[i] = order[i] /\ i \in DOMAIN order
      BY <1>7, <2>3
    <3> QED BY <1>10, <2>2, <3>1 DEF OrderedInv, Inner, Before
  <2>4. CASE i = l + 1
    <3>0. i - 1 = l
      BY <1>7, <2>4
    <3>1. order'[i] = n /\ Placed(i - 1)' = P
      BY <1>2, <1>7, <2>2, <2>4, <3>0
    <3>2. \A m \in Items \ P : Inner(m) \subseteq P => Before(n, m)
      BY <1>4, <1>5
    <3> QED BY <1>6, <1>10, <3>1, <3>2 DEF Inner, Before
  <2> QED BY <1>7, <2>3, <2>4
<1>16. degree' \in [Items -> Nat]
  <2>1. \A m \in Items : degree'[m] \in Nat
    BY <1>12
  <2> QED BY <1>3, <2>1
<1>17. ready' \subseteq Items
  BY <1>13
<1> QED BY <1>7, <1>14, <1>15, <1>16, <1>17

-----------------------------------------------------------------------------
(* The invariant *)

LEMMA InitInv == Init => Inv
<1> SUFFICES ASSUME Init PROVE Inv
  OBVIOUS
<1> USE DEF Init
<1>1. \A n \in Items : Cardinality(Inner(n)) \in Nat
  <2> TAKE n \in Items
  <2>1. Inner(n) \in SUBSET Items
    BY DEF Inner
  <2> QED BY <2>1, FS_Subset, FS_CardinalityType
<1>2. degree \in [Items -> Nat]
  BY <1>1
<1>3. stack \in Seq(Items \X Nat) /\ order \in Seq(Items)
  OBVIOUS
<1>4. TypeOK
  BY <1>2, <1>3 DEF TypeOK, Engines
<1>5. SearchInv
  <2>1. StackInv
    BY DEF StackInv
  <2>2. NothingFound
    BY DEF NothingFound
  <2>3. phase = "detect" \/ engine = "job"
    OBVIOUS
  <2> QED BY <2>1, <2>2, <2>3 DEF SearchInv
<1>6. Placed(Len(order)) = {}
  BY DEF Placed
<1>7. KahnInv
  <2>1. \A n \in Items : Inner(n) \ {} = Inner(n)
    OBVIOUS
  <2>2. degree = [n \in Items |-> Cardinality(Inner(n) \ Placed(Len(order)))]
    BY <1>6, <2>1
  <2>3. ready = {n \in Items \ Placed(Len(order)) : Inner(n) \subseteq Placed(Len(order))}
    BY <1>6
  <2>4. order = << >> /\ phase # "done" /\ (phase = "execute" => engine = "job")
    OBVIOUS
  <2> QED BY <2>2, <2>3, <2>4 DEF KahnInv
<1>8. OrderedInv
  BY DEF OrderedInv
<1> QED BY <1>4, <1>5, <1>7, <1>8 DEF Inv

\* The queue is as it was.
LEMMA KahnStays ==
    ASSUME KahnInv, OrderedInv, UNCHANGED <<input, kahn>>
    PROVE  /\ degree' = [n \in Items |-> Cardinality(Inner(n) \ Placed(Len(order)))]'
           /\ ready' = {n \in Items \ Placed(Len(order)) : Inner(n) \subseteq Placed(Len(order))}'
           /\ OrderedInv'
<1> USE DEF input, kahn, Inner, Placed, Before
<1>1. degree' = [n \in Items |-> Cardinality(Inner(n) \ Placed(Len(order)))]'
  BY DEF KahnInv
<1>2. ready' = {n \in Items \ Placed(Len(order)) : Inner(n) \subseteq Placed(Len(order))}'
  BY DEF KahnInv
<1>3. OrderedInv'
  BY DEF OrderedInv
<1> QED BY <1>1, <1>2, <1>3

\* The search is as it was.
LEMMA SearchStays ==
    ASSUME SearchInv, UNCHANGED <<input, dfs>>,
           phase = "detect" => phase' = "detect" \/ visited = Items
    PROVE  SearchInv'
<1>1. /\ stack' = stack /\ path' = path /\ visited' = visited
      /\ reported' = reported /\ engine' = engine
  BY DEF dfs, input
<1>2. Graph' = Graph
  BY GraphStays
<1>3. StackInv' /\ (NothingFound => NothingFound')
  BY <1>1, <1>2 DEF SearchInv, StackInv, NothingFound, Item, Seen
<1> QED BY <1>1, <1>2, <1>3 DEF SearchInv

LEMMA SearchStep ==
    ASSUME Inv, Start \/ Look \/ Leave \/ EndSearch PROVE Inv'
<1> USE DEF Inv
<1>1. UNCHANGED <<input, kahn, completed>>
  BY DEF Start, Look, Leave, EndSearch
<1>2. phase = "detect" /\ phase' \in {"detect", "order", "done"}
  BY DEF Start, Look, Leave, EndSearch
<1>3. /\ SearchInv' /\ stack' \in Seq(Items \X Nat)
      /\ path' \subseteq Items /\ visited' \subseteq Items /\ reported' \subseteq Items
  <2>1. CASE Start
    BY <2>1, StartKeeps DEF Start, TypeOK
  <2>2. CASE Look
    BY <2>2, LookKeeps DEF Look, TypeOK
  <2>3. CASE Leave
    BY <2>3, LeaveKeeps DEF Leave, TypeOK
  <2>4. CASE EndSearch
    <3>1. SearchInv'
      BY <2>4, SearchStays DEF EndSearch
    <3> QED BY <2>4, <3>1 DEF EndSearch, dfs, TypeOK
  <2> QED BY <2>1, <2>2, <2>3, <2>4
<1>4. TypeOK'
  BY <1>1, <1>2, <1>3 DEF TypeOK, input, kahn
<1>5. KahnInv' /\ OrderedInv'
  <2>1. order = << >> /\ order' = << >>
    BY <1>1, <1>2 DEF KahnInv, kahn
  <2> QED BY <1>1, <1>2, <2>1, KahnStays DEF KahnInv
<1> QED BY <1>3, <1>4, <1>5

LEMMA OtherStep ==
    ASSUME Inv, Place \/ EndOrder \/ (\E n \in Items : Run(n)) \/ Stop \/ UNCHANGED vars
    PROVE  Inv'
<1> USE DEF Inv
<1>1. UNCHANGED <<input, dfs>> /\ (phase' = phase \/ phase # "detect")
  BY DEF Place, EndOrder, Run, Stop, vars
<1>2. SearchInv'
  BY <1>1, SearchStays
<1>3. CASE Place
  <2>1. /\ KahnInv' /\ OrderedInv' /\ order' \in Seq(Items)
        /\ ready' \subseteq Items /\ degree' \in [Items -> Nat]
    BY <1>3, PlaceKeeps
  <2>2. TypeOK'
    BY <1>1, <1>3, <2>1 DEF Place, TypeOK, input, dfs
  <2> QED BY <1>2, <2>1, <2>2
<1>4. CASE EndOrder \/ (\E n \in Items : Run(n)) \/ Stop \/ UNCHANGED vars
  <2>1. UNCHANGED kahn
    BY <1>4 DEF EndOrder, Run, Stop, vars
  <2>2. TypeOK'
    BY <1>1, <1>4, <2>1 DEF EndOrder, Run, Stop, vars, TypeOK, input, dfs, kahn
  <2>3. /\ phase' = "detect" => phase = "detect"
        /\ phase' = "execute" => phase = "execute" \/ ready = {}
        /\ phase' = "done" => phase \in {"execute", "done"}
    BY <1>4 DEF EndOrder, Run, Stop, vars
  <2>4. KahnInv' /\ OrderedInv'
    BY <1>1, <2>1, <2>3, KahnStays DEF KahnInv, kahn, input
  <2> QED BY <1>2, <2>2, <2>4
<1> QED BY <1>3, <1>4

LEMMA InvHolds == Spec => []Inv
<1>1. Inv /\ [Next]_vars => Inv'
  BY SearchStep, OtherStep DEF Next, Search, Order
<1> QED BY InitInv, <1>1, PTL DEF Spec

\* The search's stack holds items with positions, the queue items with numbers
\* of open dependencies, whatever the graph (TypeOK of DependencyEngines).
THEOREM TypeCorrect == Spec => []TypeOK
<1>1. Inv => TypeOK
  BY DEF Inv
<1> QED BY InvHolds, <1>1, PTL

-----------------------------------------------------------------------------
(* The properties *)

\* detect_cycle and detect_conflict report something exactly if some item of
\* the set depends on itself through others, and only such items, for any set of
\* items and any dependencies.
THEOREM CyclesFound == Spec => []CyclesAreFound
<1>1. Inv => CyclesAreFound
  <2> SUFFICES ASSUME Inv, phase \in {"order", "execute", "done"}, engine # "job"
               PROVE  /\ reported # {} <=> HasCycle
                      /\ \A n \in reported : OnCycle(n)
    BY DEF CyclesAreFound
  <2>1. TypeOK /\ SearchInv /\ reported \subseteq Items
    BY DEF Inv, TypeOK
  <2>2. \A n \in reported : OnCycle(n)
    BY <2>1, ReturnsIs DEF SearchInv
  <2>3. ASSUME reported = {} PROVE ~HasCycle
    <3>1. visited = Items
      BY <2>1, <2>3 DEF SearchInv
    <3>2. \A n \in Items : ~Returns(Graph, n)
      BY <2>1, <2>3, <3>1 DEF SearchInv, NothingFound
    <3> QED BY <2>1, <3>2, ReturnsIs DEF HasCycle
  <2>4. ASSUME reported # {} PROVE HasCycle
    BY <2>1, <2>2, <2>4 DEF HasCycle
  <2> QED BY <2>2, <2>3, <2>4
<1> QED BY InvHolds, <1>1, PTL

\* determine_execution_order lists every item once, after all it depends on, the
\* least first, and stops only at items that need one it left out.
THEOREM OrderHolds == Spec => []OrderIsRight
<1>1. Inv => OrderIsRight
  <2> SUFFICES ASSUME Inv, phase \in {"execute", "done"}, engine # "job",
                      phase = "execute" \/ order # << >>
               PROVE  /\ OrderedInv
                      /\ \A n \in Items \ Placed(Len(order)) : Inner(n) \ Placed(Len(order)) # {}
    BY DEF OrderIsRight, OrderedInv
  <2>1. ready = {}
    BY DEF Inv, KahnInv
  <2>2. ready = {n \in Items \ Placed(Len(order)) : Inner(n) \subseteq Placed(Len(order))}
    BY DEF Inv, KahnInv
  <2>3. OrderedInv
    BY DEF Inv
  <2> QED BY <2>1, <2>2, <2>3
<1> QED BY InvHolds, <1>1, PTL
=============================================================================
