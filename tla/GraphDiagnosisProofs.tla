------------------------ MODULE GraphDiagnosisProofs ------------------------
(***************************************************************************)
(* Theorems about GraphDiagnosis and SyncDoctor for any updates and any    *)
(* configuration.                                                          *)
(*                                                                         *)
(* What the diagnoses search is Reach, which is computed step by step; it  *)
(* is shown once to be the least set that has no edge out of it, and all   *)
(* that follows rests on this.                                             *)
(***************************************************************************)
EXTENDS SyncDoctor, SyncGraphProofs, SequenceTheorems, FiniteSetTheorems

------------------------------------------------------------------------------
(* Reachability. *)

\* What a function leads to when it is applied again and again, from s.
IsIteration(D, F, s, N, f) ==
  /\ f \in [0..N -> D] /\ f[0] = s
  /\ \A n \in 1..N : f[n] = F[f[n - 1]]

\* A function on a set can be iterated any number of times.
LEMMA Iterates ==
  ASSUME NEW D, NEW F \in [D -> D], NEW s \in D, NEW N \in Nat
  PROVE  \E f : IsIteration(D, F, s, N, f)
<1> DEFINE Upto(k, f) == IsIteration(D, F, s, k, f)
           Missing == {k \in 0..N : ~ \E f : Upto(k, f)}
<1>1. Upto(0, [n \in 0..0 |-> s])
  BY DEF IsIteration
<1>2. ASSUME NEW k \in 1..N, NEW f, Upto(k - 1, f)
      PROVE  \E g : Upto(k, g)
  <2> DEFINE g == [n \in 0..k |-> IF n = k THEN F[f[k - 1]] ELSE f[n]]
  <2> USE DEF IsIteration
  <2>1. \A n \in 0..(k - 1) : g[n] = f[n] /\ f[n] \in D
    BY <1>2
  <2>2. k - 1 \in 0..(k - 1) /\ g[k] = F[f[k - 1]]
    OBVIOUS
  <2>3. g \in [0..k -> D] /\ g[0] = s
    BY <1>2, <2>1, <2>2
  <2>4. ASSUME NEW n \in 1..k PROVE g[n] = F[g[n - 1]]
    <3>1. n - 1 \in 0..(k - 1)
      OBVIOUS
    <3>2. CASE n = k
      BY <2>1, <2>2, <3>2
    <3>3. CASE n # k
      <4>1. n \in 0..(k - 1) /\ n \in 1..(k - 1)
        BY <3>3
      <4> QED BY <1>2, <2>1, <3>1, <4>1
    <3> QED BY <3>2, <3>3
  <2> HIDE DEF g
  <2> QED BY <2>3, <2>4
<1> HIDE DEF Upto
<1>3. Missing = {}
  <2> SUFFICES ASSUME Missing # {} PROVE FALSE
    OBVIOUS
  <2>1. PICK k \in Missing : \A j \in Missing : k <= j
    <3>1. Missing \in SUBSET Nat
      OBVIOUS
    <3> HIDE DEF Missing
    <3> QED BY <3>1, LeastNatural
  <2>2. k # 0
    BY <1>1, <2>1
  <2>3. k \in 1..N /\ k - 1 \in 0..N /\ k - 1 \notin Missing
    BY <2>1, <2>2
  <2> QED BY <1>2, <2>1, <2>3
<1>4. \E f : Upto(N, f)
  BY <1>3
<1> QED BY <1>4 DEF Upto

\* No edge leads out of T.
IsClosed(G, T) ==
  \A x \in T : \A y \in G.node : <<x, y>> \in G.edge => y \in T

\* A set that no edge leaves gets no successors; any other one gets larger.
LEMMA SuccessorsStay ==
  ASSUME NEW G, NEW T \in SUBSET G.node
  PROVE  /\ AllSuccessors(G, T) \subseteq G.node
         /\ IsClosed(G, T) <=> T \cup AllSuccessors(G, T) = T
<1>1. \A y : y \in AllSuccessors(G, T)
              <=> y \in G.node /\ \E x \in T : <<x, y>> \in G.edge
  <2>1. \A x, y : y \in Successors(G, x)
                    <=> y \in G.node /\ <<x, y>> \in G.edge
    BY DEF Successors
  <2>2. \A y : y \in AllSuccessors(G, T) <=> \E x \in T : y \in Successors(G, x)
    BY Zenon DEF AllSuccessors
  <2> QED BY <2>1, <2>2
<1>2. AllSuccessors(G, T) \subseteq G.node
  BY <1>1
<1>3. T \cup AllSuccessors(G, T) = T <=> AllSuccessors(G, T) \subseteq T
  OBVIOUS
<1> QED BY <1>1, <1>2, <1>3 DEF IsClosed

\* The steps of a search, as Reach defines them: each adds the successors of
\* what the one before has.
IsSearch(G, S, N, f) ==
  f = [n \in 0..N |-> IF n = 0 THEN S
                      ELSE f[n - 1] \cup AllSuccessors(G, f[n - 1])]

\* The search for what can be reached is a function, whatever its number of rounds.
LEMMA SearchExists ==
  ASSUME NEW G, NEW S \in SUBSET G.node, NEW N \in Nat
  PROVE  \E f : IsSearch(G, S, N, f)
<1> DEFINE D == SUBSET G.node
           F == [T \in D |-> T \cup AllSuccessors(G, T)]
<1>1. F \in [D -> D]
  BY SuccessorsStay
<1>2. S \in D
  OBVIOUS
<1> HIDE DEF D, F
<1>3. PICK f : IsIteration(D, F, S, N, f)
  BY <1>1, <1>2, Iterates
<1>4. \A n \in 1..N : f[n] = f[n - 1] \cup AllSuccessors(G, f[n - 1])
  <2>1. \A n \in 1..N : n - 1 \in 0..N
    OBVIOUS
  <2> QED BY <1>3, <2>1 DEF F, IsIteration
<1>5. f = [n \in 0..N |-> IF n = 0 THEN S
                          ELSE f[n - 1] \cup AllSuccessors(G, f[n - 1])]
  BY <1>3, <1>4 DEF IsIteration
<1> QED BY <1>5 DEF IsSearch

\* The last step of the search is what is reached.
LEMMA ReachIsSearch ==
  ASSUME NEW G, NEW S \in SUBSET G.node, Cardinality(G.node) \in Nat
  PROVE  \E f : /\ DOMAIN f = 0..Cardinality(G.node)
                /\ f[0] = S
                /\ \A n \in 1..Cardinality(G.node) :
                     f[n] = f[n - 1] \cup AllSuccessors(G, f[n - 1])
                /\ Reach(G, S) = f[Cardinality(G.node)]
<1> DEFINE N == Cardinality(G.node)
           step[n \in 0..N] ==
             IF n = 0 THEN S
             ELSE LET known == step[n - 1] IN known \cup AllSuccessors(G, known)
<1>1. Reach(G, S) = step[N]
  BY DEF Reach
<1>2. step = [n \in 0..N |-> IF n = 0 THEN S
                             ELSE step[n - 1] \cup AllSuccessors(G, step[n - 1])]
  <2>1. N \in Nat
    OBVIOUS
  <2>2. step = CHOOSE f : IsSearch(G, S, N, f)
    BY DEF IsSearch
  <2> HIDE DEF N, step
  <2>3. IsSearch(G, S, N, step)
    BY <2>1, <2>2, SearchExists, Zenon
  <2> QED BY <2>3 DEF IsSearch
<1> HIDE DEF step
<1>3. /\ DOMAIN step = 0..N
      /\ step[0] = S
      /\ \A n \in 1..N : step[n] = step[n - 1] \cup AllSuccessors(G, step[n - 1])
  <2>1. DOMAIN step = 0..N
    BY <1>2
  <2>2. \A n \in 0..N : step[n] = IF n = 0 THEN S
                          ELSE step[n - 1] \cup AllSuccessors(G, step[n - 1])
    BY <1>2
  <2> QED BY <2>1, <2>2
<1> QED BY <1>1, <1>3

\* What is reached from S is the least set that has S and that no edge leaves.
LEMMA ReachIsClosure ==
  ASSUME NEW G, IsFiniteSet(G.node), NEW S \in SUBSET G.node
  PROVE  /\ S \subseteq Reach(G, S)
         /\ Reach(G, S) \subseteq G.node
         /\ IsClosed(G, Reach(G, S))
         /\ \A T : S \subseteq T /\ IsClosed(G, T) => Reach(G, S) \subseteq T
<1> DEFINE N == Cardinality(G.node)
<1>1. N \in Nat
  BY FS_CardinalityType
<1>2. PICK f : /\ DOMAIN f = 0..N
               /\ f[0] = S
               /\ \A n \in 1..N : f[n] = f[n - 1] \cup AllSuccessors(G, f[n - 1])
               /\ Reach(G, S) = f[N]
  BY <1>1, ReachIsSearch
<1> HIDE DEF N
<1>3. ASSUME NEW T, S \subseteq T, IsClosed(G, T), NEW n \in 0..N
      PROVE  f[n] \subseteq T
  <2> DEFINE Bad == {m \in 0..N : ~(f[m] \subseteq T)}
  <2> SUFFICES ASSUME Bad # {} PROVE FALSE
    OBVIOUS
  <2>1. PICK m \in Bad : \A k \in Bad : m <= k
    <3>1. Bad \in SUBSET Nat
      OBVIOUS
    <3> HIDE DEF Bad
    <3> QED BY <3>1, LeastNatural
  <2>2. m \in 1..N
    BY <1>1, <1>2, <1>3, <2>1
  <2>3. m - 1 \in 0..N /\ m - 1 \notin Bad
    BY <1>1, <2>1, <2>2
  <2>4. f[m - 1] \subseteq T
    BY <2>3
  <2>5. f[m] = f[m - 1] \cup AllSuccessors(G, f[m - 1])
    BY <1>2, <2>2
  <2>6. AllSuccessors(G, f[m - 1]) \subseteq T
    BY <1>3, <2>4 DEF AllSuccessors, Successors, IsClosed
  <2> QED BY <2>1, <2>4, <2>5, <2>6
<1>4. \A n \in 0..N : f[n] \subseteq G.node
  BY <1>3 DEF IsClosed
<1>5. ASSUME NEW n \in 0..N
      PROVE  S \subseteq f[n] /\ (IsClosed(G, f[n]) \/ Cardinality(f[n]) >= n)
  <2> DEFINE Good(m) == /\ S \subseteq f[m]
                        /\ IsClosed(G, f[m]) \/ Cardinality(f[m]) >= m
             Bad == {m \in 0..N : ~ Good(m)}
  <2> SUFFICES ASSUME Bad # {} PROVE FALSE
    OBVIOUS
  <2>1. PICK m \in Bad : \A k \in Bad : m <= k
    <3>1. Bad \in SUBSET Nat
      OBVIOUS
    <3> HIDE DEF Bad
    <3> QED BY <3>1, LeastNatural
  <2>2. \A k \in 0..N : IsFiniteSet(f[k]) /\ Cardinality(f[k]) \in Nat
    BY <1>4, FS_Subset, FS_CardinalityType
  <2>3. m # 0
    <3>1. Good(0)
      BY <1>1, <1>2, <2>2
    <3> QED BY <2>1, <3>1
  <2>4. m \in 1..N /\ m - 1 \in 0..N /\ m - 1 \notin Bad
    BY <1>1, <2>1, <2>3
  <2>5. Good(m - 1)
    BY <2>4
  <2>6. f[m] = f[m - 1] \cup AllSuccessors(G, f[m - 1])
    BY <1>2, <2>4
  <2>7. CASE IsClosed(G, f[m - 1])
    <3>1. f[m] = f[m - 1]
      BY <1>4, <2>4, <2>6, <2>7, SuccessorsStay
    <3> QED BY <2>1, <2>5, <2>7, <3>1
  <2>8. CASE ~ IsClosed(G, f[m - 1])
    <3>1. f[m - 1] \subseteq f[m] /\ f[m] # f[m - 1]
      BY <1>4, <2>4, <2>6, <2>8, SuccessorsStay
    <3>2. Cardinality(f[m - 1]) <= Cardinality(f[m])
          /\ Cardinality(f[m - 1]) # Cardinality(f[m])
      BY <2>2, <2>4, <3>1, FS_Subset
    <3>3. Cardinality(f[m]) >= m
      BY <2>2, <2>4, <2>5, <2>8, <3>2
    <3> QED BY <2>1, <2>5, <3>1, <3>3
  <2> QED BY <2>7, <2>8
<1>6. IsClosed(G, f[N])
  <2>1. N \in 0..N
    BY <1>1
  <2>2. CASE Cardinality(f[N]) >= N
    <3>1. f[N] = G.node
      <4>1. /\ f[N] \in SUBSET G.node
            /\ Cardinality(f[N]) <= Cardinality(G.node)
            /\ IsFiniteSet(f[N])
        BY <1>4, <2>1, FS_Subset
      <4>2. Cardinality(f[N]) = Cardinality(G.node)
        BY <1>1, <2>2, <4>1, FS_CardinalityType DEF N
      <4> QED BY <4>1, <4>2, FS_Subset
    <3> QED BY <3>1 DEF IsClosed
  <2> QED BY <1>5, <2>1, <2>2
<1>7. N \in 0..N
  BY <1>1
<1> QED BY <1>2, <1>3, <1>4, <1>5, <1>6, <1>7

\* A graph with finitely many nodes, whose edges are between them.
IsFiniteGraph(G) == IsFiniteSet(G.node) /\ IsDirectedGraph(G)

\* The nodes below a are a, those that an edge leads to from one of them, and
\* no others.
LEMMA BelowIsClosure ==
  ASSUME NEW G, IsFiniteSet(G.node), NEW a \in G.node
  PROVE  /\ a \in Below(G, a)
         /\ Below(G, a) \subseteq G.node
         /\ \A x \in Below(G, a) : \A y \in G.node :
              <<x, y>> \in G.edge => y \in Below(G, a)
         /\ \A T : a \in T /\ IsClosed(G, T) => Below(G, a) \subseteq T
BY ReachIsClosure DEF Below, IsClosed

\* Below is transitive.
LEMMA BelowTransitive ==
  ASSUME NEW G, IsFiniteSet(G.node), NEW a \in G.node, NEW b \in Below(G, a)
  PROVE  b \in G.node /\ Below(G, b) \subseteq Below(G, a)
<1>1. b \in G.node
  BY BelowIsClosure
<1>2. IsClosed(G, Below(G, a))
  BY BelowIsClosure DEF IsClosed
<1> QED BY <1>1, <1>2, BelowIsClosure

\* Transposing a graph turns its edges around.
LEMMA Transposed ==
  ASSUME NEW G, IsDirectedGraph(G)
  PROVE  /\ Transpose(G).node = G.node
         /\ \A x, y : <<x, y>> \in Transpose(G).edge <=> <<y, x>> \in G.edge
         /\ IsDirectedGraph(Transpose(G))
BY DEF Transpose, IsDirectedGraph

\* The nodes above b are those that b is below.
LEMMA AboveIsBelow ==
  ASSUME NEW G, IsFiniteGraph(G), NEW a \in G.node, NEW b \in G.node
  PROVE  a \in Above(G, b) <=> b \in Below(G, a)
<1> DEFINE R == Transpose(G)
<1>1. /\ R.node = G.node /\ IsFiniteSet(R.node)
      /\ \A x, y : <<x, y>> \in R.edge <=> <<y, x>> \in G.edge
  BY Transposed DEF IsFiniteGraph
<1>2. \A x : Above(G, x) = Below(R, x)
  BY DEF Above, Below
<1> HIDE DEF R
<1>3. ASSUME b \in Below(G, a) PROVE a \in Above(G, b)
  <2> DEFINE T == {x \in G.node : a \in Below(R, x)}
  <2>1. a \in T
    BY <1>1, BelowIsClosure
  <2>2. ASSUME NEW x \in T, NEW y \in G.node, <<x, y>> \in G.edge
        PROVE  y \in T
    <3>1. x \in Below(R, y)
      BY <1>1, <2>2, BelowIsClosure
    <3> QED BY <1>1, <3>1, BelowTransitive
  <2>3. Below(G, a) \subseteq T
    <3> HIDE DEF T
    <3> QED BY <2>1, <2>2, BelowIsClosure DEF IsFiniteGraph, IsClosed
  <2> QED BY <1>2, <1>3, <2>3
<1>4. ASSUME a \in Above(G, b) PROVE b \in Below(G, a)
  <2> DEFINE T == {x \in G.node : b \in Below(G, x)}
  <2>1. b \in T
    BY BelowIsClosure DEF IsFiniteGraph
  <2>2. ASSUME NEW x \in T, NEW y \in R.node, <<x, y>> \in R.edge
        PROVE  y \in T
    <3>1. x \in Below(G, y) /\ y \in G.node
      BY <1>1, <2>2, BelowIsClosure DEF IsFiniteGraph
    <3> QED BY <3>1, BelowTransitive DEF IsFiniteGraph
  <2>3. Below(R, b) \subseteq T
    <3> HIDE DEF T
    <3> QED BY <1>1, <2>1, <2>2, BelowIsClosure DEF IsClosed
  <2> QED BY <1>2, <1>4, <2>3
<1> QED BY <1>3, <1>4

\* What is below a apart from a itself is reached from its successors.
LEMMA BelowBySuccessors ==
  ASSUME NEW G, IsFiniteSet(G.node), NEW a \in G.node
  PROVE  /\ \A b \in Below(G, a) : b = a \/ b \in Reach(G, Successors(G, a))
         /\ Reach(G, Successors(G, a)) \subseteq Below(G, a)
         /\ \A b \in Reach(G, Successors(G, a)) :
              Below(G, b) \subseteq Reach(G, Successors(G, a))
<1> DEFINE R == Reach(G, Successors(G, a))
<1>1. Successors(G, a) \in SUBSET G.node
  BY DEF Successors
<1>2. Successors(G, a) \subseteq R /\ R \subseteq G.node /\ IsClosed(G, R)
  BY <1>1, ReachIsClosure
<1>3. R \subseteq Below(G, a)
  <2>1. Successors(G, a) \subseteq Below(G, a) /\ IsClosed(G, Below(G, a))
    BY BelowIsClosure DEF Successors, IsClosed
  <2> QED BY <1>1, <2>1, ReachIsClosure
<1>4. Below(G, a) \subseteq {a} \cup R
  <2>1. IsClosed(G, {a} \cup R)
    BY <1>2 DEF IsClosed, Successors
  <2> QED BY <2>1, BelowIsClosure
<1>5. \A b \in R : Below(G, b) \subseteq R
  <2> HIDE DEF R
  <2> QED BY <1>2, BelowIsClosure
<1> QED BY <1>3, <1>4, <1>5

\* Of two different nodes each below the other, both are on a cycle; a node on a
\* cycle that has no edge to itself is one of two.
LEMMA CycleOfTwo ==
  ASSUME NEW G, IsFiniteGraph(G), NEW a \in G.node
  PROVE  /\ \A b \in Below(G, a) : b # a /\ a \in Below(G, b) => OnCycle(G, a)
         /\ OnCycle(G, a) /\ <<a, a>> \notin G.edge =>
              \E b \in Below(G, a) : b # a /\ a \in Below(G, b)
<1>1. IsFiniteSet(G.node)
  BY DEF IsFiniteGraph
<1>2. ASSUME NEW b \in Below(G, a), b # a, a \in Below(G, b)
      PROVE  OnCycle(G, a)
  <2>1. b \in Reach(G, Successors(G, a))
    BY <1>1, <1>2, BelowBySuccessors
  <2> QED BY <1>1, <1>2, <2>1, BelowBySuccessors DEF OnCycle
<1>3. ASSUME OnCycle(G, a), <<a, a>> \notin G.edge
      PROVE  \E b \in Below(G, a) : b # a /\ a \in Below(G, b)
  <2> DEFINE S == Successors(G, a)
             T == {x \in G.node : \E b \in S : x \in Below(G, b)}
  <2>1. S \in SUBSET G.node /\ a \notin S /\ S \subseteq Below(G, a)
    BY <1>1, <1>3, BelowIsClosure DEF Successors
  <2>2. S \subseteq T /\ IsClosed(G, T)
    <3>1. S \subseteq T
      BY <1>1, <2>1, BelowIsClosure
    <3>2. ASSUME NEW x \in T, NEW y \in G.node, <<x, y>> \in G.edge
          PROVE  y \in T
      <4> HIDE DEF S
      <4>1. PICK b \in S : x \in Below(G, b)
        OBVIOUS
      <4>2. y \in Below(G, b)
        BY <1>1, <2>1, <3>2, <4>1, BelowIsClosure
      <4> QED BY <4>2
    <3> HIDE DEF T
    <3> QED BY <3>1, <3>2 DEF IsClosed
  <2>3. a \in Reach(G, S)
    BY <1>3 DEF OnCycle
  <2> HIDE DEF S
  <2>4. Reach(G, S) \subseteq T
    <3> HIDE DEF T
    <3> QED BY <1>1, <2>1, <2>2, ReachIsClosure
  <2> QED BY <2>1, <2>3, <2>4
<1> QED BY <1>2, <1>3

\* A node below another one has a predecessor.
LEMMA BelowHasPredecessor ==
  ASSUME NEW G, IsFiniteGraph(G), NEW a \in G.node, NEW b \in Below(G, a), b # a
  PROVE  b \notin Roots(G)
<1> DEFINE T == {a} \cup {x \in G.node : Predecessors(G, x) # {}}
<1>1. IsClosed(G, T)
  BY DEF IsClosed, Predecessors, IsFiniteGraph, IsDirectedGraph
<1>2. Below(G, a) \subseteq T
  <2>1. a \in T
    OBVIOUS
  <2> HIDE DEF T
  <2> QED BY <1>1, <2>1, BelowIsClosure DEF IsFiniteGraph
<1> QED BY <1>2 DEF Roots

\* A graph with edges both ways for each edge of G.
BothWays(G) == [G EXCEPT !.edge = @ \cup Transpose(G).edge]

\* A graph walked both ways has the same nodes, and the links of both
\* directions.
LEMMA BothWaysIsGraph ==
  ASSUME NEW G, IsFiniteGraph(G)
  PROVE  /\ IsFiniteGraph(BothWays(G)) /\ BothWays(G).node = G.node
         /\ \A x, y : <<x, y>> \in BothWays(G).edge
                        <=> <<x, y>> \in G.edge \/ <<y, x>> \in G.edge
<1>1. /\ IsDirectedGraph(Transpose(G)) /\ Transpose(G).node = G.node
      /\ \A x, y : <<x, y>> \in Transpose(G).edge <=> <<y, x>> \in G.edge
      /\ G = [node |-> G.node, edge |-> G.edge]
      /\ G.edge \subseteq G.node \X G.node
  BY Transposed DEF IsFiniteGraph, IsDirectedGraph
<1>2. BothWays(G) = [node |-> G.node, edge |-> G.edge \cup Transpose(G).edge]
  BY <1>1 DEF BothWays
<1>3. Transpose(G).edge \subseteq G.node \X G.node
  BY <1>1 DEF IsDirectedGraph
<1> QED BY <1>1, <1>2, <1>3 DEF IsFiniteGraph, IsDirectedGraph

\* If all nodes are below one then each leads to each along edges and against
\* them.
LEMMA AllConnected ==
  ASSUME NEW G, IsFiniteGraph(G), NEW g \in G.node, Below(G, g) = G.node,
         NEW a \in G.node
  PROVE  Below(BothWays(G), a) = G.node
<1> DEFINE U == BothWays(G)
           T == {x \in G.node : g \in Below(U, x)}
<1>1. /\ IsFiniteGraph(U) /\ U.node = G.node /\ IsFiniteSet(G.node)
      /\ \A x, y : <<x, y>> \in U.edge
                     <=> <<x, y>> \in G.edge \/ <<y, x>> \in G.edge
  BY BothWaysIsGraph DEF IsFiniteGraph
<1> HIDE DEF U
<1>2. G.node \subseteq Below(U, g)
  <2>1. IsClosed(G, Below(U, g)) /\ g \in Below(U, g)
    BY <1>1, BelowIsClosure DEF IsClosed
  <2> QED BY <1>1, <2>1, BelowIsClosure
<1>3. IsClosed(U, T)
  <2> SUFFICES ASSUME NEW x \in T, NEW y \in G.node, <<x, y>> \in U.edge
               PROVE  g \in Below(U, y)
    BY <1>1 DEF IsClosed
  <2>1. x \in Below(U, y)
    BY <1>1, BelowIsClosure
  <2> QED BY <1>1, <2>1, BelowTransitive
<1>4. g \in T
  BY <1>1, BelowIsClosure
<1>5. Below(U, g) \subseteq T
  <2> HIDE DEF T
  <2> QED BY <1>1, <1>3, <1>4, BelowIsClosure
<1>6. g \in Below(U, a)
  BY <1>2, <1>5
<1>7. Below(U, a) = G.node
  <2>1. Below(U, g) \subseteq Below(U, a)
    BY <1>1, <1>6, BelowTransitive
  <2>2. Below(U, a) \subseteq G.node
    BY <1>1, BelowIsClosure
  <2> QED BY <1>2, <2>1, <2>2
<1> QED BY <1>7 DEF U

\* If all nodes are below one, which no edge leads to, and one edge at most leads
\* to each of the others, then the graph is a tree.
LEMMA TreeFromRoot ==
  ASSUME NEW G, IsFiniteGraph(G), NEW r \in G.node, Below(G, r) = G.node,
         \A e \in G.edge : e[2] # r,
         \A e, f \in G.edge : e[2] = f[2] => e = f
  PROVE  IsTree(G)
<1> DEFINE E == G.edge
           T == G.node \ {r}
           f == [e \in E |-> e[2]]
<1>1. \A e \in E : e = <<e[1], e[2]>> /\ e[1] \in G.node /\ e[2] \in G.node
  BY DEF IsFiniteGraph, IsDirectedGraph
<1>2. IsFiniteSet(T) /\ Cardinality(T) = Cardinality(G.node) - 1
  BY FS_RemoveElement DEF IsFiniteGraph
<1>3. f \in [E -> T]
  BY <1>1
<1>4. f \in Injection(E, T)
  BY <1>3 DEF Injection, IsInjective
<1>5. f \in Surjection(E, T)
  <2> SUFFICES ASSUME NEW x \in T PROVE \E e \in E : f[e] = x
    BY <1>3 DEF Surjection
  <2>1. x \notin Roots(G)
    BY BelowHasPredecessor
  <2>2. PICK y \in G.node : <<y, x>> \in E
    BY <2>1 DEF Roots, Predecessors
  <2> QED BY <2>2
<1>6. Cardinality(E) = Cardinality(T)
  <2> HIDE DEF E, T, f
  <2> QED BY <1>2, <1>4, <1>5, FS_Injection
<1>7. \A a \in G.node : Below(BothWays(G), a) = G.node
  BY AllConnected
<1> QED BY <1>2, <1>6, <1>7 DEF IsTree, BothWays

------------------------------------------------------------------------------
(* Levels. *)

\* The worst of some levels is the greatest one of them.
LEMMA WorstIsGreatest ==
  ASSUME NEW S \in SUBSET (Ok..Raised)
  PROVE  /\ Worst(S) \in Ok..Raised
         /\ \A x \in S : x <= Worst(S)
         /\ S # {} => Worst(S) \in S
<1>1. CASE S = {}
  BY <1>1 DEF Worst, Ok, Raised
<1>2. CASE S # {}
  <2>1. Ok..Raised = {0, 1, 2, 3}
    BY DEF Ok, Raised
  <2>2. \E w \in S : \A x \in S : x <= w
    <3>1. CASE 3 \in S
      BY <2>1, <3>1
    <3>2. CASE 3 \notin S /\ 2 \in S
      BY <2>1, <3>2
    <3>3. CASE 3 \notin S /\ 2 \notin S /\ 1 \in S
      BY <2>1, <3>3
    <3>4. CASE 3 \notin S /\ 2 \notin S /\ 1 \notin S
      <4>1. S = {0}
        BY <1>2, <2>1, <3>4
      <4> QED BY <4>1
    <3> QED BY <3>1, <3>2, <3>3, <3>4
  <2>3. Worst(S) \in S /\ \A x \in S : x <= Worst(S)
    BY <1>2, <2>2 DEF Worst
  <2> QED BY <2>3
<1> QED BY <1>1, <1>2

\* If the worst of some levels is Ok then all are.
LEMMA WorstIsOk ==
  ASSUME NEW S \in SUBSET (Ok..Raised)
  PROVE  Worst(S) = Ok <=> \A x \in S : x = Ok
<1>1. Worst(S) = Ok => \A x \in S : x = Ok
  BY WorstIsGreatest DEF Ok, Raised
<1>2. S = {} => Worst(S) = Ok
  BY DEF Worst
<1> QED BY <1>1, <1>2, WorstIsGreatest

------------------------------------------------------------------------------
(* The configured reference. *)

\* Each part of a path of a clock tree that starts with its first clock is a
\* path of the tree.
LEMMA PrefixesArePaths ==
  ASSUME NEW t, NEW C, IsClockTree(t, C), NEW p \in t, NEW k \in 1..Len(p)
  PROVE  \E q \in t : Len(q) = k /\ \A i \in 1..k : q[i] = p[i]
<1> DEFINE Has(n) == \E q \in t : Len(q) = n /\ \A i \in 1..n : q[i] = p[i]
           Bad == {m \in 0..(Len(p) - 1) : ~ Has(Len(p) - m)}
<1>1. \A q \in t : q \in Seq(C) /\ Len(q) \in Nat \ {0}
  BY DEF IsClockTree
<1>2. Bad = {}
  <2> SUFFICES ASSUME Bad # {} PROVE FALSE
    OBVIOUS
  <2>1. PICK m \in Bad : \A j \in Bad : m <= j
    <3>1. Bad \in SUBSET Nat
      OBVIOUS
    <3> HIDE DEF Bad
    <3> QED BY <3>1, LeastNatural
  <2>2. m # 0
    <3>1. Has(Len(p) - 0)
      BY <1>1
    <3> QED BY <2>1, <3>1
  <2>3. m - 1 \in 0..(Len(p) - 1) /\ m - 1 \notin Bad
    <3>1. m \in 0..(Len(p) - 1) /\ Len(p) \in Nat
      BY <1>1, <2>1
    <3>2. m - 1 \in 0..(Len(p) - 1) /\ ~(m <= m - 1)
      BY <2>2, <3>1
    <3> HIDE DEF Bad
    <3> QED BY <2>1, <3>2
  <2>4. PICK q \in t : /\ Len(q) = Len(p) - (m - 1)
                       /\ \A i \in 1..(Len(p) - (m - 1)) : q[i] = p[i]
    BY <2>3
  <2>5. Len(q) > 1 /\ q \in Seq(C) /\ Len(q) - 1 = Len(p) - m
    BY <1>1, <2>1, <2>4
  <2>6. Front(q) \in t
    BY <2>5 DEF IsClockTree
  <2>7. /\ Len(Front(q)) = Len(q) - 1
        /\ \A i \in 1..(Len(q) - 1) : Front(q)[i] = q[i]
    BY <2>5 DEF Front
  <2>8. Has(Len(p) - m)
    <3>1. \A i \in 1..(Len(p) - m) : Front(q)[i] = p[i]
      <4> SUFFICES ASSUME NEW i \in 1..(Len(p) - m) PROVE Front(q)[i] = p[i]
        OBVIOUS
      <4>1. m \in Nat /\ Len(p) \in Nat
        BY <1>1, <2>1
      <4>2. i \in 1..(Len(q) - 1) /\ i \in 1..(Len(p) - (m - 1))
        BY <2>5, <4>1
      <4> QED BY <2>4, <2>7, <4>2
    <3> QED BY <2>5, <2>6, <2>7, <3>1
  <2> QED BY <2>1, <2>8
<1>3. Len(p) - k \in 0..(Len(p) - 1) /\ Len(p) - (Len(p) - k) = k
  BY <1>1
<1> QED BY <1>2, <1>3

\* A path leads along links of the tree.
LEMMA PathsFollowEdges ==
  ASSUME NEW t, NEW C, IsClockTree(t, C), NEW p \in t, NEW i \in 2..Len(p)
  PROVE  <<p[i - 1], p[i]>> \in TreeToEdges(t)
<1>1. \A q \in t : Len(q) \in Nat
  BY DEF IsClockTree
<1>2. PICK q \in t : Len(q) = i /\ \A j \in 1..i : q[j] = p[j]
  BY <1>1, PrefixesArePaths
<1>3. q[i - 1] = p[i - 1] /\ q[i] = p[i] /\ Len(q) > 1
  BY <1>1, <1>2
<1> QED BY <1>2, <1>3 DEF TreeToEdges

\* The clocks of a tree that have a link there.
Linked(t) == UNION {ToSet(p) : p \in {q \in t : Len(q) > 1}}

\* The graph of a tree has the clocks with a link, of which there are as many
\* as there are paths at most.
LEMMA TreeNodes ==
  ASSUME NEW t, NEW C, IsClockTree(t, C), IsFiniteSet(t)
  PROVE  /\ ClockTreeToDigraph(t).node = Linked(t)
         /\ Linked(t) \subseteq C
         /\ \A e \in TreeToEdges(t) : /\ e = <<e[1], e[2]>>
                                      /\ e[1] \in Linked(t) /\ e[2] \in Linked(t)
         /\ IsFiniteSet(Linked(t))
<1> DEFINE N == ClockTreeToDigraph(t).node
<1>1. \A q \in t : q \in Seq(C) /\ Len(q) \in Nat \ {0}
  BY DEF IsClockTree
<1>2. \A c : c \in Linked(t)
               <=> \E p \in t : Len(p) > 1 /\ \E i \in 1..Len(p) : c = p[i]
  <2>1. \A p \in t : \A c : c \in ToSet(p) <=> \E i \in 1..Len(p) : c = p[i]
    BY <1>1 DEF ToSet
  <2> QED BY <2>1 DEF Linked
<1>3. \A e \in TreeToEdges(t) : \E p \in t :
        Len(p) > 1 /\ e = <<p[Len(p) - 1], p[Len(p)]>>
  BY DEF TreeToEdges
<1>4. /\ \A e \in TreeToEdges(t) : /\ e = <<e[1], e[2]>>
                                   /\ e[1] \in Linked(t) /\ e[2] \in Linked(t)
      /\ N \subseteq Linked(t)
  <2>1. ASSUME NEW e \in TreeToEdges(t)
        PROVE  /\ e = <<e[1], e[2]>>
               /\ e[1] \in Linked(t) /\ e[2] \in Linked(t)
    <3>1. PICK p \in t : Len(p) > 1 /\ e = <<p[Len(p) - 1], p[Len(p)]>>
      BY <1>3
    <3>2. Len(p) - 1 \in 1..Len(p) /\ Len(p) \in 1..Len(p)
      BY <1>1, <3>1
    <3> QED BY <1>2, <3>1, <3>2
  <2> QED BY <2>1 DEF ClockTreeToDigraph
<1>5. ASSUME NEW c \in Linked(t)
      PROVE  c \in N /\ c \in C /\ \E q \in t : c = Last(q)
  <2>0. PICK p \in t : Len(p) > 1 /\ \E i \in 1..Len(p) : c = p[i]
    BY <1>2
  <2>1. PICK i \in 1..Len(p) : Len(p) > 1 /\ c = p[i]
    BY <2>0
  <2>2. c \in C
    BY <1>1, <2>1
  <2>3. c \in N
    <3>1. CASE i = 1
      <4>1. <<p[2 - 1], p[2]>> \in TreeToEdges(t)
        BY <1>1, <2>1, PathsFollowEdges
      <4> QED BY <2>1, <3>1, <4>1 DEF ClockTreeToDigraph
    <3>2. CASE i # 1
      <4>1. <<p[i - 1], p[i]>> \in TreeToEdges(t)
        BY <1>1, <2>1, <3>2, PathsFollowEdges
      <4> QED BY <2>1, <4>1 DEF ClockTreeToDigraph
    <3> QED BY <3>1, <3>2
  <2>4. PICK q \in t : Len(q) = i /\ \A j \in 1..i : q[j] = p[j]
    BY <2>1, PrefixesArePaths
  <2>5. c = Last(q)
    BY <1>1, <2>1, <2>4 DEF Last
  <2> QED BY <2>2, <2>3, <2>5
<1>6. IsFiniteSet(Linked(t))
  <2> DEFINE R == {Last(q) : q \in t}
             f == [q \in t |-> Last(q)]
  <2>1. f \in Surjection(t, R)
    BY DEF Surjection
  <2>2. IsFiniteSet(R)
    <3> HIDE DEF f, R
    <3> QED BY <2>1, FS_Surjection
  <2>3. Linked(t) \in SUBSET R
    BY <1>5
  <2> HIDE DEF R
  <2> QED BY <2>2, <2>3, FS_Subset
<1> HIDE DEF N
<1>7. N = Linked(t) /\ Linked(t) \subseteq C
  BY <1>4, <1>5
<1> QED BY <1>4, <1>6, <1>7 DEF N

------------------------------------------------------------------------------
(* What every graph and every reference satisfies. *)

\* A link has the data that its kind has: a PTP link a port, the others an
\* offset.
LinkData == \A l \in links : IF l.kind = "ptp_parent" THEN l.meta \in Port
                                                      ELSE l.meta \in Offset

\* The reference is the configured tree under the names that the graph has for
\* its clocks now.
ReferenceInv ==
  /\ clockTree \in ClockTrees
  /\ refNodes = {Canon(c) : c \in Linked(clockTree)}
  /\ refLinks = {<<Canon(e[1]), Canon(e[2])>> : e \in TreeToEdges(clockTree)}

DiagnosisInv ==
  /\ NameInv
  /\ NoSelfLoops
  /\ KeysOfKinds
  /\ LinkData
  /\ IsFiniteSet(nodes)
  /\ IsFiniteSet(refNodes)
  /\ ReferenceInv

\* The invariant holds of the graph that was built from any of the trees.
LEMMA InitialDiagnosis == GInit => DiagnosisInv
<1> SUFFICES ASSUME GInit PROVE DiagnosisInv
  OBVIOUS
<1>1. /\ IsClockTree(clockTree, ClockId) /\ IsFiniteSet(clockTree)
      /\ clockTree \in ClockTrees
  BY TreesAssumption DEF GInit
<1>2. /\ refNodes = Linked(clockTree)
      /\ refLinks = TreeToEdges(clockTree)
      /\ Linked(clockTree) \subseteq ClockId
      /\ \A e \in TreeToEdges(clockTree) :
           /\ e = <<e[1], e[2]>>
           /\ e[1] \in Linked(clockTree) /\ e[2] \in Linked(clockTree)
      /\ IsFiniteSet(Linked(clockTree))
  BY <1>1, TreeNodes DEF GInit, ClockTreeToDigraph
<1>3. \A c \in ClockId : Canon(c) = c
  BY DEF GInit, Canon, CanonIn
<1>4. refLinks \subseteq refNodes \X refNodes
  BY <1>2
<1>5. ReferenceInv
  <2>1. Linked(clockTree) = {Canon(c) : c \in Linked(clockTree)}
    BY <1>2, <1>3
  <2>2. \A e \in TreeToEdges(clockTree) : e = <<Canon(e[1]), Canon(e[2])>>
    BY <1>2, <1>3
  <2>3. TreeToEdges(clockTree)
          = {<<Canon(e[1]), Canon(e[2])>> : e \in TreeToEdges(clockTree)}
    BY <2>2
  <2> QED BY <1>1, <1>2, <2>1, <2>3 DEF ReferenceInv
<1>6. NameInv
  <2>1. TypeOK
    BY <1>2, <1>4 DEF GInit, TypeOK
  <2>2. AliasClasses /\ ParentPortResolves
    BY DEF GInit, AliasClasses, ParentPortResolves
  <2>3. OnlyCanonicalNames
    BY <1>2, <1>3, <1>4 DEF GInit, OnlyCanonicalNames
  <2> QED BY <2>1, <2>2, <2>3 DEF NameInv
<1>7. NoSelfLoops /\ KeysOfKinds /\ LinkData
  BY DEF GInit, NoSelfLoops, KeysOfKinds, LinkData
<1>8. IsFiniteSet(nodes)
  BY FS_EmptySet DEF GInit
<1> QED BY <1>2, <1>5, <1>6, <1>7, <1>8 DEF DiagnosisInv

\* Every update stores the data that belongs to the kind of its link.
LEMMA UpdateKeepsData ==
  ASSUME TypeOK, LinkData, NEW u \in Updates, Update(u)
  PROVE  LinkData'
<1>1. CASE UpdateClockAliases(u)
  <2> DEFINE all == KnownClasses(u.aliases) \cup u.aliases
  <2>1. all \in SUBSET ClockId /\ all # {} /\ Merge(all)
    BY <1>1, MergedClass
  <2>2. MostReadable(all) \in ClockId
    BY <2>1, MostReadableInClass
  <2>3. PICK kept \in SUBSET links :
               links' = RelabelledLinks(all, MostReadable(all), kept)
    BY <2>1 DEF Merge
  <2> HIDE DEF all
  <2>4. \A l \in links' : \E k \in links : l.kind = k.kind /\ l.meta = k.meta
    BY <2>1, <2>2, <2>3, MergedLinks
  <2> QED BY <2>4 DEF LinkData
<1>2. ASSUME NEW d, NEW c, NEW k \in Kinds \ {"ptp_parent"}, NEW m \in Offset,
             SetSource(d, c, k, m)
      PROVE  LinkData'
  <2>1. CASE c = NoClock
    BY <1>2, <2>1 DEF SetSource, RemoveIncoming, LinkData
  <2>2. CASE c # NoClock
    BY <1>2, <2>2, AddedLinks DEF SetSource, LinkData
  <2> QED BY <2>1, <2>2
<1>3. CASE UpdateClockMaster(u)
  <2>1. [offset |-> u.meta] \in Offset
    BY <1>3, UpdateKinds DEF UpdateClockMaster, MasterUpdate, Offset
  <2> QED BY <1>2, <1>3, <2>1 DEF UpdateClockMaster, Kinds
<1>4. CASE UpdatePhc2SysLinkState(u)
  <2>1. [offset |-> u.meta] \in Offset
    BY <1>4, UpdateKinds DEF UpdatePhc2SysLinkState, Phc2SysUpdate, Offset
  <2> QED BY <1>2, <1>4, <2>1 DEF UpdatePhc2SysLinkState, Kinds
<1>5. CASE HandleClockDiffMeasurement(u)
  <2>1. [offset |-> u.meta] \in Offset
    BY <1>5, UpdateKinds DEF HandleClockDiffMeasurement, Measurement, Offset
  <2> QED BY <1>5, <2>1, AddedLinks DEF HandleClockDiffMeasurement, LinkData
<1>6. CASE CreatePtpLink(u)
  <2>1. u.parent \in Port
    BY <1>6, UpdateKinds DEF CreatePtpLink, ParentUpdate
  <2>2. CanonPort(u.parent) \in Port
    BY <2>1, CanonPortType DEF CanonPort, TypeOK
  <2> QED BY <1>6, <2>2, AddedLinks DEF CreatePtpLink, LinkData
<1>7. CASE RemovePtpLink(u) \/ UpdatePtpPortState(u)
             \/ UpdateSelfReportedClockState(u) \/ Ignore(u)
  BY <1>7 DEF RemovePtpLink, RemoveIncoming, UpdatePtpPortState,
              UpdateSelfReportedClockState, Ignore, vars, LinkData
<1> QED BY <1>1, <1>3, <1>4, <1>5, <1>6, <1>7 DEF Update

\* An update adds two clocks at most.
LEMMA UpdateKeepsFinite ==
  ASSUME TypeOK, NEW u \in Updates, Update(u)
  PROVE  /\ IsFiniteSet(nodes) => IsFiniteSet(nodes')
         /\ IsFiniteSet(refNodes) => IsFiniteSet(refNodes')
<1>1. ASSUME NEW S, IsFiniteSet(S), NEW x, NEW y, NEW T \in SUBSET (S \cup {x, y})
      PROVE  IsFiniteSet(T)
  <2>1. IsFiniteSet((S \cup {x}) \cup {y})
    BY <1>1, FS_AddElement
  <2>2. (S \cup {x}) \cup {y} = S \cup {x, y}
    OBVIOUS
  <2> QED BY <1>1, <2>1, <2>2, FS_Subset
<1>2. \E x, y : nodes' \in SUBSET (nodes \cup {x, y})
  <2>1. CASE UpdateClockAliases(u)
    BY <2>1 DEF UpdateClockAliases, Merge, Relabel
  <2>2. CASE ~ UpdateClockAliases(u)
    BY <2>2 DEF Update, UpdateClockMaster, UpdatePhc2SysLinkState, SetSource,
                HandleClockDiffMeasurement, RemovePtpLink, CreatePtpLink,
                UpdatePtpPortState, UpdateSelfReportedClockState, Ignore, vars
  <2> QED BY <2>1, <2>2
<1>3. \E x : refNodes' \in SUBSET (refNodes \cup {x, x})
  <2>1. CASE UpdateClockAliases(u)
    BY <2>1 DEF UpdateClockAliases, Merge, Relabel
  <2> QED BY <2>1, OnlyMergesRename
<1> QED BY <1>1, <1>2, <1>3

\* A merge renames the reference as it renames everything.
LEMMA UpdateKeepsReference ==
  ASSUME NameInv, ReferenceInv, NEW u \in Updates, Update(u),
         clockTree' = clockTree
  PROVE  ReferenceInv'
<1> DEFINE t == clockTree
<1>1. IsClockTree(t, ClockId) /\ IsFiniteSet(t)
  BY TreesAssumption DEF ReferenceInv
<1>2. /\ Linked(t) \subseteq ClockId
      /\ \A e \in TreeToEdges(t) : e[1] \in ClockId /\ e[2] \in ClockId
  BY <1>1, TreeNodes
<1>3. CASE UpdateClockAliases(u)
  <2> DEFINE all == KnownClasses(u.aliases) \cup u.aliases
             new(c) == Relabel(all, MostReadable(all), c)
  <2>1. /\ u.aliases \in SUBSET ClockId /\ u.aliases # {}
        /\ Merge(all)
    BY <1>3, MergedClass DEF UpdateClockAliases, NothingNew, NameInv
  <2>2. \A c \in ClockId : CanonIn(aliases', c) = new(Canon(c))
    BY <2>1, MergedNames
  <2>3. /\ refNodes' = {new(n) : n \in refNodes}
        /\ refLinks' = {<<new(e[1]), new(e[2])>> : e \in refLinks}
    BY <2>1 DEF Merge
  <2> HIDE DEF new
  <2>4. refNodes' = {CanonIn(aliases', c) : c \in Linked(t)}
    BY <1>2, <2>2, <2>3 DEF ReferenceInv
  <2>5. refLinks' = {<<CanonIn(aliases', e[1]), CanonIn(aliases', e[2])>>
                     : e \in TreeToEdges(t)}
    <3> DEFINE E == TreeToEdges(t)
               old(e) == <<Canon(e[1]), Canon(e[2])>>
               now(e) == <<CanonIn(aliases', e[1]), CanonIn(aliases', e[2])>>
    <3>1. \A e \in E : <<new(old(e)[1]), new(old(e)[2])>> = now(e)
      BY <1>2, <2>2
    <3>2. refLinks = {old(e) : e \in E}
      BY DEF ReferenceInv
    <3> HIDE DEF E, old, now
    <3>3. ASSUME NEW e \in E PROVE now(e) \in refLinks'
      BY <2>3, <3>1, <3>2
    <3>4. ASSUME NEW x \in refLinks' PROVE x \in {now(e) : e \in E}
      <4>1. PICK l \in refLinks : x = <<new(l[1]), new(l[2])>>
        BY <2>3
      <4>2. PICK e \in E : l = old(e)
        BY <3>2
      <4> QED BY <3>1, <4>1, <4>2
    <3>5. refLinks' = {now(e) : e \in E}
      BY <3>3, <3>4
    <3> QED BY <3>5 DEF E, now
  <2> QED BY <2>4, <2>5 DEF ReferenceInv, Canon
<1>4. CASE ~ UpdateClockAliases(u)
  BY <1>4, OnlyMergesRename DEF ReferenceInv, Canon
<1> QED BY <1>3, <1>4

\* The invariant that the diagnoses rest on.
LEMMA DiagnosisInvariant == GSpec => []DiagnosisInv
<1>1. ASSUME DiagnosisInv, [GNext]_gvars PROVE DiagnosisInv'
  <2>1. CASE GNext
    <3>1. PICK u \in Updates : Update(u)
      BY <2>1 DEF GNext, Next
    <3>2. TypeOK /\ clockTree' = clockTree
      BY <1>1, <2>1 DEF GNext, DiagnosisInv, NameInv
    <3> QED BY <1>1, <3>1, <3>2, UpdateKeepsNameInv, UpdateMakesNoLoop,
               UpdateKeepsKeys, UpdateKeepsData, UpdateKeepsFinite,
               UpdateKeepsReference DEF DiagnosisInv
  <2>2. CASE UNCHANGED gvars
    BY <1>1, <2>2
       DEF gvars, vars, DiagnosisInv, NameInv, TypeOK, AliasClasses,
           OnlyCanonicalNames, ParentPortResolves, NoSelfLoops, KeysOfKinds,
           LinkData, ReferenceInv, Canon, CanonPort
  <2> QED BY <1>1, <2>1, <2>2
<1> QED BY <1>1, InitialDiagnosis, PTL DEF GSpec

\* The two graphs are finite, go by current names, and have no self-loops.
LEMMA GraphsAreFinite ==
  ASSUME DiagnosisInv
  PROVE  /\ IsFiniteGraph(Graph) /\ Graph.node = nodes /\ Graph.edge = Edges
         /\ IsFiniteGraph(Reference) /\ Reference.node = refNodes
         /\ Reference.edge = refLinks
         /\ \A l \in links : /\ l.src \in nodes /\ l.dst \in nodes
                             /\ l.src # l.dst /\ <<l.src, l.dst>> \in Edges
         /\ \A a : <<a, a>> \notin Edges
         /\ \A c \in nodes \cup refNodes : c \in ClockId /\ Canon(c) = c
<1>1. \A l \in links : /\ l.src \in nodes /\ l.dst \in nodes
                       /\ l.src # l.dst /\ <<l.src, l.dst>> \in Edges
  BY DEF DiagnosisInv, NameInv, OnlyCanonicalNames, NoSelfLoops, Edges
<1>2. /\ Edges \subseteq nodes \X nodes
      /\ \A a : <<a, a>> \notin Edges
  BY <1>1 DEF Edges
<1>3. refLinks \subseteq refNodes \X refNodes
  BY DEF DiagnosisInv, NameInv, OnlyCanonicalNames
<1>4. /\ IsFiniteGraph(Graph) /\ Graph.node = nodes /\ Graph.edge = Edges
  BY <1>2 DEF Graph, IsFiniteGraph, IsDirectedGraph, DiagnosisInv
<1>5. /\ IsFiniteGraph(Reference) /\ Reference.node = refNodes
      /\ Reference.edge = refLinks
  BY <1>3 DEF Reference, IsFiniteGraph, IsDirectedGraph, DiagnosisInv
<1>6. \A c \in nodes \cup refNodes : c \in ClockId /\ Canon(c) = c
  BY DEF DiagnosisInv, NameInv, OnlyCanonicalNames, TypeOK
<1> QED BY <1>1, <1>2, <1>4, <1>5, <1>6

\* The level of a link, which is an exception only for an integer key.
LEMMA LinkLevels ==
  ASSUME DiagnosisInv, NEW l \in links
  PROVE  IF l.key \in Kinds THEN LinkLevel(l) \in Ok..Error
                            ELSE LinkLevel(l) = Raised
<1>1. /\ l.key \in {l.kind, Renumbered} /\ l.kind \in Kinds
      /\ IF l.kind = "ptp_parent" THEN l.meta \in Port
                                  ELSE l.meta \in Offset
  BY DEF DiagnosisInv, KeysOfKinds, LinkData, NameInv, TypeOK, Link
<1>2. \A k \in Kinds, r \in Reading :
        DiffLevel(k, r) \in {Ok, Warning, Error} /\ ServoLevel[r] \in Ok..Error
  BY LevelAssumption DEF DiffLevel, Flag
<1>3. Ok..Error = {Ok, Warning, Error} /\ Ok..Error \in SUBSET (Ok..Raised)
  BY DEF Ok, Warning, Error, Raised
<1>4. CASE l.key = "ptp_parent"
  <2>1. l.meta \in Port
    BY <1>1, <1>4 DEF Renumbered
  <2>2. CanonPort(l.meta) \in Port
    BY <2>1, CanonPortType DEF CanonPort, DiagnosisInv, NameInv, TypeOK
  <2>3. portState[CanonPort(l.meta)] \in State \cup {NoState}
    BY <2>2 DEF DiagnosisInv, NameInv, TypeOK
  <2>4. PortLevel(l.meta) \in Ok..Error
    BY <1>3, <2>3, LevelAssumption DEF PortLevel
  <2> QED BY <1>4, <2>4 DEF LinkLevel, Kinds
<1>5. CASE l.key \in {"master", "measurement"}
  <2>1. l.meta \in Offset
    BY <1>1, <1>5 DEF Renumbered
  <2> QED BY <1>2, <1>3, <1>5, <2>1 DEF LinkLevel, Kinds, Offset
<1>6. CASE l.key = "phc2sys"
  <2>1. l.meta.offset \in Reading
    BY <1>1, <1>6 DEF Renumbered, Offset
  <2> DEFINE S == {DiffLevel(l.key, l.meta.offset), ServoLevel[l.meta.offset]}
  <2>2. S \in SUBSET (Ok..Error) /\ S # {}
    BY <1>2, <1>3, <1>6, <2>1 DEF Kinds
  <2>3. LinkLevel(l) = Worst(S)
    BY <1>6 DEF LinkLevel
  <2> HIDE DEF S
  <2> QED BY <1>3, <1>6, <2>2, <2>3, WorstIsGreatest DEF Kinds
<1>7. CASE l.key \notin Kinds
  BY <1>7 DEF LinkLevel, Kinds
<1> QED BY <1>4, <1>5, <1>6, <1>7 DEF Kinds

\* The levels that the diagnosis of a clock that leads to no cycle aggregates.
LevelsOf(c) == {LinkLevel(l) : l \in UpstreamLinks(c)}
                 \cup {IF selfState[c] = NoState THEN Ok
                       ELSE StateLevel[selfState[c]]}
                 \cup {AdherenceLevel(c)}

\* What a clock is shown as: an error if it leads to a cycle, and otherwise the
\* worst of its own level and of those of the links above it.
LEMMA ClockLevels ==
  ASSUME DiagnosisInv, NEW c \in nodes
  PROVE  /\ ClockLevel(c) = IF \E a \in Below(Graph, c) : OnCycle(Graph, a)
                              THEN Error ELSE Worst(LevelsOf(c))
         /\ LevelsOf(c) \in SUBSET (Ok..Raised)
         /\ \A l \in links : l.dst \in Above(Graph, c) => l \in UpstreamLinks(c)
<1>1. Ok..Error \in SUBSET (Ok..Raised) /\ Ok \in Ok..Raised
      /\ Error \in Ok..Raised /\ Raised \in Ok..Raised
  BY DEF Ok, Error, Raised
<1>2. \A l \in links : LinkLevel(l) \in Ok..Raised
  BY <1>1, LinkLevels
<1>3. AdherenceLevel(c) \in {Ok, Error, Raised}
  BY Zenon DEF AdherenceLevel, Flag
<1>4. selfState[c] \in State \cup {NoState}
  BY DEF DiagnosisInv, NameInv, TypeOK
<1>5. (IF selfState[c] = NoState THEN Ok ELSE StateLevel[selfState[c]])
        \in Ok..Raised
  BY <1>1, <1>4, LevelAssumption
<1>6. LevelsOf(c) \in SUBSET (Ok..Raised)
  <2> HIDE DEF AdherenceLevel, LinkLevel
  <2>1. UpstreamLinks(c) \subseteq links
    BY DEF UpstreamLinks
  <2>2. \A x \in LevelsOf(c) :
          \/ \E l \in UpstreamLinks(c) : x = LinkLevel(l)
          \/ x = IF selfState[c] = NoState THEN Ok ELSE StateLevel[selfState[c]]
          \/ x = AdherenceLevel(c)
    BY DEF LevelsOf
  <2> QED BY <1>1, <1>2, <1>3, <1>5, <2>1, <2>2
<1>7. ASSUME NEW l \in links, l.dst \in Above(Graph, c)
      PROVE  l \in UpstreamLinks(c)
  <2>1. /\ IsFiniteGraph(Graph) /\ Graph.node = nodes
        /\ l.src \in nodes /\ l.dst \in nodes /\ <<l.src, l.dst>> \in Graph.edge
    BY GraphsAreFinite
  <2>2. l.dst \in Below(Graph, l.src) /\ c \in Below(Graph, l.dst)
    BY <1>7, <2>1, BelowIsClosure, AboveIsBelow DEF IsFiniteGraph
  <2>3. c \in Below(Graph, l.src)
    BY <2>1, <2>2, BelowTransitive DEF IsFiniteGraph
  <2>4. l.src \in Above(Graph, c)
    BY <2>1, <2>3, AboveIsBelow
  <2> QED BY <1>7, <2>4 DEF UpstreamLinks
<1>8. ClockLevel(c) = IF \E a \in Below(Graph, c) : OnCycle(Graph, a)
                        THEN Error ELSE Worst(LevelsOf(c))
  BY Zenon DEF ClockLevel, LevelsOf
<1> QED BY <1>6, <1>7, <1>8

------------------------------------------------------------------------------
(* Faults are not hidden. *)

\* After any sequence of updates a clock is at least as bad as each link into
\* it and each link further up, and every clock on a cycle is an error.
THEOREM NoFaultIsHidden == GSpec => []FaultsReachDownstream
<1>1. DiagnosisInv => FaultsReachDownstream
  <2> SUFFICES ASSUME DiagnosisInv, NEW c \in nodes
               PROVE  /\ OnCycle(Graph, c) => ClockLevel(c) = Error
                      /\ \A l \in links :
                           l.key \in Kinds /\ l.dst \in Above(Graph, c)
                             => ClockLevel(c) >= LinkLevel(l)
    BY DEF FaultsReachDownstream
  <2>1. c \in Below(Graph, c)
    BY GraphsAreFinite, BelowIsClosure DEF IsFiniteGraph
  <2>2. OnCycle(Graph, c) => ClockLevel(c) = Error
    BY <2>1, ClockLevels
  <2>3. ASSUME NEW l \in links, l.key \in Kinds, l.dst \in Above(Graph, c)
        PROVE  ClockLevel(c) >= LinkLevel(l)
    <3>1. LinkLevel(l) \in Ok..Error
      BY <2>3, LinkLevels
    <3>2. CASE \E a \in Below(Graph, c) : OnCycle(Graph, a)
      <4>1. ClockLevel(c) = Error
        BY <3>2, ClockLevels
      <4> QED BY <3>1, <4>1 DEF Ok, Error
    <3>3. CASE ~ \E a \in Below(Graph, c) : OnCycle(Graph, a)
      <4>1. ClockLevel(c) = Worst(LevelsOf(c)) /\ l \in UpstreamLinks(c)
            /\ LevelsOf(c) \in SUBSET (Ok..Raised)
        BY <2>3, <3>3, ClockLevels
      <4>2. LinkLevel(l) \in LevelsOf(c)
        BY <4>1 DEF LevelsOf
      <4>3. LinkLevel(l) <= Worst(LevelsOf(c)) /\ Worst(LevelsOf(c)) \in Ok..Raised
        BY <4>1, <4>2, WorstIsGreatest
      <4> QED BY <3>1, <4>1, <4>3 DEF Ok, Error, Raised
    <3> QED BY <3>2, <3>3
  <2> QED BY <2>2, <2>3
<1> QED BY <1>1, DiagnosisInvariant, PTL

------------------------------------------------------------------------------
(* The health of the graph. *)

\* As many clocks as there are in the graph are below a exactly if all are.
LEMMA AllBelow ==
  ASSUME NEW G, IsFiniteSet(G.node), NEW a \in G.node
  PROVE  Cardinality(Below(G, a) \ {a}) = Cardinality(G.node) - 1
           <=> Below(G, a) = G.node
<1> DEFINE B == Below(G, a)
<1>1. a \in B /\ B \in SUBSET G.node
  BY BelowIsClosure
<1> HIDE DEF B
<1>2. IsFiniteSet(B) /\ Cardinality(B) \in Nat /\ Cardinality(G.node) \in Nat
  BY <1>1, FS_Subset, FS_CardinalityType
<1>3. Cardinality(B \ {a}) = Cardinality(B) - 1
  BY <1>1, <1>2, FS_RemoveElement
<1>4. Cardinality(B) = Cardinality(G.node) => B = G.node
  BY <1>1, FS_Subset
<1> QED BY <1>2, <1>3, <1>4 DEF B

\* diagnose_graph is Ok exactly if its three parts are.
LEMMA GraphLevels ==
  ASSUME DiagnosisInv
  PROVE  GraphLevel = Ok <=>
           /\ \A a \in nodes :
                Below([Graph EXCEPT !.edge = @ \cup Transpose(Graph).edge], a) = nodes
           /\ \A a \in nodes : ~ OnCycle(Graph, a)
           /\ \E a \in Roots(Graph) : IsGrandmaster(a)
<1> DEFINE S == {ReachabilityLevel, AcyclicityLevel, GrandmasterLevel}
<1>1. /\ ReachabilityLevel \in {Ok, Error}
      /\ AcyclicityLevel \in {Ok, Error}
      /\ GrandmasterLevel \in {Ok, Error}
  BY Zenon DEF ReachabilityLevel, AcyclicityLevel, GrandmasterLevel, Flag
<1>2. S \in SUBSET (Ok..Raised)
  <2> HIDE DEF ReachabilityLevel, AcyclicityLevel, GrandmasterLevel
  <2> QED BY <1>1 DEF Ok, Error, Raised
<1>3. GraphLevel = Ok <=> \A x \in S : x = Ok
  BY <1>2, WorstIsOk DEF GraphLevel
<1>4. GraphLevel = Ok <=> /\ ReachabilityLevel = Ok
                          /\ AcyclicityLevel = Ok
                          /\ GrandmasterLevel = Ok
  <2> HIDE DEF ReachabilityLevel, AcyclicityLevel, GrandmasterLevel, GraphLevel
  <2> QED BY <1>3
<1>5. Ok # Error
  BY DEF Ok, Error
<1>6. /\ ReachabilityLevel = Ok <=> \A a \in nodes :
           Below([Graph EXCEPT !.edge = @ \cup Transpose(Graph).edge], a) = nodes
      /\ AcyclicityLevel = Ok <=> \A a \in nodes : ~ OnCycle(Graph, a)
      /\ GrandmasterLevel = Ok <=> \E a \in Roots(Graph) : IsGrandmaster(a)
  BY <1>5, Zenon DEF ReachabilityLevel, AcyclicityLevel, GrandmasterLevel, Flag
<1> QED BY <1>4, <1>6

\* The grandmaster of a reference is one of its roots, and the only one there
\* is if there is one.
LEMMA Grandmaster ==
  ASSUME DiagnosisInv
  PROVE  /\ IF Roots(Reference) = {} THEN GetGrandmaster = NoClock
            ELSE GetGrandmaster \in Roots(Reference)
         /\ OneRoot => \A g \in Roots(Reference) : g = GetGrandmaster
         /\ Roots(Reference) \subseteq refNodes
<1>1. Roots(Reference) \in SUBSET refNodes
  BY DEF Roots, Reference
<1>2. IF Roots(Reference) = {} THEN GetGrandmaster = NoClock
      ELSE GetGrandmaster \in Roots(Reference)
  <2>1. CASE Roots(Reference) = {}
    BY <2>1 DEF GetGrandmaster
  <2>2. CASE Roots(Reference) # {}
    <3>1. \E a \in refNodes : a \in Roots(Reference)
      BY <1>1, <2>2
    <3>2. PICK r \in refNodes : /\ r \in Roots(Reference)
                                /\ GetGrandmaster = Canon(r)
      BY <2>2, <3>1 DEF GetGrandmaster
    <3> QED BY <2>2, <3>2, GraphsAreFinite
  <2> QED BY <2>1, <2>2
<1>3. ASSUME OneRoot, NEW g \in Roots(Reference) PROVE g = GetGrandmaster
  <2> DEFINE R == Roots(Reference)
  <2>1. IsFiniteSet(R) /\ Cardinality(R) \in Nat /\ R # {}
    BY <1>1, <1>3, FS_Subset, FS_CardinalityType DEF DiagnosisInv
  <2>2. Cardinality(R) <= 1
    BY <1>3 DEF OneRoot
  <2>3. GetGrandmaster \in R /\ g \in R
    BY <1>2, <1>3
  <2> HIDE DEF R
  <2>4. Cardinality(R) = 1
    BY <2>1, <2>2, FS_EmptySet
  <2>5. PICK x : R = {x}
    BY <2>1, <2>4, FS_Singleton
  <2> QED BY <2>3, <2>5
<1> QED BY <1>1, <1>2, <1>3

\* Against which the only root of the graph is compared.
LEMMA GrandmasterChecks ==
  ASSUME DiagnosisInv, NEW a \in nodes
  PROVE  IsGrandmaster(a) <=> /\ Roots(Graph) = {a}
                              /\ refNodes # {} => GetGrandmaster = a
                              /\ Below(Graph, a) = nodes
BY GraphsAreFinite, AllBelow DEF IsGrandmaster, IsFiniteGraph

\* After any sequence of updates diagnose_graph is Ok exactly for the
\* well-formed graphs.
THEOREM HealthyExactlyIfWellFormed == GSpec => []HealthyIfWellFormed
<1>1. DiagnosisInv => HealthyIfWellFormed
  <2> SUFFICES ASSUME DiagnosisInv, OneRoot
               PROVE  GraphLevel = Ok <=>
      /\ \E g \in nodes : /\ Below(Graph, g) = nodes
                          /\ refNodes # {} => g \in Roots(Reference)
      /\ \A a, b \in nodes :
           a # b => ~(a \in Below(Graph, b) /\ b \in Below(Graph, a))
    BY DEF HealthyIfWellFormed
  <2> DEFINE U == [Graph EXCEPT !.edge = @ \cup Transpose(Graph).edge]
             Alone(a, b) ==
               a # b => ~(a \in Below(Graph, b) /\ b \in Below(Graph, a))
  <2>1. /\ IsFiniteGraph(Graph) /\ Graph.node = nodes /\ Graph.edge = Edges
        /\ IsFiniteSet(nodes) /\ \A a : <<a, a>> \notin Edges
        /\ Roots(Graph) \subseteq nodes
        /\ Edges \subseteq nodes \X nodes
        /\ NoClock \notin nodes
    BY GraphsAreFinite, UnsetAssumption
       DEF IsFiniteGraph, Roots, Graph, IsDirectedGraph
  <2>2. ASSUME GraphLevel = Ok
        PROVE  /\ \E g \in nodes : /\ Below(Graph, g) = nodes
                                   /\ refNodes # {} => g \in Roots(Reference)
               /\ \A a, b \in nodes : Alone(a, b)
    <3>1. PICK g \in nodes : IsGrandmaster(g)
      BY <2>1, <2>2, GraphLevels
    <3>2. Below(Graph, g) = nodes /\ (refNodes # {} => GetGrandmaster = g)
      BY <3>1, GrandmasterChecks
    <3>3. refNodes # {} => g \in Roots(Reference)
      BY <2>1, <3>2, Grandmaster
    <3>4. \A a, b \in nodes : Alone(a, b)
      BY <2>1, <2>2, GraphLevels, CycleOfTwo
    <3> QED BY <3>2, <3>3, <3>4
  <2>3. ASSUME NEW g \in nodes, Below(Graph, g) = nodes,
               refNodes # {} => g \in Roots(Reference),
               \A a, b \in nodes : Alone(a, b)
        PROVE  GraphLevel = Ok
    <3>1. \A a \in nodes : ~ OnCycle(Graph, a)
      <4> SUFFICES ASSUME NEW a \in nodes, OnCycle(Graph, a) PROVE FALSE
        OBVIOUS
      <4>1. PICK b \in Below(Graph, a) : b # a /\ a \in Below(Graph, b)
        BY <2>1, CycleOfTwo
      <4>2. b \in nodes
        BY <2>1, <4>1, BelowIsClosure
      <4> QED BY <2>3, <4>1, <4>2
    <3>2. Roots(Graph) = {g}
      <4>1. Predecessors(Graph, g) = {}
        <5> SUFFICES ASSUME NEW x \in nodes, <<x, g>> \in Edges PROVE FALSE
          BY <2>1 DEF Predecessors
        <5>1. g \in Below(Graph, x) /\ x \in Below(Graph, g) /\ x # g
          BY <2>1, <2>3, BelowIsClosure
        <5> QED BY <2>3, <5>1
      <4>2. \A b \in nodes : b # g => b \notin Roots(Graph)
        BY <2>1, <2>3, BelowHasPredecessor
      <4> QED BY <2>1, <4>1, <4>2 DEF Roots
    <3>3. IsGrandmaster(g)
      <4>1. refNodes # {} => GetGrandmaster = g
        BY <2>3, Grandmaster
      <4> QED BY <2>3, <3>2, <4>1, GrandmasterChecks
    <3>4. \A a \in nodes : Below(U, a) = nodes
      BY <2>1, <2>3, AllConnected DEF BothWays
    <3> QED BY <3>1, <3>2, <3>3, <3>4, GraphLevels
  <2> QED BY <2>2, <2>3
<1> QED BY <1>1, DiagnosisInvariant, PTL

\* If everything is published as Ok under a reference then the graph has the
\* clocks of the reference, each is synchronised to the grandmaster, and no
\* link has a fault and no clock reports one.
THEOREM OkIsNeverMistaken == GSpec => []AllOkMeansSynchronised
<1>1. DiagnosisInv => AllOkMeansSynchronised
  <2> SUFFICES ASSUME DiagnosisInv, refNodes # {},
                      {GraphLevel, ReferenceLevel}
                        \cup {PublishedLevel(c) : c \in refNodes} = {Ok}
               PROVE
      /\ nodes = refNodes
      /\ \A l \in links : LinkLevel(l) = Ok
      /\ \A c \in nodes : selfState[c] = NoState \/ StateLevel[selfState[c]] = Ok
      /\ Below(Graph, GetGrandmaster) = nodes
    BY DEF AllOkMeansSynchronised
  <2>1. /\ GraphLevel = Ok /\ ReferenceLevel = Ok
        /\ \A c \in refNodes : PublishedLevel(c) = Ok
    <3> HIDE DEF GraphLevel, ReferenceLevel, PublishedLevel
    <3> QED OBVIOUS
  <2>2. nodes = refNodes
    <3> DEFINE m == Flag(MissingClocks # {}, Error)
               r == Flag(RogueClocks # {}, Warning)
    <3>1. m = Ok /\ r = Ok
      <4>1. {m, r} \in SUBSET (Ok..Raised)
        BY DEF Flag, Ok, Warning, Error, Raised
      <4>2. Worst({m, r}) = Ok
        BY <2>1 DEF ReferenceLevel
      <4> HIDE DEF m, r
      <4> QED BY <4>1, <4>2, WorstIsOk
    <3>2. MissingClocks = {} /\ RogueClocks = {}
      BY <3>1 DEF Flag, Ok, Warning, Error
    <3> QED BY <3>2 DEF MissingClocks, RogueClocks
  <2>3. ASSUME NEW c \in nodes
        PROVE  \A x \in LevelsOf(c) : x = Ok
    <3>1. ClockLevel(c) = Ok
      BY <2>1, <2>2, GraphsAreFinite DEF PublishedLevel
    <3>2. Worst(LevelsOf(c)) = Ok
      BY <3>1, ClockLevels DEF Ok, Error
    <3> QED BY <3>2, ClockLevels, WorstIsOk
  <2>4. ASSUME NEW l \in links PROVE LinkLevel(l) = Ok
    <3>1. l.dst \in nodes /\ l.dst \in Above(Graph, l.dst)
      BY GraphsAreFinite, AboveIsBelow, BelowIsClosure DEF IsFiniteGraph
    <3>2. LinkLevel(l) \in LevelsOf(l.dst)
      BY <3>1, ClockLevels DEF LevelsOf
    <3> QED BY <2>3, <3>1, <3>2
  <2>5. ASSUME NEW c \in nodes
        PROVE  selfState[c] = NoState \/ StateLevel[selfState[c]] = Ok
    <3>1. (IF selfState[c] = NoState THEN Ok ELSE StateLevel[selfState[c]])
            \in LevelsOf(c)
      BY DEF LevelsOf
    <3> QED BY <2>3, <3>1
  <2>6. Below(Graph, GetGrandmaster) = nodes
    <3>1. PICK a \in Roots(Graph) : IsGrandmaster(a)
      BY <2>1, GraphLevels
    <3>2. a \in nodes
      BY <3>1, GraphsAreFinite DEF Roots
    <3> QED BY <3>1, <3>2, GrandmasterChecks
  <2> QED BY <2>2, <2>4, <2>5, <2>6
<1> QED BY <1>1, DiagnosisInvariant, PTL

------------------------------------------------------------------------------
(* The reference is a tree. *)

\* A path of the configured tree leads down the reference.
LEMMA PathsLeadDown ==
  ASSUME DiagnosisInv, NEW p \in clockTree, Len(p) > 1, NEW i \in 1..Len(p)
  PROVE  /\ Canon(p[i]) \in Below(Reference, Canon(p[1]))
         /\ Canon(p[1]) \in refNodes /\ Canon(p[i]) \in refNodes
<1>1. /\ IsClockTree(clockTree, ClockId)
      /\ p \in Seq(ClockId) /\ Len(p) \in Nat
  BY TreesAssumption DEF DiagnosisInv, ReferenceInv, IsClockTree
<1>2. \A j \in 1..Len(p) : Canon(p[j]) \in refNodes
  <2>1. \A j \in 1..Len(p) : p[j] \in Linked(clockTree)
    BY <1>1 DEF Linked, ToSet
  <2> QED BY <2>1 DEF DiagnosisInv, ReferenceInv
<1>3. \A j \in 2..Len(p) : <<Canon(p[j - 1]), Canon(p[j])>> \in refLinks
  <2> SUFFICES ASSUME NEW j \in 2..Len(p)
               PROVE  <<Canon(p[j - 1]), Canon(p[j])>> \in refLinks
    OBVIOUS
  <2>1. <<p[j - 1], p[j]>> \in TreeToEdges(clockTree)
    BY <1>1, PathsFollowEdges
  <2> QED BY <2>1 DEF DiagnosisInv, ReferenceInv
<1> DEFINE B == Below(Reference, Canon(p[1]))
           Bad == {j \in 1..Len(p) : Canon(p[j]) \notin B}
<1>4. Canon(p[1]) \in refNodes
  BY <1>1, <1>2
<1>5. Canon(p[1]) \in B /\ \A x \in B : \A y \in refNodes :
                             <<x, y>> \in refLinks => y \in B
  BY <1>4, GraphsAreFinite, BelowIsClosure DEF IsFiniteGraph
<1> HIDE DEF B
<1>6. Bad = {}
  <2> SUFFICES ASSUME Bad # {} PROVE FALSE
    OBVIOUS
  <2>1. PICK j \in Bad : \A k \in Bad : j <= k
    <3>1. Bad \in SUBSET Nat
      OBVIOUS
    <3> HIDE DEF Bad
    <3> QED BY <3>1, LeastNatural
  <2>2. j \in 2..Len(p) /\ j \in 1..Len(p)
    BY <1>1, <1>5, <2>1
  <2>3. j - 1 \in 1..Len(p) /\ ~(j <= j - 1)
    BY <1>1, <2>2
  <2>4. Canon(p[j - 1]) \in B
    BY <2>1, <2>3
  <2>5. Canon(p[j]) \in B
    BY <1>2, <1>3, <1>5, <2>2, <2>4
  <2> QED BY <2>1, <2>5
<1> QED BY <1>2, <1>4, <1>6 DEF B

\* After any sequence of updates the reference is what was configured, under
\* the names that the graph has for the clocks now.
THEOREM ReferenceStaysConfigured == GSpec => []ReferenceIsConfigured
<1>1. DiagnosisInv => ReferenceIsConfigured
  <2> SUFFICES ASSUME DiagnosisInv PROVE ReferenceIsConfigured
    OBVIOUS
  <2>1. refNodes = {Canon(c) : c \in Linked(clockTree)}
    BY DEF DiagnosisInv, ReferenceInv
  <2>2. ASSUME NEW p \in clockTree, NEW i \in 2..Len(p)
        PROVE  Canon(p[i]) \in Below(Reference, Canon(p[1]))
    <3>1. Len(p) \in Nat
      BY TreesAssumption DEF DiagnosisInv, ReferenceInv, IsClockTree
    <3> QED BY <3>1, PathsLeadDown
  <2> QED BY <2>1, <2>2 DEF ReferenceIsConfigured, Linked
<1> QED BY <1>1, DiagnosisInvariant, PTL

\* The clocks of the reference are the ends of paths, and its links are the
\* last steps of paths.
LEMMA ReferenceByPaths ==
  ASSUME DiagnosisInv
  PROVE  /\ \A p \in clockTree : /\ Len(p) \in Nat /\ Len(p) > 0
                                 /\ Last(p) \in ClockId /\ p[1] \in ClockId
         /\ \A a \in refNodes : \E p \in clockTree :
              Len(p) > 1 /\ \E i \in 1..Len(p) : a = Canon(p[i])
         /\ \A a \in refNodes : \E p \in clockTree : a = Canon(Last(p))
         /\ \A e \in refLinks : \E p, q \in clockTree :
              /\ e = <<Canon(Last(p)), Canon(Last(q))>>
              /\ Len(q) = Len(p) + 1 /\ p = Front(q)
<1>1. /\ IsClockTree(clockTree, ClockId) /\ IsFiniteSet(clockTree)
      /\ \A p \in clockTree : p \in Seq(ClockId) /\ Len(p) \in Nat /\ Len(p) > 0
  BY TreesAssumption DEF DiagnosisInv, ReferenceInv, IsClockTree
<1>2. \A p \in clockTree : Last(p) \in ClockId /\ p[1] \in ClockId
  BY <1>1 DEF Last
<1>3. \A a \in refNodes : \E p \in clockTree :
        Len(p) > 1 /\ \E i \in 1..Len(p) : a = Canon(p[i])
  <2>1. \A c \in Linked(clockTree) : \E p \in clockTree :
          Len(p) > 1 /\ \E i \in 1..Len(p) : c = p[i]
    <3>1. \A p \in clockTree : \A c \in ToSet(p) : \E i \in 1..Len(p) : c = p[i]
      BY <1>1 DEF ToSet
    <3> QED BY <3>1 DEF Linked
  <2> QED BY <2>1 DEF DiagnosisInv, ReferenceInv
<1>4. ASSUME NEW a \in refNodes PROVE \E p \in clockTree : a = Canon(Last(p))
  <2>1. PICK p \in clockTree : \E i \in 1..Len(p) : a = Canon(p[i])
    BY <1>3
  <2>2. PICK i \in 1..Len(p) : a = Canon(p[i])
    BY <2>1
  <2>3. PICK q \in clockTree : Len(q) = i /\ \A j \in 1..i : q[j] = p[j]
    BY <1>1, PrefixesArePaths
  <2>4. Last(q) = p[i]
    BY <1>1, <2>3 DEF Last
  <2> QED BY <2>2, <2>4
<1>5. ASSUME NEW e \in refLinks
      PROVE  \E p, q \in clockTree :
               /\ e = <<Canon(Last(p)), Canon(Last(q))>>
               /\ Len(q) = Len(p) + 1 /\ p = Front(q)
  <2>1. PICK f \in TreeToEdges(clockTree) : e = <<Canon(f[1]), Canon(f[2])>>
    BY DEF DiagnosisInv, ReferenceInv
  <2>2. PICK q \in clockTree : Len(q) > 1 /\ f = <<q[Len(q) - 1], q[Len(q)]>>
    BY DEF TreeToEdges
  <2>3. q \in Seq(ClockId) /\ Front(q) \in clockTree
    BY <1>1, <2>2 DEF IsClockTree
  <2>4. /\ Len(Front(q)) = Len(q) - 1
        /\ \A i \in 1..(Len(q) - 1) : Front(q)[i] = q[i]
    BY <2>2, <2>3 DEF Front
  <2>5. /\ Len(q) = Len(Front(q)) + 1
        /\ Last(Front(q)) = q[Len(q) - 1]
    BY <1>1, <2>2, <2>3, <2>4 DEF Last
  <2>6. Last(q) = q[Len(q)]
    BY DEF Last
  <2> HIDE DEF Front, Last
  <2> QED BY <2>1, <2>2, <2>3, <2>5, <2>6
<1> QED BY <1>1, <1>2, <1>3, <1>4, <1>5

\* In one tree of different clocks every clock is the end of one path.
LEMMA OnePathEach ==
  ASSUME DiagnosisInv, IsOneTree(clockTree), NoClockTwice,
         NEW p \in clockTree, NEW q \in clockTree, Canon(Last(p)) = Canon(Last(q))
  PROVE  p = q
<1>1. \A r \in clockTree : r \in Seq(ClockId) /\ Len(r) \in Nat /\ Len(r) > 0
  BY TreesAssumption DEF DiagnosisInv, ReferenceInv, IsClockTree
<1>2. \A r \in clockTree : Last(r) \in ToSet(r)
  BY <1>1 DEF Last, ToSet
<1>3. Last(p) = Last(q)
  BY <1>2 DEF NoClockTwice
<1> QED BY <1>3 DEF IsOneTree

\* A reference that is configured as one tree of different clocks has one root,
\* which every clock is below by the only link into it, and no cycle.
LEMMA ReferenceIsTree ==
  ASSUME DiagnosisInv, IsOneTree(clockTree), NoClockTwice
  PROVE  /\ Roots(Reference) = {GetGrandmaster}
         /\ GetGrandmaster \in refNodes
         /\ Below(Reference, GetGrandmaster) = refNodes
         /\ \A a \in refNodes : ~ OnCycle(Reference, a)
         /\ \A e, f \in refLinks : e[2] = f[2] => e = f
<1>1. /\ IsFiniteGraph(Reference) /\ IsFiniteSet(refNodes)
      /\ Reference.node = refNodes /\ Reference.edge = refLinks
  BY GraphsAreFinite DEF IsFiniteGraph
<1>2. PICK t \in clockTree : Len(t) > 1
  BY DEF IsOneTree
<1>3. PICK s \in clockTree : Len(s) = 1 /\ s[1] = t[1]
  <2>1. IsClockTree(clockTree, ClockId) /\ Len(t) \in Nat
    BY TreesAssumption DEF DiagnosisInv, ReferenceInv, IsClockTree
  <2>2. PICK k \in 1..Len(t) : k = 1
    BY <1>2, <2>1
  <2>3. PICK s \in clockTree : Len(s) = k /\ \A i \in 1..k : s[i] = t[i]
    BY <2>1, PrefixesArePaths
  <2> QED BY <2>2, <2>3
<1> DEFINE r == Canon(s[1])
<1>4. r = Canon(Last(s))
  BY <1>3 DEF Last
<1>5. r \in refNodes
  <2>1. 1 \in 1..Len(t)
    BY <1>2, ReferenceByPaths
  <2> QED BY <1>2, <1>3, <2>1, PathsLeadDown
<1>6. Below(Reference, r) = refNodes
  <2>1. \A p \in clockTree : p[1] = s[1]
    BY DEF IsOneTree
  <2>2. refNodes \subseteq Below(Reference, r)
    BY <2>1, ReferenceByPaths, PathsLeadDown
  <2> QED BY <1>1, <1>5, <2>2, BelowIsClosure
<1>7. Roots(Reference) = {r}
  <2>1. Predecessors(Reference, r) = {}
    <3> SUFFICES ASSUME NEW x \in refNodes, <<x, r>> \in refLinks PROVE FALSE
      BY <1>1 DEF Predecessors
    <3>1. PICK p, q \in clockTree : /\ r = Canon(Last(q))
                                    /\ Len(q) = Len(p) + 1
      BY ReferenceByPaths
    <3>2. q = s
      BY <1>4, <3>1, OnePathEach
    <3>3. Len(p) \in Nat /\ Len(p) > 0
      BY ReferenceByPaths
    <3>4. Len(p) + 1 = 1
      BY <1>3, <3>1, <3>2
    <3> QED BY <3>3, <3>4
  <2>2. \A b \in refNodes : b # r => b \notin Roots(Reference)
    BY <1>1, <1>5, <1>6, BelowHasPredecessor
  <2> QED BY <1>1, <1>5, <2>1, <2>2 DEF Roots
<1>8. GetGrandmaster = r
  BY <1>7, Grandmaster
<1>9. ASSUME NEW a \in refNodes PROVE ~ OnCycle(Reference, a)
  <2> SUFFICES ASSUME OnCycle(Reference, a) PROVE FALSE
    OBVIOUS
  <2>1. PICK p \in clockTree : a = Canon(Last(p))
    BY ReferenceByPaths
  <2> DEFINE Deeper(n) == {x \in refNodes : \E q \in clockTree :
                             x = Canon(Last(q)) /\ Len(q) > n}
             S == Successors(Reference, a)
  <2>2. ASSUME NEW q \in clockTree, NEW y, <<Canon(Last(q)), y>> \in refLinks
        PROVE  \E v \in clockTree : y = Canon(Last(v)) /\ Len(v) = Len(q) + 1
    <3>1. PICK u, v \in clockTree : /\ Canon(Last(q)) = Canon(Last(u))
                                    /\ y = Canon(Last(v))
                                    /\ Len(v) = Len(u) + 1
      BY <2>2, ReferenceByPaths
    <3> QED BY <3>1, OnePathEach
  <2>3. S \subseteq Deeper(Len(p)) /\ S \in SUBSET refNodes
    BY <1>1, <2>1, <2>2, ReferenceByPaths DEF Successors
  <2>4. IsClosed(Reference, Deeper(Len(p)))
    <3> SUFFICES ASSUME NEW x \in Deeper(Len(p)), NEW y \in refNodes,
                        <<x, y>> \in refLinks
                 PROVE  y \in Deeper(Len(p))
      BY <1>1 DEF IsClosed
    <3>1. PICK q \in clockTree : x = Canon(Last(q)) /\ Len(q) > Len(p)
      OBVIOUS
    <3>2. PICK v \in clockTree : y = Canon(Last(v)) /\ Len(v) = Len(q) + 1
      BY <2>2, <3>1
    <3>3. Len(v) > Len(p)
      BY <3>1, <3>2, ReferenceByPaths
    <3> QED BY <3>2, <3>3
  <2>5. a \in Reach(Reference, S)
    BY DEF OnCycle
  <2>6. a \in Deeper(Len(p))
    <3> HIDE DEF S, Deeper
    <3> QED BY <1>1, <2>3, <2>4, <2>5, ReachIsClosure
  <2>7. PICK q \in clockTree : a = Canon(Last(q)) /\ Len(q) > Len(p)
    BY <2>6
  <2>8. q = p
    BY <2>1, <2>7, OnePathEach
  <2> QED BY <2>7, <2>8, ReferenceByPaths
<1>10. ASSUME NEW e \in refLinks, NEW f \in refLinks, e[2] = f[2] PROVE e = f
  <2>1. PICK p, q \in clockTree :
          e = <<Canon(Last(p)), Canon(Last(q))>> /\ p = Front(q)
    BY ReferenceByPaths
  <2>2. PICK u, v \in clockTree :
          f = <<Canon(Last(u)), Canon(Last(v))>> /\ u = Front(v)
    BY ReferenceByPaths
  <2>3. q = v
    BY <1>10, <2>1, <2>2, OnePathEach
  <2> QED BY <2>1, <2>2, <2>3
<1> HIDE DEF r
<1> QED BY <1>5, <1>6, <1>7, <1>8, <1>9, <1>10

------------------------------------------------------------------------------
(* The diagnostics are published. *)

\* The diagnosis of a clock of the graph does not raise, for a configuration
\* that is one tree of different clocks or has no link, unless a merge has given
\* a link an integer key.
LEMMA ClockNeverRaises ==
  ASSUME DiagnosisInv, IsOneTree(clockTree) \/ refNodes = {}, NoClockTwice,
         KeysAreKinds, NEW c \in nodes
  PROVE  ClockLevel(c) \in Ok..Error
<1>1. Ok..Error \in SUBSET (Ok..Raised) /\ {Ok, Error} \subseteq Ok..Error
  BY DEF Ok, Error, Raised
<1>2. AdherenceLevel(c) \in {Ok, Error}
  <2>1. CASE c \notin refNodes
    BY <2>1, Zenon DEF AdherenceLevel
  <2>2. CASE c \in refNodes
    <3>1. GetGrandmaster \in refNodes /\ c \in Below(Reference, GetGrandmaster)
      BY <2>2, ReferenceIsTree
    <3>2. GetGrandmaster # NoClock
      BY <3>1, GraphsAreFinite, UnsetAssumption
    <3> HIDE DEF GetGrandmaster
    <3> QED BY <3>1, <3>2, Zenon DEF AdherenceLevel, Flag
  <2> QED BY <2>1, <2>2
<1>3. \A l \in links : LinkLevel(l) \in Ok..Error
  BY LinkLevels DEF KeysAreKinds
<1>4. selfState[c] \in State \cup {NoState}
  BY GraphsAreFinite DEF DiagnosisInv, NameInv, TypeOK
<1>5. (IF selfState[c] = NoState THEN Ok ELSE StateLevel[selfState[c]])
        \in Ok..Error
  BY <1>1, <1>4, LevelAssumption
<1>6. LevelsOf(c) \in SUBSET (Ok..Error)
  <2>1. UpstreamLinks(c) \subseteq links
    BY DEF UpstreamLinks
  <2> HIDE DEF AdherenceLevel, LinkLevel
  <2> QED BY <1>1, <1>2, <1>3, <1>5, <2>1 DEF LevelsOf
<1>7. Worst(LevelsOf(c)) \in Ok..Error
  <2>1. CASE LevelsOf(c) = {}
    BY <1>1, <2>1 DEF Worst
  <2>2. CASE LevelsOf(c) # {}
    BY <1>1, <1>6, <2>2, WorstIsGreatest
  <2> QED BY <2>1, <2>2
<1> QED BY <1>1, <1>7, ClockLevels

\* After any sequence of updates, and for every configuration that is one tree
\* of different clocks or has no link, nothing raises while the diagnoses are
\* computed, unless a merge has given a link an integer key.
THEOREM DiagnosticsAreAlwaysPublished == GSpec => []AlwaysPublished
<1>1. DiagnosisInv => AlwaysPublished
  <2> SUFFICES ASSUME DiagnosisInv, IsOneTree(clockTree) \/ refNodes = {},
                      NoClockTwice, KeysAreKinds
               PROVE  Published
    BY DEF AlwaysPublished
  <2>1. Ok..Error \in SUBSET (Ok..Raised) /\ Raised \notin Ok..Error
        /\ Ok \in Ok..Error /\ Warning \in Ok..Error /\ Error \in Ok..Error
    BY DEF Ok, Warning, Error, Raised
  <2>2. \A S \in SUBSET (Ok..Error) : Worst(S) # Raised
    <3>1. Worst({}) # Raised
      BY DEF Worst, Ok, Raised
    <3>2. ASSUME NEW S \in SUBSET (Ok..Error), S # {} PROVE Worst(S) # Raised
      BY <2>1, <3>2, WorstIsGreatest
    <3> QED BY <3>1, <3>2
  <2>3. GraphLevel # Raised /\ ReferenceLevel # Raised
    <3> DEFINE S == {ReachabilityLevel, AcyclicityLevel, GrandmasterLevel}
               R == {Flag(MissingClocks # {}, Error),
                     Flag(RogueClocks # {}, Warning)}
    <3>1. /\ ReachabilityLevel \in {Ok, Error}
          /\ AcyclicityLevel \in {Ok, Error}
          /\ GrandmasterLevel \in {Ok, Error}
      BY Zenon DEF ReachabilityLevel, AcyclicityLevel, GrandmasterLevel, Flag
    <3>2. S \in SUBSET (Ok..Error) /\ R \in SUBSET (Ok..Error)
      <4> HIDE DEF ReachabilityLevel, AcyclicityLevel, GrandmasterLevel
      <4> QED BY <2>1, <3>1 DEF Flag
    <3>3. GraphLevel = Worst(S) /\ ReferenceLevel = Worst(R)
      BY DEF GraphLevel, ReferenceLevel
    <3> HIDE DEF S, R
    <3> QED BY <2>2, <3>2, <3>3
  <2>4. \A a \in refNodes : ~ OnCycle(Reference, a)
    BY ReferenceIsTree
  <2>5. SortLevel # Raised
    BY <2>4 DEF SortLevel, Flag, Ok, Raised
  <2>6. ASSUME NEW c \in refNodes PROVE PublishedLevel(c) # Raised
    <3>1. CASE c \notin nodes
      BY <2>1, <3>1, GraphsAreFinite DEF PublishedLevel
    <3>2. CASE c \in nodes
      BY <2>1, <3>2, ClockNeverRaises, GraphsAreFinite DEF PublishedLevel
    <3> QED BY <3>1, <3>2
  <2> HIDE DEF GraphLevel, ReferenceLevel, SortLevel, PublishedLevel
  <2> QED BY <2>3, <2>5, <2>6 DEF Published
<1> QED BY <1>1, DiagnosisInvariant, PTL

------------------------------------------------------------------------------
(* Simple paths. *)

\* p follows edges from a, and visits no node twice.
LeadsFrom(G, a, p) == p \in SimplePath(G) /\ p[1] = a

\* The first elements of a sequence.
LEMMA PrefixOf ==
  ASSUME NEW S, NEW s \in Seq(S), NEW k \in 1..Len(s)
  PROVE  /\ SubSeq(s, 1, k) \in Seq(S) /\ Len(SubSeq(s, 1, k)) = k
         /\ \A i \in 1..k : SubSeq(s, 1, k)[i] = s[i]
<1>1. SubSeq(s, 1, k) \in Seq(S)
  OBVIOUS
<1>2. Len(SubSeq(s, 1, k)) = k /\ \A i \in 1..k : SubSeq(s, 1, k)[i] = s[i]
  OBVIOUS
<1> QED BY <1>1, <1>2

\* A path can be cut short after any of its nodes.
LEMMA CutShort ==
  ASSUME NEW G, NEW a, NEW p, LeadsFrom(G, a, p), NEW k \in 1..Len(p)
  PROVE  /\ LeadsFrom(G, a, SubSeq(p, 1, k))
         /\ Len(SubSeq(p, 1, k)) = k /\ Last(SubSeq(p, 1, k)) = p[k]
         /\ \A i \in 1..k : SubSeq(p, 1, k)[i] = p[i]
<1> DEFINE q == SubSeq(p, 1, k)
<1>1. p \in Seq(G.node) /\ Len(p) \in Nat
  BY DEF LeadsFrom, SimplePath, Path
<1>2. q \in Seq(G.node) /\ Len(q) = k /\ \A i \in 1..k : q[i] = p[i]
  BY <1>1, PrefixOf
<1> HIDE DEF q
<1>3. q # <<>> /\ q[1] = a /\ Last(q) = p[k]
  BY <1>1, <1>2 DEF LeadsFrom, Last
<1>4. \A i \in 1..(Len(q) - 1) : <<q[i], q[i + 1]>> \in G.edge
  <2> SUFFICES ASSUME NEW i \in 1..(Len(q) - 1) PROVE <<q[i], q[i + 1]>> \in G.edge
    OBVIOUS
  <2>1. i \in 1..k /\ i + 1 \in 1..k /\ i \in 1..(Len(p) - 1)
    BY <1>1, <1>2
  <2> QED BY <1>2, <2>1 DEF LeadsFrom, SimplePath, Path
<1>5. \A i, j \in 1..Len(q) : q[i] = q[j] => i = j
  BY <1>1, <1>2 DEF LeadsFrom, SimplePath
<1> QED BY <1>2, <1>3, <1>4, <1>5 DEF LeadsFrom, SimplePath, Path, q

\* A path can be continued to a successor that it has not visited.
LEMMA Continued ==
  ASSUME NEW G, NEW a, NEW p, LeadsFrom(G, a, p),
         NEW c \in Successors(G, Last(p)) \ ToSet(p)
  PROVE  /\ LeadsFrom(G, a, Append(p, c))
         /\ Len(Append(p, c)) = Len(p) + 1 /\ Last(Append(p, c)) = c
<1> DEFINE q == Append(p, c)
<1>1. p \in Seq(G.node) /\ Len(p) \in Nat /\ Len(p) > 0
  BY DEF LeadsFrom, SimplePath, Path
<1>2. c \in G.node /\ <<p[Len(p)], c>> \in G.edge /\ \A i \in 1..Len(p) : p[i] # c
  BY <1>1 DEF Successors, Last, ToSet
<1>3. /\ q \in Seq(G.node) /\ Len(q) = Len(p) + 1 /\ q[Len(p) + 1] = c
      /\ \A i \in 1..Len(p) : q[i] = p[i]
  BY <1>1, <1>2
<1> HIDE DEF q
<1>4. q # <<>> /\ q[1] = a /\ Last(q) = c
  BY <1>1, <1>3 DEF LeadsFrom, Last
<1>5. \A i \in 1..(Len(q) - 1) : <<q[i], q[i + 1]>> \in G.edge
  <2> SUFFICES ASSUME NEW i \in 1..(Len(q) - 1) PROVE <<q[i], q[i + 1]>> \in G.edge
    OBVIOUS
  <2>1. CASE i = Len(p)
    <3>1. q[i] = p[Len(p)] /\ q[i + 1] = c
      BY <1>1, <1>3, <2>1
    <3> QED BY <1>2, <3>1
  <2>2. CASE i # Len(p)
    <3>1. i \in 1..Len(p) /\ i + 1 \in 1..Len(p) /\ i \in 1..(Len(p) - 1)
      BY <1>1, <1>3, <2>2
    <3> QED BY <1>3, <3>1 DEF LeadsFrom, SimplePath, Path
  <2> QED BY <2>1, <2>2
<1>6. \A i, j \in 1..Len(q) : q[i] = q[j] => i = j
  <2> SUFFICES ASSUME NEW i \in 1..Len(q), NEW j \in 1..Len(q), q[i] = q[j]
               PROVE  i = j
    OBVIOUS
  <2>1. /\ i = Len(p) + 1 \/ i \in 1..Len(p)
        /\ j = Len(p) + 1 \/ j \in 1..Len(p)
    BY <1>1, <1>3
  <2> QED BY <1>2, <1>3, <2>1 DEF LeadsFrom, SimplePath
<1> QED BY <1>3, <1>4, <1>5, <1>6 DEF LeadsFrom, SimplePath, Path, q

\* A path has at most as many nodes as the graph.
LEMMA PathsAreShort ==
  ASSUME NEW G, IsFiniteSet(G.node), NEW a, NEW p, LeadsFrom(G, a, p)
  PROVE  Len(p) \in 1..Cardinality(G.node)
<1> DEFINE I == 1..Len(p)
           N == G.node
<1>1. p \in Seq(G.node) /\ Len(p) \in Nat /\ Len(p) > 0
  BY DEF LeadsFrom, SimplePath, Path
<1>2. p \in Injection(I, N)
  BY <1>1 DEF LeadsFrom, SimplePath, Injection, IsInjective
<1>3. Cardinality(I) <= Cardinality(N)
  <2> HIDE DEF I, N
  <2>1. IsFiniteSet(N)
    BY DEF N
  <2> QED BY <1>2, <2>1, FS_Injection
<1>4. Cardinality(I) = Len(p)
  BY <1>1, FS_Interval
<1>5. Cardinality(N) \in Nat
  BY FS_CardinalityType
<1> QED BY <1>1, <1>3, <1>4, <1>5

\* One element makes a sequence.
LEMMA OneElement ==
  ASSUME NEW S, NEW x \in S
  PROVE  <<x>> \in Seq(S)
OBVIOUS

\* The only path of one node.
LEMMA PathOfOne ==
  ASSUME NEW G, NEW a \in G.node
  PROVE  /\ LeadsFrom(G, a, <<a>>) /\ Len(<<a>>) = 1 /\ Last(<<a>>) = a
         /\ \A p \in Seq(G.node) : Len(p) = 1 /\ p[1] = a => p = <<a>>
<1>1. <<a>> \in Seq(G.node)
  BY OneElement
<1>2. Len(<<a>>) = 1 /\ <<a>>[1] = a
  OBVIOUS
<1>3. <<a>> # <<>>
  OBVIOUS
<1>4. ASSUME NEW p \in Seq(G.node), Len(p) = 1, p[1] = a PROVE p = <<a>>
  BY <1>4
<1> QED BY <1>1, <1>2, <1>3, <1>4 DEF LeadsFrom, SimplePath, Path, Last

\* The paths of P, each continued by each successor that it has not visited.
Longer(G, P) ==
  UNION {{Append(p, c) : c \in Successors(G, Last(p)) \ ToSet(p)} : p \in P}

\* The steps of all_simple_paths, as SimplePaths defines them.
IsPathSearch(G, a, N, f) ==
  f = [n \in 1..N |-> IF n = 1 THEN {<<a>>}
                      ELSE f[n - 1] \cup Longer(G, f[n - 1])]

\* The paths that a round of the search adds: one clock longer, no clock twice.
LEMMA LongerPaths ==
  ASSUME NEW G, NEW P
  PROVE  \A q : q \in Longer(G, P) <=>
           \E p \in P : \E c \in Successors(G, Last(p)) \ ToSet(p) : q = Append(p, c)
<1>1. \A p, q : q \in {Append(p, c) : c \in Successors(G, Last(p)) \ ToSet(p)}
                <=> \E c \in Successors(G, Last(p)) \ ToSet(p) : q = Append(p, c)
  BY Zenon
<1> DEFINE Cont(p) == {Append(p, c) : c \in Successors(G, Last(p)) \ ToSet(p)}
<1>2. \A q : q \in Longer(G, P) <=> \E p \in P : q \in Cont(p)
  BY Zenon DEF Longer
<1> QED BY <1>1, <1>2

\* The search for the simple paths is a function, whatever its number of rounds.
LEMMA PathSearchExists ==
  ASSUME NEW G, NEW a \in G.node, NEW N \in Nat \ {0}
  PROVE  \E f : IsPathSearch(G, a, N, f)
<1> DEFINE D == SUBSET Seq(G.node)
           F == [P \in D |-> P \cup Longer(G, P)]
<1>1. ASSUME NEW P \in D PROVE Longer(G, P) \in D
  <2> SUFFICES ASSUME NEW p \in P, NEW c \in Successors(G, Last(p))
               PROVE  Append(p, c) \in Seq(G.node)
    BY LongerPaths
  <2>1. p \in Seq(G.node) /\ c \in G.node
    BY DEF Successors
  <2> QED BY <2>1
<1>2. F \in [D -> D] /\ {<<a>>} \in D /\ N - 1 \in Nat
  BY <1>1
<1> HIDE DEF D, F
<1>3. PICK g : IsIteration(D, F, {<<a>>}, N - 1, g)
  BY <1>2, Iterates
<1>4. PICK f : f = [n \in 1..N |-> g[n - 1]]
  OBVIOUS
<1>5. DOMAIN f = 1..N /\ \A n \in 1..N : f[n] = g[n - 1]
  BY <1>4
<1>6. ASSUME NEW n \in 1..N
      PROVE  f[n] = IF n = 1 THEN {<<a>>}
                    ELSE f[n - 1] \cup Longer(G, f[n - 1])
  <2>1. CASE n = 1
    BY <1>3, <1>5, <2>1 DEF IsIteration
  <2>2. CASE n # 1
    <3>1. n - 1 \in 1..(N - 1) /\ n - 1 \in 1..N /\ n - 1 - 1 \in 0..(N - 1)
      BY <2>2
    <3>2. g[n - 1] = F[g[n - 1 - 1]] /\ g[n - 1 - 1] \in D
      BY <1>3, <3>1 DEF IsIteration
    <3>3. f[n - 1] = g[n - 1 - 1]
      BY <1>5, <3>1
    <3>4. F[f[n - 1]] = f[n - 1] \cup Longer(G, f[n - 1])
      BY <3>2, <3>3 DEF F
    <3> QED BY <1>5, <2>2, <3>2, <3>3, <3>4
  <2> QED BY <2>1, <2>2
<1>7. f = [n \in 1..N |-> f[n]]
  BY <1>4, <1>5
<1>8. f = [n \in 1..N |-> IF n = 1 THEN {<<a>>}
                          ELSE f[n - 1] \cup Longer(G, f[n - 1])]
  BY <1>6, <1>7
<1> QED BY <1>8 DEF IsPathSearch

\* all_simple_paths finds the paths that visit no node twice, and no others.
LEMMA SimplePathsAre ==
  ASSUME NEW G, IsFiniteSet(G.node), NEW a \in G.node, NEW b
  PROVE  \A p : p \in SimplePaths(G, a, b) <=> LeadsFrom(G, a, p) /\ Last(p) = b
<1> DEFINE N == Cardinality(G.node)
           upTo[n \in 1..N] ==
             IF n = 1 THEN {<<a>>}
             ELSE LET known == upTo[n - 1] IN known \cup Longer(G, known)
           Found(n) == \A p : p \in upTo[n] <=> LeadsFrom(G, a, p) /\ Len(p) <= n
<1>1. N \in Nat \ {0}
  BY FS_CardinalityType, FS_EmptySet
<1>2. SimplePaths(G, a, b) = {p \in upTo[N] : Last(p) = b}
  BY DEF SimplePaths, Longer
<1>3. upTo = [n \in 1..N |-> IF n = 1 THEN {<<a>>}
                             ELSE upTo[n - 1] \cup Longer(G, upTo[n - 1])]
  <2>1. upTo = CHOOSE f : IsPathSearch(G, a, N, f)
    BY DEF IsPathSearch
  <2> HIDE DEF N, upTo
  <2>2. IsPathSearch(G, a, N, upTo)
    BY <1>1, <2>1, PathSearchExists, Zenon
  <2> QED BY <2>2 DEF IsPathSearch
<1> HIDE DEF N, upTo
<1>4. upTo[1] = {<<a>>} /\ \A n \in 2..N :
        upTo[n] = upTo[n - 1] \cup Longer(G, upTo[n - 1])
  <2>1. ASSUME NEW n \in 1..N
        PROVE  upTo[n] = IF n = 1 THEN {<<a>>}
                         ELSE upTo[n - 1] \cup Longer(G, upTo[n - 1])
    BY <1>3, Zenon
  <2>2. upTo[1] = {<<a>>}
    <3>1. PICK n \in 1..N : n = 1
      BY <1>1
    <3> QED BY <2>1, <3>1, Zenon
  <2>3. ASSUME NEW n \in 2..N
        PROVE  upTo[n] = upTo[n - 1] \cup Longer(G, upTo[n - 1])
    <3>1. n \in 1..N /\ n # 1
      BY <1>1
    <3> QED BY <2>1, <3>1
  <2> QED BY <2>2, <2>3
<1>5. Found(1)
  <2>1. LeadsFrom(G, a, <<a>>) /\ Len(<<a>>) <= 1
    BY PathOfOne
  <2>2. ASSUME NEW p, LeadsFrom(G, a, p), Len(p) <= 1 PROVE p = <<a>>
    <3>1. p \in Seq(G.node) /\ Len(p) \in Nat /\ Len(p) > 0 /\ p[1] = a
      BY <2>2 DEF LeadsFrom, SimplePath, Path
    <3>2. Len(p) = 1
      <4> DEFINE k == Len(p)
      <4>1. k <= 1 /\ k \in Nat /\ k > 0
        BY <2>2, <3>1
      <4> HIDE DEF k
      <4>2. k = 1
        BY <4>1
      <4> QED BY <4>2 DEF k
    <3> QED BY <3>1, <3>2, PathOfOne
  <2> QED BY <1>4, <2>1, <2>2
<1>6. ASSUME NEW n \in 2..N, Found(n - 1) PROVE Found(n)
  <2>1. ASSUME NEW p, p \in upTo[n]
        PROVE  LeadsFrom(G, a, p) /\ Len(p) <= n
    <3>1. CASE p \in upTo[n - 1]
      <4>1. LeadsFrom(G, a, p) /\ Len(p) <= n - 1 /\ Len(p) \in Nat
        BY <1>6, <3>1 DEF LeadsFrom, SimplePath, Path
      <4> QED BY <4>1
    <3>2. CASE p \in Longer(G, upTo[n - 1])
      <4>1. PICK q \in upTo[n - 1] :
              \E c \in Successors(G, Last(q)) \ ToSet(q) : p = Append(q, c)
        BY <3>2, LongerPaths
      <4>2. LeadsFrom(G, a, q) /\ Len(q) <= n - 1 /\ Len(q) \in Nat
        BY <1>6, <4>1 DEF LeadsFrom, SimplePath, Path
      <4>3. LeadsFrom(G, a, p) /\ Len(p) = Len(q) + 1
        BY <4>1, <4>2, Continued
      <4> QED BY <4>2, <4>3
    <3> QED BY <1>4, <2>1, <3>1, <3>2
  <2>2. ASSUME NEW p, LeadsFrom(G, a, p), Len(p) <= n
        PROVE  p \in upTo[n]
    <3>1. /\ p \in Seq(G.node) /\ Len(p) \in Nat /\ Len(p) > 0
          /\ \A i \in 1..(Len(p) - 1) : <<p[i], p[i + 1]>> \in G.edge
          /\ \A i, j \in 1..Len(p) : p[i] = p[j] => i = j
      BY <2>2 DEF LeadsFrom, SimplePath, Path
    <3>2. CASE Len(p) <= n - 1
      BY <1>4, <1>6, <2>2, <3>2
    <3>3. CASE Len(p) = n
      <4> DEFINE q == SubSeq(p, 1, n - 1)
                 c == p[n]
      <4>1. n - 1 \in 1..Len(p) /\ n \in 1..Len(p) /\ n - 1 \in 1..(Len(p) - 1)
        BY <3>1, <3>3
      <4>2. /\ LeadsFrom(G, a, q) /\ Len(q) = n - 1 /\ Last(q) = p[n - 1]
            /\ \A i \in 1..(n - 1) : q[i] = p[i]
        BY <2>2, <4>1, CutShort
      <4>3. q \in Seq(G.node) /\ q \in upTo[n - 1]
        <5>1. LeadsFrom(G, a, q) /\ Len(q) <= n - 1
          BY <1>6, <4>2
        <5> QED BY <1>6, <5>1 DEF LeadsFrom, SimplePath, Path
      <4> HIDE DEF q
      <4>4. c \in Successors(G, Last(q)) \ ToSet(q)
        <5>1. c \in G.node /\ <<p[n - 1], c>> \in G.edge
          BY <3>1, <3>3, <4>1
        <5>2. \A i \in 1..(n - 1) : q[i] # c
          BY <3>1, <3>3, <4>1, <4>2
        <5>3. DOMAIN q = 1..(n - 1)
          BY <4>2, <4>3
        <5> QED BY <4>2, <5>1, <5>2, <5>3 DEF Successors, ToSet
      <4>5. p = Append(q, c)
        BY <3>1, <3>3, <4>1, <4>2, <4>3
      <4>6. p \in Longer(G, upTo[n - 1])
        BY <4>3, <4>4, <4>5, LongerPaths
      <4> QED BY <1>4, <4>6
    <3> QED BY <2>2, <3>1, <3>2, <3>3
  <2> QED BY <2>1, <2>2
<1>7. Found(N)
  <2> DEFINE Bad == {n \in 1..N : ~ Found(n)}
  <2>1. ASSUME Bad # {} PROVE FALSE
    <3>1. PICK n \in Bad : \A k \in Bad : n <= k
      <4>1. Bad \in SUBSET Nat
        BY <1>1
      <4> HIDE DEF Bad
      <4> QED BY <2>1, <4>1, LeastNatural
    <3>2. n \in 2..N /\ n - 1 \in 1..N /\ ~(n <= n - 1)
      BY <1>1, <1>5, <3>1
    <3>3. Found(n - 1)
      BY <3>1, <3>2
    <3> QED BY <1>6, <3>1, <3>2, <3>3
  <2>2. N \in 1..N
    BY <1>1
  <2> HIDE DEF Found
  <2> QED BY <2>1, <2>2
<1>8. \A p : LeadsFrom(G, a, p) => Len(p) <= N
  BY PathsAreShort DEF N
<1> QED BY <1>2, <1>7, <1>8

\* What is below a is the end of a path from a; along a path one gets down.
LEMMA BelowByPaths ==
  ASSUME NEW G, IsFiniteSet(G.node), NEW a \in G.node
  PROVE  /\ \A b \in Below(G, a) : SimplePaths(G, a, b) # {}
         /\ \A p : LeadsFrom(G, a, p) =>
              \A i \in 1..Len(p) : \A j \in i..Len(p) : p[j] \in Below(G, p[i])
<1> DEFINE T == {x \in G.node : \E p : LeadsFrom(G, a, p) /\ Last(p) = x}
<1>1. a \in T
  BY PathOfOne
<1>2. ASSUME NEW x \in T, NEW y \in G.node, <<x, y>> \in G.edge
      PROVE  y \in T
  <2>1. PICK p : LeadsFrom(G, a, p) /\ Last(p) = x
    OBVIOUS
  <2>2. p \in Seq(G.node)
    BY <2>1 DEF LeadsFrom, SimplePath, Path
  <2>3. CASE y \in ToSet(p)
    <3>1. PICK k \in 1..Len(p) : p[k] = y
      BY <2>2, <2>3 DEF ToSet
    <3>2. LeadsFrom(G, a, SubSeq(p, 1, k)) /\ Last(SubSeq(p, 1, k)) = y
      BY <2>1, <3>1, CutShort
    <3> QED BY <3>2
  <2>4. CASE y \notin ToSet(p)
    <3>1. y \in Successors(G, Last(p)) \ ToSet(p)
      BY <1>2, <2>1, <2>4 DEF Successors
    <3>2. LeadsFrom(G, a, Append(p, y)) /\ Last(Append(p, y)) = y
      BY <2>1, <3>1, Continued
    <3> QED BY <3>2
  <2> QED BY <2>3, <2>4
<1>3. \A b \in Below(G, a) : SimplePaths(G, a, b) # {}
  <2>1. Below(G, a) \subseteq T
    <3> HIDE DEF T
    <3> QED BY <1>1, <1>2, BelowIsClosure DEF IsClosed
  <2> QED BY <2>1, SimplePathsAre
<1>4. ASSUME NEW p, LeadsFrom(G, a, p), NEW i \in 1..Len(p), NEW j \in i..Len(p)
      PROVE  p[j] \in Below(G, p[i])
  <2> DEFINE Bad == {n \in i..Len(p) : p[n] \notin Below(G, p[i])}
  <2>1. /\ p \in Seq(G.node) /\ Len(p) \in Nat
        /\ \A n \in 1..(Len(p) - 1) : <<p[n], p[n + 1]>> \in G.edge
    BY <1>4 DEF LeadsFrom, SimplePath, Path
  <2>2. \A n \in i..Len(p) : p[n] \in G.node
    BY <2>1
  <2>3. p[i] \in Below(G, p[i])
    BY <2>1, BelowIsClosure
  <2>4. ASSUME Bad # {} PROVE FALSE
    <3>1. PICK n \in Bad : \A m \in Bad : n <= m
      <4>1. Bad \in SUBSET Nat
        BY <2>1
      <4> HIDE DEF Bad
      <4> QED BY <2>4, <4>1, LeastNatural
    <3>2. /\ n - 1 \in i..Len(p) /\ n - 1 \in 1..(Len(p) - 1)
          /\ n - 1 + 1 = n /\ ~(n <= n - 1)
      BY <2>1, <2>3, <3>1
    <3>3. p[n - 1] \in Below(G, p[i])
      BY <3>1, <3>2
    <3>4. <<p[n - 1], p[n]>> \in G.edge
      BY <2>1, <3>2
    <3>5. p[n] \in G.node /\ p[i] \in G.node
      BY <2>1, <2>2, <3>1
    <3>6. p[n] \in Below(G, p[i])
      BY <3>3, <3>4, <3>5, BelowIsClosure
    <3> QED BY <3>1, <3>6
  <2> QED BY <2>4
<1> QED BY <1>3, <1>4

\* Of the paths to a node below there is a shortest one.
LEMMA ShortestPathExists ==
  ASSUME NEW G, IsFiniteSet(G.node), NEW a \in G.node, NEW b \in Below(G, a)
  PROVE  /\ LeadsFrom(G, a, ShortestPath(G, a, b))
         /\ Last(ShortestPath(G, a, b)) = b
<1> DEFINE P == SimplePaths(G, a, b)
           L == {n \in Nat : \E p \in P : Len(p) = n}
<1>1. P # {} /\ \A p \in P : LeadsFrom(G, a, p) /\ Last(p) = b
  BY BelowByPaths, SimplePathsAre
<1>2. \A p \in P : Len(p) \in Nat
  BY <1>1 DEF LeadsFrom, SimplePath, Path
<1> HIDE DEF P
<1>3. PICK n \in L : \A m \in L : n <= m
  <2>1. L # {} /\ L \in SUBSET Nat
    BY <1>1, <1>2
  <2> HIDE DEF L
  <2> QED BY <2>1, LeastNatural
<1>4. \E p \in P : \A q \in P : Len(p) <= Len(q)
  BY <1>2, <1>3
<1>5. ShortestPath(G, a, b) \in P
  BY <1>4, Zenon DEF ShortestPath, P
<1> QED BY <1>1, <1>5

\* No node has two edges from other nodes.
HasOneParentEach(G) ==
  \A e, f \in G.edge : e[2] = f[2] /\ e[1] # e[2] /\ f[1] # f[2] => e = f

\* Where no node has two parents, all that is above a node of a path from a root
\* is on that path before it.
LEMMA AboveIsOnPath ==
  ASSUME NEW G, IsFiniteGraph(G), NEW a \in Roots(G), NEW p, LeadsFrom(G, a, p),
         HasOneParentEach(G), NEW k \in 1..Len(p), NEW x \in Above(G, p[k])
  PROVE  \E j \in 1..k : x = p[j]
<1> DEFINE R == Transpose(G)
           T == {y \in G.node : \E j \in 1..k : y = p[j]}
<1>1. /\ p \in Seq(G.node) /\ Len(p) \in Nat /\ p[1] = a
      /\ \A n \in 1..(Len(p) - 1) : <<p[n], p[n + 1]>> \in G.edge
      /\ \A i, j \in 1..Len(p) : p[i] = p[j] => i = j
  BY DEF LeadsFrom, SimplePath, Path
<1>2. /\ R.node = G.node /\ IsFiniteSet(R.node)
      /\ \A y, z : <<y, z>> \in R.edge <=> <<z, y>> \in G.edge
  BY Transposed DEF IsFiniteGraph
<1>3. p[k] \in T
  BY <1>1
<1>4. ASSUME NEW y \in T, NEW z \in G.node, <<z, y>> \in G.edge
      PROVE  z \in T
  <2>1. PICK j \in 1..k : y = p[j]
    OBVIOUS
  <2>2. CASE j = 1
    <3>1. Predecessors(G, a) = {}
      BY DEF Roots
    <3> QED BY <1>1, <1>4, <2>1, <2>2, <3>1 DEF Predecessors
  <2>3. CASE j # 1 /\ z # y
    <3>1. /\ j - 1 \in 1..(Len(p) - 1) /\ j - 1 + 1 = j
          /\ j - 1 \in 1..k /\ j - 1 \in 1..Len(p) /\ j \in 1..Len(p) /\ j - 1 # j
      BY <1>1, <2>1, <2>3
    <3>2. <<p[j - 1], p[j]>> \in G.edge /\ p[j - 1] # p[j]
      BY <1>1, <3>1
    <3>3. <<z, y>> = <<p[j - 1], p[j]>>
      BY <1>4, <2>1, <2>3, <3>2 DEF HasOneParentEach
    <3> QED BY <3>1, <3>3
  <2> QED BY <2>2, <2>3
<1>5. Below(R, p[k]) \subseteq T
  <2>1. p[k] \in R.node
    BY <1>1, <1>2
  <2> HIDE DEF R, T
  <2> QED BY <1>2, <1>3, <1>4, <2>1, BelowIsClosure DEF IsClosed
<1> QED BY <1>5 DEF Above, Below

------------------------------------------------------------------------------
(* Adherence to the reference. *)

\* If each element of a sequence of numbers is less than the next, it is less
\* than all that follow.
LEMMA Increasing ==
  ASSUME NEW n \in Nat, NEW f \in [1..n -> Nat],
         \A i \in 1..(n - 1) : f[i] < f[i + 1]
  PROVE  \A i, j \in 1..n : i < j => f[i] < f[j]
<1> SUFFICES ASSUME NEW i \in 1..n PROVE \A j \in 1..n : i < j => f[i] < f[j]
  OBVIOUS
<1> DEFINE Bad == {j \in 1..n : i < j /\ ~(f[i] < f[j])}
<1>1. ASSUME Bad # {} PROVE FALSE
  <2>1. PICK j \in Bad : \A k \in Bad : j <= k
    <3>1. Bad \in SUBSET Nat
      OBVIOUS
    <3> HIDE DEF Bad
    <3> QED BY <1>1, <3>1, LeastNatural
  <2>2. j - 1 \in 1..(n - 1) /\ j - 1 + 1 = j /\ ~(j <= j - 1)
    BY <2>1
  <2>3. f[j - 1] < f[j] /\ f[j - 1] \in Nat /\ f[j] \in Nat /\ f[i] \in Nat
    <3>1. j - 1 \in 1..n
      BY <2>2
    <3> QED BY <2>1, <2>2, <3>1
  <2>4. CASE j - 1 = i
    BY <2>1, <2>3, <2>4
  <2>5. CASE j - 1 # i
    <3>1. i < j - 1 /\ j - 1 \in 1..n
      BY <2>1, <2>2, <2>5
    <3>2. f[i] < f[j - 1]
      BY <2>1, <2>2, <3>1
    <3> QED BY <2>1, <2>3, <3>2
  <2> QED BY <2>4, <2>5
<1> QED BY <1>1

\* The links of the graph that only go down the reference towards a clock.
Towards(c) == {e \in Edges : /\ e[2] \in Above(Reference, c)
                             /\ e[1] \in Above(Reference, e[2])}

DownTo(c) == [node |-> nodes, edge |-> Towards(c)]

\* The links that lead down to a clock are a graph.
LEMMA DownToIsGraph ==
  ASSUME DiagnosisInv, NEW c
  PROVE  /\ DownTo(c).node = nodes /\ DownTo(c).edge = Towards(c)
         /\ IsFiniteGraph(DownTo(c))
BY GraphsAreFinite DEF DownTo, Towards, IsFiniteGraph, IsDirectedGraph

\* A path of the graph that takes its clocks from increasing places of a path of
\* the reference goes down the reference.
LEMMA AdherentGoesDown ==
  ASSUME DiagnosisInv, NEW g \in nodes \cap refNodes, NEW c \in refNodes,
         NEW r, LeadsFrom(Reference, g, r), Last(r) = c,
         NEW p, LeadsFrom(Graph, g, p), Last(p) = c, IsPathAdherent(p, r)
  PROVE  c \in Below(DownTo(c), g)
<1>1. /\ p \in Seq(nodes) /\ Len(p) \in Nat /\ Len(p) > 0 /\ p[1] = g
      /\ \A i \in 1..(Len(p) - 1) : <<p[i], p[i + 1]>> \in Edges
      /\ \A i, j \in 1..Len(p) : p[i] = p[j] => i = j
  BY GraphsAreFinite DEF LeadsFrom, SimplePath, Path
<1>2. r \in Seq(refNodes) /\ Len(r) \in Nat /\ Len(r) > 0 /\ r[Len(r)] = c
  BY GraphsAreFinite DEF LeadsFrom, SimplePath, Path, Last
<1>3. ASSUME NEW i \in 1..Len(r), NEW j \in i..Len(r)
      PROVE  r[i] \in Above(Reference, r[j])
  <2>1. r[j] \in Below(Reference, r[i])
    BY <1>3, GraphsAreFinite, BelowByPaths DEF IsFiniteGraph
  <2>2. r[i] \in refNodes /\ r[j] \in refNodes
    BY <1>2
  <2> QED BY <2>1, <2>2, GraphsAreFinite, AboveIsBelow
<1>4. PICK at \in [1..Len(p) -> 1..Len(r)] :
        /\ \A i \in 1..Len(p) : r[at[i]] = p[i]
        /\ \A i, j \in 1..Len(p) : i < j => at[i] < at[j]
  <2>1. DOMAIN p = 1..Len(p) /\ DOMAIN r = 1..Len(r)
    BY <1>1, <1>2
  <2> QED BY <2>1, Zenon DEF IsPathAdherent
<1>5. ASSUME NEW i \in 1..(Len(p) - 1)
      PROVE  <<p[i], p[i + 1]>> \in Towards(c)
  <2>1. i \in 1..Len(p) /\ i + 1 \in 1..Len(p) /\ i < i + 1
    BY <1>1
  <2>2. at[i] < at[i + 1] /\ at[i] \in 1..Len(r) /\ at[i + 1] \in 1..Len(r)
    BY <1>4, <2>1
  <2>3. at[i + 1] \in at[i]..Len(r) /\ Len(r) \in at[i + 1]..Len(r)
    BY <1>2, <2>2
  <2>4. r[at[i]] \in Above(Reference, r[at[i + 1]])
    BY <1>3, <2>2, <2>3
  <2>5. r[at[i + 1]] \in Above(Reference, r[Len(r)])
    BY <1>3, <2>2, <2>3
  <2> QED BY <1>1, <1>2, <1>4, <2>1, <2>4, <2>5 DEF Towards
<1>6. LeadsFrom(DownTo(c), g, p)
  BY <1>1, <1>5, DownToIsGraph DEF LeadsFrom, SimplePath, Path
<1>7. p[Len(p)] \in Below(DownTo(c), p[1])
  <2>1. 1 \in 1..Len(p) /\ Len(p) \in 1..Len(p)
    BY <1>1
  <2> QED BY <1>6, <2>1, DownToIsGraph, BelowByPaths DEF IsFiniteGraph
<1> QED BY <1>1, <1>7 DEF Last

\* Where no clock has two parents, a path that goes down the reference takes its
\* clocks from increasing places of the path of the reference.
LEMMA GoingDownAdheres ==
  ASSUME DiagnosisInv, OneParent,
         NEW g \in Roots(Reference) \cap nodes, NEW c \in refNodes \cap nodes,
         NEW r, LeadsFrom(Reference, g, r), Last(r) = c,
         NEW p, LeadsFrom(DownTo(c), g, p), Last(p) = c
  PROVE  IsPathAdherent(p, r) /\ LeadsFrom(Graph, g, p)
<1>1. /\ p \in Seq(nodes) /\ Len(p) \in Nat /\ Len(p) > 0 /\ p[1] = g
      /\ \A i \in 1..(Len(p) - 1) : <<p[i], p[i + 1]>> \in Towards(c)
      /\ \A i, j \in 1..Len(p) : p[i] = p[j] => i = j
  BY DownToIsGraph DEF LeadsFrom, SimplePath, Path
<1>2. /\ r \in Seq(refNodes) /\ Len(r) \in Nat /\ Len(r) > 0 /\ r[Len(r)] = c
      /\ r[1] = g
  BY GraphsAreFinite DEF LeadsFrom, SimplePath, Path, Last
<1>3. ASSUME NEW k \in 1..Len(r), NEW x \in Above(Reference, r[k])
      PROVE  \E j \in 1..k : x = r[j]
  <2>1. HasOneParentEach(Reference)
    BY GraphsAreFinite DEF OneParent, HasOneParentEach
  <2>2. IsFiniteGraph(Reference) /\ g \in Roots(Reference)
    BY GraphsAreFinite
  <2> QED BY <1>3, <2>1, <2>2, AboveIsOnPath
<1>4. ASSUME NEW i \in 1..Len(p) PROVE \E n \in 1..Len(r) : r[n] = p[i]
  <2>1. CASE i = 1
    <3>1. 1 \in 1..Len(r)
      BY <1>2
    <3> QED BY <1>1, <1>2, <2>1, <3>1
  <2>2. CASE i # 1
    <3>1. i - 1 \in 1..(Len(p) - 1) /\ i - 1 + 1 = i
      BY <1>1, <2>2
    <3>2. p[i] \in Above(Reference, c)
      BY <1>1, <3>1 DEF Towards
    <3>3. Len(r) \in 1..Len(r)
      BY <1>2
    <3> QED BY <1>2, <1>3, <3>2, <3>3
  <2> QED BY <2>1, <2>2
<1> DEFINE place(i) == CHOOSE n \in 1..Len(r) : r[n] = p[i]
           at == [i \in 1..Len(p) |-> place(i)]
<1>5. \A i \in 1..Len(p) : place(i) \in 1..Len(r) /\ r[place(i)] = p[i]
  BY <1>4
<1> HIDE DEF place
<1>6. /\ at \in [1..Len(p) -> 1..Len(r)] /\ at \in [1..Len(p) -> Nat]
      /\ \A i \in 1..Len(p) : r[at[i]] = p[i]
  BY <1>5
<1> HIDE DEF at
<1>7. ASSUME NEW i \in 1..(Len(p) - 1) PROVE at[i] < at[i + 1]
  <2>1. i \in 1..Len(p) /\ i + 1 \in 1..Len(p) /\ i # i + 1
    BY <1>1
  <2>2. p[i] \in Above(Reference, p[i + 1])
    BY <1>1 DEF Towards
  <2>3. at[i + 1] \in 1..Len(r) /\ r[at[i + 1]] = p[i + 1]
    BY <1>6, <2>1
  <2>4. PICK j \in 1..at[i + 1] : p[i] = r[j]
    BY <1>3, <2>2, <2>3
  <2>5. j \in 1..Len(r) /\ at[i] \in 1..Len(r) /\ r[at[i]] = p[i]
    BY <1>2, <1>6, <2>1, <2>3
  <2>6. at[i] = j
    BY <2>4, <2>5 DEF LeadsFrom, SimplePath
  <2>7. at[i] # at[i + 1]
    BY <1>1, <1>6, <2>1
  <2> QED BY <2>3, <2>4, <2>6, <2>7
<1>8. \A i, j \in 1..Len(p) : i < j => at[i] < at[j]
  BY <1>1, <1>6, <1>7, Increasing
<1>9. IsPathAdherent(p, r)
  <2>1. DOMAIN p = 1..Len(p) /\ DOMAIN r = 1..Len(r)
    BY <1>1, <1>2
  <2>2. p[1] = r[1] /\ Last(p) = Last(r)
    BY <1>1, <1>2
  <2>3. \E f \in [DOMAIN p -> DOMAIN r] :
          /\ \A i \in DOMAIN p : r[f[i]] = p[i]
          /\ \A i, j \in DOMAIN p : i < j => f[i] < f[j]
    BY <1>6, <1>8, <2>1
  <2> QED BY <2>2, <2>3 DEF IsPathAdherent
<1>10. LeadsFrom(Graph, g, p)
  BY <1>1, GraphsAreFinite DEF LeadsFrom, SimplePath, Path, Towards
<1> QED BY <1>9, <1>10

\* After any sequence of updates a clock adheres to the reference exactly if it
\* is synchronised to the grandmaster by links that only go down the reference,
\* whatever else it is synchronised to.
THEOREM AdherentExactlyIfDown == GSpec => []AdherentIfDownTheReference
<1>1. DiagnosisInv => AdherentIfDownTheReference
  <2> SUFFICES ASSUME DiagnosisInv, OneRoot, OneParent, NEW c \in nodes \cap refNodes
               PROVE  AdherenceLevel(c) = Ok <=>
                        \E g \in Roots(Reference) \cap nodes : c \in Below(DownTo(c), g)
    BY Zenon DEF AdherentIfDownTheReference, DownTo, Towards
  <2> DEFINE g == GetGrandmaster
             r == ShortestPath(Reference, g, c)
  <2>1. /\ IsFiniteGraph(Graph) /\ Graph.node = nodes /\ Graph.edge = Edges
        /\ IsFiniteGraph(Reference) /\ Reference.node = refNodes
        /\ \A a \in refNodes : a # NoClock
    BY GraphsAreFinite, UnsetAssumption
  <2> HIDE DEF g
  <2>2. AdherenceLevel(c) =
          IF g = NoClock THEN Raised
          ELSE IF g \notin nodes THEN Error
          ELSE IF c \notin Below(Reference, g) THEN Raised
          ELSE IF c # g /\ AdherentPaths(c) = {} THEN Error ELSE Ok
    <3>1. c \in refNodes
      OBVIOUS
    <3> QED BY <3>1, Zenon DEF AdherenceLevel, Flag, g
  <2>3. Raised # Ok /\ Error # Ok
    BY DEF Raised, Error, Ok
  <2> HIDE DEF r
  <2>4. CASE Roots(Reference) = {}
    <3>1. g = NoClock
      BY <2>4, Grandmaster DEF g
    <3> QED BY <2>2, <2>3, <2>4, <3>1
  <2>5. CASE Roots(Reference) # {}
    <3>1. Roots(Reference) = {g} /\ g \in refNodes /\ g # NoClock
      BY <2>1, <2>5, Grandmaster DEF g
    <3>2. CASE g \notin nodes
      BY <2>2, <2>3, <3>1, <3>2
    <3>3. CASE g \in nodes /\ c \notin Below(Reference, g)
      <4>1. AdherenceLevel(c) # Ok
        BY <2>2, <2>3, <3>1, <3>3
      <4>2. c \notin Below(DownTo(c), g)
        <5> DEFINE T == {x \in nodes : x \in Below(Reference, g)}
        <5>1. g \in T
          BY <2>1, <3>1, <3>3, BelowIsClosure DEF IsFiniteGraph
        <5>2. ASSUME NEW x \in T, NEW y \in nodes, <<x, y>> \in Towards(c)
              PROVE  y \in T
          <6>1. y \in Above(Reference, c) /\ x \in Above(Reference, y)
            BY <5>2 DEF Towards
          <6>2. Above(Reference, c) \subseteq refNodes
            BY <2>1, Transposed, BelowIsClosure DEF Above, Below, IsFiniteGraph
          <6>3. x \in refNodes
            BY <2>1, <3>1, BelowIsClosure DEF IsFiniteGraph
          <6>4. y \in Below(Reference, x)
            BY <2>1, <6>1, <6>2, <6>3, AboveIsBelow
          <6> QED BY <2>1, <3>1, <6>4, BelowTransitive DEF IsFiniteGraph
        <5>3. Below(DownTo(c), g) \subseteq T
          <6> HIDE DEF T
          <6> QED BY <3>3, <5>1, <5>2, DownToIsGraph, BelowIsClosure
                  DEF IsClosed, IsFiniteGraph
        <5> QED BY <3>3, <5>3
      <4> QED BY <3>1, <4>1, <4>2
    <3>4. CASE g \in nodes /\ c \in Below(Reference, g)
      <4>1. AdherenceLevel(c) = Ok <=> c = g \/ AdherentPaths(c) # {}
        BY <2>2, <2>3, <3>1, <3>4
      <4>2. LeadsFrom(Reference, g, r) /\ Last(r) = c
        BY <2>1, <3>1, <3>4, ShortestPathExists DEF IsFiniteGraph, r
      <4>3. AdherentPaths(c)
              = {p \in SimplePaths(Graph, g, c) : IsPathAdherent(p, r)}
        BY Zenon DEF AdherentPaths, g, r
      <4>4. ASSUME NEW p \in AdherentPaths(c) PROVE c \in Below(DownTo(c), g)
        <5>1. /\ LeadsFrom(Graph, g, p) /\ Last(p) = c
              /\ IsPathAdherent(p, r)
          BY <2>1, <3>4, <4>3, SimplePathsAre DEF IsFiniteGraph
        <5> QED BY <3>1, <3>4, <4>2, <5>1, AdherentGoesDown
      <4>5. ASSUME c \in Below(DownTo(c), g) PROVE AdherentPaths(c) # {}
        <5>1. PICK p \in SimplePaths(DownTo(c), g, c) : TRUE
          BY <3>4, <4>5, DownToIsGraph, BelowByPaths DEF IsFiniteGraph
        <5>2. LeadsFrom(DownTo(c), g, p) /\ Last(p) = c
          BY <3>4, <5>1, DownToIsGraph, SimplePathsAre DEF IsFiniteGraph
        <5>3. IsPathAdherent(p, r) /\ LeadsFrom(Graph, g, p)
          BY <3>1, <3>4, <4>2, <5>2, GoingDownAdheres
        <5>4. p \in SimplePaths(Graph, g, c)
          BY <2>1, <3>4, <5>2, <5>3, SimplePathsAre DEF IsFiniteGraph
        <5> QED BY <4>3, <5>3, <5>4
      <4>6. g \in Below(DownTo(c), g)
        BY <3>4, DownToIsGraph, BelowIsClosure DEF IsFiniteGraph
      <4> QED BY <3>1, <3>4, <4>1, <4>4, <4>5, <4>6
    <3> QED BY <3>2, <3>3, <3>4
  <2> QED BY <2>4, <2>5
<1> QED BY <1>1, DiagnosisInvariant, PTL

------------------------------------------------------------------------------
(* What SYNC.DOCTOR shows. *)

\* Of some numbers up to a bound one is the greatest.
LEMMA GreatestNatural ==
  ASSUME NEW N \in Nat, NEW S \in SUBSET (0..N), S # {}
  PROVE  \E n \in S : \A m \in S : m <= n
<1> DEFINE T == {k \in 0..N : N - k \in S}
<1>1. \A m \in S : N - m \in T
  <2> SUFFICES ASSUME NEW m \in S PROVE N - m \in T
    OBVIOUS
  <2>1. m \in 0..N /\ N - m \in 0..N /\ N - (N - m) = m
    OBVIOUS
  <2> QED BY <2>1
<1>2. PICK k \in T : \A j \in T : k <= j
  <2>1. T # {}
    BY <1>1
  <2>2. T \in SUBSET Nat
    OBVIOUS
  <2> HIDE DEF T
  <2> QED BY <2>1, <2>2, LeastNatural
<1>3. ASSUME NEW m \in S PROVE m <= N - k
  <2>1. k <= N - m /\ m \in 0..N /\ k \in 0..N
    BY <1>1, <1>2
  <2> QED BY <2>1
<1> QED BY <1>2, <1>3

\* Each clock of the reference has a generation.
LEMMA Generations ==
  ASSUME DiagnosisInv, NEW c \in refNodes
  PROVE  Generation(c) \in 0..Cardinality(refNodes)
<1> DEFINE N == Cardinality(refNodes)
           P == UNION {SimplePaths(Reference, a, c) : a \in refNodes}
           L == {Len(p) : p \in P}
<1>1. /\ Reference.node = refNodes /\ IsFiniteSet(refNodes) /\ N \in Nat
  BY GraphsAreFinite, FS_CardinalityType DEF IsFiniteGraph
<1>2. \A p \in P : Len(p) \in 0..N
  <2> SUFFICES ASSUME NEW a \in refNodes, NEW p \in SimplePaths(Reference, a, c)
               PROVE  Len(p) \in 0..N
    OBVIOUS
  <2>1. LeadsFrom(Reference, a, p)
    BY <1>1, SimplePathsAre
  <2>2. Len(p) \in 1..N
    BY <1>1, <2>1, PathsAreShort
  <2> QED BY <2>2
<1>3. <<c>> \in P
  BY <1>1, PathOfOne, SimplePathsAre
<1> HIDE DEF N, P
<1>4. \E n \in L : \A m \in L : m <= n
  <2>1. L # {} /\ L \in SUBSET (0..N)
    BY <1>2, <1>3
  <2> HIDE DEF L
  <2> QED BY <1>1, <2>1, GreatestNatural
<1>5. \E n \in L : \A p \in P : Len(p) <= n
  BY <1>4
<1>6. Generation(c) \in L
  BY <1>5, Zenon DEF Generation, P
<1> QED BY <1>2, <1>6 DEF N

\* A rogue clock is placed below a clock of the reference.
LEMMA FurthestIsRelative ==
  ASSUME DiagnosisInv, NEW c, Relatives(c) # {}
  PROVE  FurthestRelative(c) \in Relatives(c) /\ FurthestRelative(c) \in refNodes
<1> DEFINE R == Relatives(c)
           N == Cardinality(refNodes)
           L == {Generation(b) : b \in R}
<1>1. R \subseteq refNodes
  BY DEF Relatives
<1> HIDE DEF R
<1>2. \A b \in R : Generation(b) \in 0..N
  BY <1>1, Generations
<1>3. N \in Nat
  BY GraphsAreFinite, FS_CardinalityType DEF IsFiniteGraph
<1> HIDE DEF N
<1>4. \E n \in L : \A m \in L : m <= n
  <2>1. L # {} /\ L \in SUBSET (0..N)
    BY <1>2 DEF R
  <2> HIDE DEF L
  <2> QED BY <1>3, <2>1, GreatestNatural
<1>5. \E a \in R : \A b \in R : Generation(b) <= Generation(a)
  BY <1>4
<1>6. FurthestRelative(c) \in R
  BY <1>5, Zenon DEF FurthestRelative, R
<1> QED BY <1>1, <1>6 DEF R

\* The layout of a reference that is one tree is one tree.
LEMMA LayoutIsTree ==
  ASSUME DiagnosisInv, IsOneTree(clockTree), NoClockTwice
  PROVE  /\ IsTree(Reference) /\ refNodes # {}
         /\ IsTree(Layout) /\ Layout.node = refNodes \cup PlacedRogues
<1> DEFINE r == GetGrandmaster
<1>1. /\ IsFiniteGraph(Reference) /\ IsFiniteSet(refNodes)
      /\ Reference.node = refNodes /\ Reference.edge = refLinks
      /\ IsFiniteSet(nodes)
      /\ refLinks \subseteq refNodes \X refNodes
  BY GraphsAreFinite DEF IsFiniteGraph, IsDirectedGraph
<1>2. /\ Roots(Reference) = {r} /\ r \in refNodes
      /\ Below(Reference, r) = refNodes
      /\ \A e, f \in refLinks : e[2] = f[2] => e = f
  BY ReferenceIsTree
<1> HIDE DEF r
<1>3. \A e \in refLinks : e[2] # r
  BY <1>1, <1>2 DEF Roots, Predecessors
<1>4. IsTree(Reference)
  BY <1>1, <1>2, <1>3, TreeFromRoot
<1> DEFINE place(c) == FurthestRelative(c)
<1>5. /\ PlacedRogues \subseteq nodes /\ PlacedRogues \cap refNodes = {}
      /\ \A c \in PlacedRogues : place(c) \in refNodes
  BY FurthestIsRelative DEF PlacedRogues
<1>6. /\ Layout.node = refNodes \cup PlacedRogues
      /\ Layout.edge = refLinks \cup {<<place(c), c>> : c \in PlacedRogues}
      /\ Layout = [node |-> Layout.node, edge |-> Layout.edge]
  BY DEF Layout
<1> HIDE DEF place
<1>7. IsFiniteGraph(Layout)
  <2>1. IsFiniteSet(Layout.node)
    <3>1. IsFiniteSet(PlacedRogues)
      BY <1>1, <1>5, FS_Subset
    <3>2. IsFiniteSet(refNodes \cup PlacedRogues)
      BY <1>1, <3>1, FS_Union
    <3> QED BY <1>6, <3>2
  <2>2. Layout.edge \subseteq Layout.node \X Layout.node
    BY <1>1, <1>5, <1>6
  <2> QED BY <1>6, <2>1, <2>2 DEF IsFiniteGraph, IsDirectedGraph
<1>8. Below(Layout, r) = Layout.node
  <2>1. /\ r \in Below(Layout, r) /\ Below(Layout, r) \subseteq Layout.node
        /\ \A x \in Below(Layout, r) : \A y \in Layout.node :
             <<x, y>> \in Layout.edge => y \in Below(Layout, r)
    BY <1>2, <1>6, <1>7, BelowIsClosure DEF IsFiniteGraph
  <2>2. refNodes \subseteq Below(Layout, r)
    <3>1. IsClosed(Reference, Below(Layout, r))
      BY <1>1, <1>6, <2>1 DEF IsClosed
    <3> QED BY <1>1, <1>2, <2>1, <3>1, BelowIsClosure
  <2>3. PlacedRogues \subseteq Below(Layout, r)
    BY <1>5, <1>6, <2>1, <2>2
  <2> QED BY <1>6, <2>1, <2>2, <2>3
<1>9. \A e \in Layout.edge : e[2] # r
  BY <1>2, <1>3, <1>5, <1>6
<1>10. ASSUME NEW e \in Layout.edge, NEW f \in Layout.edge, e[2] = f[2]
       PROVE  e = f
  <2>1. CASE e \in refLinks /\ f \in refLinks
    BY <1>2, <1>10, <2>1
  <2>2. CASE e \notin refLinks /\ f \notin refLinks
    BY <1>6, <1>10, <2>2
  <2>3. \A g \in Layout.edge : g \in refLinks <=> g[2] \in refNodes
    BY <1>1, <1>5, <1>6
  <2> QED BY <1>10, <2>1, <2>2, <2>3
<1>11. IsTree(Layout)
  <2>1. r \in Layout.node
    BY <1>2, <1>6
  <2> QED BY <1>7, <1>8, <1>9, <1>10, <2>1, TreeFromRoot
<1> QED BY <1>2, <1>4, <1>6, <1>11

\* After any sequence of updates, for a configuration that is one tree of
\* different clocks, showing the graph raises nothing, every clock and link is
\* shown, and the layout is one tree, whatever rogue clocks the graph has.
THEOREM DoctorAlwaysShowsAll == GSpec => []DoctorShowsAll
<1>1. DiagnosisInv => DoctorShowsAll
  <2> SUFFICES ASSUME DiagnosisInv, IsOneTree(clockTree), NoClockTwice, KeysAreKinds
               PROVE  /\ ~ DoctorRaises
                      /\ ShownClocks = nodes \cup refNodes
                      /\ IsTree(Layout)
    BY DEF DoctorShowsAll
  <2>1. ~ PositionsRaise
    <3>1. \A c : Relatives(c) \subseteq refNodes
      BY DEF Relatives
    <3> QED BY <3>1, LayoutIsTree DEF PositionsRaise
  <2>2. \A c : ~ ClockRaises(c)
    BY ClockNeverRaises DEF ClockRaises, Ok, Error, Raised
  <2>3. \A e : ~ LinkRaises(e)
    <3>1. \A l \in links : LinkLevel(l) # Raised
      BY LinkLevels DEF KeysAreKinds, Ok, Error, Raised
    <3> QED BY <3>1 DEF LinkRaises
  <2>4. ShownClocks = nodes \cup refNodes
    <3>1. PlacedRogues \subseteq nodes
      BY DEF PlacedRogues
    <3>2. \A c \in Layout.node : Canon(c) = c
      BY <3>1, LayoutIsTree, GraphsAreFinite
    <3>3. ShownClocks = Layout.node \cup nodes
      BY <3>2 DEF ShownClocks
    <3> QED BY <3>1, <3>3, LayoutIsTree
  <2>5. ~ DoctorRaises
    BY <2>1, <2>2, <2>3 DEF DoctorRaises
  <2> QED BY <2>4, <2>5, LayoutIsTree
<1> QED BY <1>1, DiagnosisInvariant, PTL
==============================================================================
