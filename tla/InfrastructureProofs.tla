------------------------- MODULE InfrastructureProofs -------------------------
(***************************************************************************)
(* Theorems about what the parts of the system are built on: the plugins,  *)
(* the decorators of calls, the registry of visualizers, and the           *)
(* connection pool, the database manager and the health checker of the     *)
(* persistence layer; for any plugins, files, versions, callers, users,    *)
(* operators, clients and bounds.                                          *)
(***************************************************************************)
EXTENDS MCPlugins, HealthChecker, ConnectionPool, DatabaseManager, RecursionTheorems,
        SequenceTheorems

-----------------------------------------------------------------------------
(* The plugin manager: the order of loading *)

-----------------------------------------------------------------------------
(* The order of loading *)

\* What is left of a visit when the dependencies were visited by g, and what becomes of it.
Below(names, deps, v, g) ==
    FoldSet(LAMBDA d, acc : g[[name |-> d, above |-> v.above \cup {v.name}, state |-> acc]],
            v.state, deps[v.name] \cap names)

Visited(names, deps, v, g) ==
    IF v.name \in v.above THEN [v.state EXCEPT !.cyclic = TRUE]
    ELSE IF v.state.cyclic \/ v.name \in ToSet(v.state.order) THEN v.state
    ELSE LET s == Below(names, deps, v, g)
         IN IF s.cyclic THEN s ELSE [s EXCEPT !.order = Append(@, v.name)]

Pick(s) == CHOOSE x \in s : TRUE

\* f is the fold over the sets of dependencies.
FoldsBelow(f, T, v, g) ==
    \A s \in SUBSET T :
        f[s] = IF s = {} THEN v.state
               ELSE g[[name |-> Pick(s), above |-> v.above \cup {v.name}, state |-> f[s \ {Pick(s)}]]]

BelowIs(f, names, deps, v, g) ==
    LET T == deps[v.name] \cap names
    IN  f \in [SUBSET T -> Orders(names)] /\ FoldsBelow(f, T, v, g) /\ Below(names, deps, v, g) = f[T]

\* The visits of dependencies give orders.
OrdersBelow(names, v, g) ==
    \A w \in Visits(names) : w.above = v.above \cup {v.name} => g[w] \in Orders(names)

\* What is below a visit is the fold over the dependencies.
LEMMA BelowFolds ==
  ASSUME NEW names, IsFiniteSet(names), NEW deps, NEW v \in Visits(names), NEW g, OrdersBelow(names, v, g)
  PROVE  \E f : BelowIs(f, names, deps, v, g)
  <1> DEFINE T == deps[v.name] \cap names
             R == Orders(names)
             At(d, acc) == [name |-> d, above |-> v.above \cup {v.name}, state |-> acc]
             step == [y \in T \X R |-> g[At(y[1], y[2])]]
             pick == [s \in SUBSET T |-> Pick(s)]
  <1>1. v.name \in names /\ v.above \in SUBSET names /\ v.state \in R
    BY DEF Visits
  <1>2. \A d \in T, acc \in R : At(d, acc) \in Visits(names)
    BY <1>1 DEF Visits
  <1>3. step \in [T \X R -> R]
    <2>1. \A d \in T, acc \in R : At(d, acc).above = v.above \cup {v.name}
      OBVIOUS
    <2> HIDE DEF At
    <2> QED
      BY <1>2, <2>1 DEF OrdersBelow
  <1>4. IsFiniteSet(T)
    BY FS_Subset
  <1>5. Picks(pick, T)
    BY DEF Pick, Picks
  <1>6. \A s \in SUBSET T : pick[s] = Pick(s)
    OBVIOUS
  <1>7. \A d \in T, acc \in R : step[<<d, acc>>] = g[At(d, acc)]
    OBVIOUS
  <1>8. PICK f \in [SUBSET T -> R] : Folded(f, T, v.state, step, pick)
    <2> HIDE DEF T, R, step, pick
    <2> QED
      BY <1>1, <1>3, <1>4, <1>5, FoldSolution
  <1>9. ASSUME NEW s \in SUBSET T PROVE f[s] = IF s = {} THEN v.state ELSE g[At(Pick(s), f[s \ {Pick(s)}])]
    <2>1. s # {} => Pick(s) \in T /\ s \ {Pick(s)} \in SUBSET T /\ f[s \ {Pick(s)}] \in R
      BY <1>5, <1>6 DEF Picks
    <2> HIDE DEF step, pick, At, T, R
    <2> QED
      BY <1>6, <1>7, <1>8, <2>1, ZenonT(40) DEF Folded
  <1> DEFINE Fold(it) == [s \in SUBSET T |-> IF s = {} THEN v.state ELSE g[At(Pick(s), it[s \ {Pick(s)}])]]
             it == CHOOSE it : it = Fold(it)
  <1>10. f = Fold(f)
    BY <1>9
  <1>11. it = Fold(it)
    <2> HIDE DEF Fold
    <2> QED
      BY <1>10
  <1>12. Below(names, deps, v, g) = it[T]
    BY DEF Below, FoldSet, MapThenFoldSet, Pick
  <1>13. it[T] = f[T]
    <2>1. ASSUME NEW s \in SUBSET T, s # {} => it[s \ {pick[s]}] = f[s \ {pick[s]}] PROVE it[s] = f[s]
      <3>1. it[s] = IF s = {} THEN v.state ELSE g[At(Pick(s), it[s \ {Pick(s)}])]
        <4> HIDE DEF it, At
        <4> QED
          BY <1>11
      <3> HIDE DEF it, At
      <3> QED
        BY <1>6, <1>9, <2>1, <3>1
    <2> HIDE DEF it, pick
    <2>2. SameFold(it, f, T, pick)
      BY <2>1 DEF SameFold
    <2> QED
      BY <1>4, <1>5, <2>2, FoldsAgree
  <1>14. FoldsBelow(f, T, v, g)
    BY <1>9 DEF FoldsBelow
  <1> QED
    <2> HIDE DEF it
    <2> QED
      BY <1>12, <1>13, <1>14 DEF BelowIs

\* A visit gives an order.
LEMMA VisitedIsOrder ==
  ASSUME NEW names, IsFiniteSet(names), NEW deps, NEW v \in Visits(names),
         NEW g, OrdersBelow(names, v, g)
  PROVE  Visited(names, deps, v, g) \in Orders(names)
  <1>1. v.name \in names /\ v.state \in Orders(names)
    BY DEF Visits
  <1>2. Below(names, deps, v, g) \in Orders(names)
    <2>1. PICK f : BelowIs(f, names, deps, v, g)
      BY BelowFolds
    <2> QED
      BY <2>1 DEF BelowIs
  <1>3. ASSUME NEW s \in Orders(names) PROVE [s EXCEPT !.order = Append(@, v.name)] \in Orders(names)
    <2>1. s.order \in Seq(names) /\ Append(s.order, v.name) \in Seq(names)
      BY <1>1 DEF Orders
    <2> QED
      BY <2>1 DEF Orders
  <1>4. \A s \in Orders(names) : [s EXCEPT !.cyclic = TRUE] \in Orders(names)
    BY DEF Orders
  <1> QED
    BY <1>1, <1>2, <1>3, <1>4 DEF Visited

\* A visit looks only at visits below one name more.
LEMMA VisitedLooksBelow ==
  ASSUME NEW names, IsFiniteSet(names), NEW deps, NEW v \in Visits(names),
         NEW g, OrdersBelow(names, v, g), NEW h,
         \A w \in Visits(names) : w.above = v.above \cup {v.name} => g[w] = h[w]
  PROVE  Below(names, deps, v, g) = Below(names, deps, v, h)
  <1> DEFINE T == deps[v.name] \cap names
             R == Orders(names)
             At(d, acc) == [name |-> d, above |-> v.above \cup {v.name}, state |-> acc]
  <1>a. PICK f : BelowIs(f, names, deps, v, g)
    BY BelowFolds
  <1>b. OrdersBelow(names, v, h)
    BY DEF OrdersBelow
  <1>c. PICK e : BelowIs(e, names, deps, v, h)
    BY <1>b, BelowFolds
  <1>1. f \in [SUBSET T -> R] /\ FoldsBelow(f, T, v, g) /\ Below(names, deps, v, g) = f[T]
    BY <1>a DEF BelowIs
  <1>2. e \in [SUBSET T -> R] /\ FoldsBelow(e, T, v, h) /\ Below(names, deps, v, h) = e[T]
    BY <1>c DEF BelowIs
  <1>3. \A d \in T, acc \in R : At(d, acc) \in Visits(names) /\ At(d, acc).above = v.above \cup {v.name}
    BY DEF Visits
  <1>4. \A d \in T, acc \in R : g[At(d, acc)] = h[At(d, acc)]
    BY <1>3
  <1> DEFINE pick == [s \in SUBSET T |-> Pick(s)]
  <1>p. Picks(pick, T)
    BY DEF Pick, Picks
  <1>5. ASSUME NEW s \in SUBSET T, s # {} => e[s \ {pick[s]}] = f[s \ {pick[s]}] PROVE e[s] = f[s]
    <2>1. s # {} => Pick(s) \in T /\ s \ {Pick(s)} \in SUBSET T /\ pick[s] = Pick(s)
      BY <1>p DEF Picks
    <2>2. s # {} => f[s \ {Pick(s)}] \in R
      BY <1>1, <2>1
    <2>3. /\ f[s] = IF s = {} THEN v.state ELSE g[At(Pick(s), f[s \ {Pick(s)}])]
          /\ e[s] = IF s = {} THEN v.state ELSE h[At(Pick(s), e[s \ {Pick(s)}])]
      BY <1>1, <1>2 DEF FoldsBelow
    <2> HIDE DEF At, T, R, pick
    <2> QED
      BY <1>4, <1>5, <2>1, <2>2, <2>3
  <1>6. IsFiniteSet(T)
    BY FS_Subset
  <1>7. e[T] = f[T]
    <2> HIDE DEF T, pick
    <2>1. SameFold(e, f, T, pick)
      BY <1>5 DEF SameFold
    <2> QED
      BY <1>p, <1>6, <2>1, FoldsAgree
  <1> QED
    BY <1>1, <1>2, <1>7

\* A visit below another one has more names above it.
LEMMA BelowIsLess ==
  ASSUME NEW names, IsFiniteSet(names), NEW v \in Visits(names), v.name \notin v.above,
         NEW w \in Visits(names), w.above = v.above \cup {v.name}
  PROVE  Cardinality(names \ w.above) < Cardinality(names \ v.above)
  <1> DEFINE S == names \ v.above
  <1>1. names \ w.above = S \ {v.name} /\ v.name \in S
    BY DEF Visits
  <1>2. IsFiniteSet(S)
    BY FS_Subset
  <1> HIDE DEF S
  <1>3. Cardinality(S \ {v.name}) = Cardinality(S) - 1 /\ Cardinality(S) \in Nat
    BY <1>1, <1>2, FS_RemoveElement, FS_CardinalityType
  <1>4. Cardinality(names \ w.above) = Cardinality(S \ {v.name})
    BY <1>1, Zenon
  <1> QED
    BY <1>3, <1>4 DEF S

\* The depth-first search is what its recursive definition says.
LEMMA VisitSolved ==
  ASSUME NEW names, IsFiniteSet(names), NEW deps
  PROVE  /\ Visit(names, deps) \in [Visits(names) -> Orders(names)]
         /\ \A v \in Visits(names) : Visit(names, deps)[v] = Visited(names, deps, v, Visit(names, deps))
  <1> DEFINE D == Visits(names)
             R == Orders(names)
             measure == [v \in D |-> Cardinality(names \ v.above)]
             step == [y \in D \X [D -> R] |-> Visited(names, deps, y[1], y[2])]
  <1>1. measure \in [D -> Nat]
    BY FS_Subset, FS_CardinalityType
  <1>2. step \in [D \X [D -> R] -> R]
    <2>1. \A v \in D, g \in [D -> R] : OrdersBelow(names, v, g)
      BY DEF OrdersBelow
    <2> QED
      BY <2>1, VisitedIsOrder
  <1>3. \A v \in D, g \in [D -> R] : step[<<v, g>>] = Visited(names, deps, v, g)
    OBVIOUS
  <1>4. ASSUME NEW v \in D, NEW g \in [D -> R], NEW h \in [D -> R],
               \A w \in D : measure[w] < measure[v] => g[w] = h[w]
        PROVE  step[<<v, g>>] = step[<<v, h>>]
    <2>1. CASE v.name \in v.above
      BY <1>3, <2>1 DEF Visited
    <2>2. CASE v.name \notin v.above
      <3>1. v.name \in names /\ v.above \in SUBSET names
        BY DEF Visits
      <3>2. ASSUME NEW w \in D, w.above = v.above \cup {v.name} PROVE g[w] = h[w]
        <4>1. measure[w] < measure[v]
          BY <2>2, <3>2, BelowIsLess
        <4> QED
          BY <1>4, <4>1
      <3>3. OrdersBelow(names, v, g)
        BY DEF OrdersBelow
      <3>4. Below(names, deps, v, g) = Below(names, deps, v, h)
        BY <3>2, <3>3, VisitedLooksBelow
      <3> QED
        BY <1>3, <3>4 DEF Visited
    <2> QED
      BY <2>1, <2>2
  <1>5. LooksBelow(D, R, measure, step)
    <2> HIDE DEF D, R, measure, step
    <2> QED
      BY <1>4 DEF LooksBelow
  <1>6. [order |-> <<>>, cyclic |-> FALSE] \in R
    BY DEF Orders
  <1>7. PICK f \in [D -> R] : Solves(f, D, step)
    <2> HIDE DEF D, R, measure, step
    <2> QED
      BY <1>1, <1>2, <1>5, <1>6, Recursion
  <1> DEFINE Whole(visit) == [v \in D |-> Visited(names, deps, v, visit)]
             visit == CHOOSE visit : visit = Whole(visit)
  <1>8. f = Whole(f)
    <2>1. \A v \in D : f[v] = step[<<v, f>>]
      BY <1>7 DEF Solves
    <2> HIDE DEF D, R, step
    <2> QED
      BY <1>3, <2>1
  <1>9. visit = Whole(visit)
    <2> HIDE DEF Whole
    <2> QED
      BY <1>8
  <1>10. Visit(names, deps) = visit
    BY DEF Visit, Visited, Below
  <1> HIDE DEF visit
  <1>11. \A v \in D : visit[v] = Visited(names, deps, v, visit)
    BY <1>9
  \* The values are orders, also of the solution that is chosen.
  <1>12. \A v \in D : visit[v] = f[v]
    <2> DEFINE P == {k \in Nat : \A v \in D : measure[v] < k => visit[v] = f[v]}
    <2>1. 0 \in P
      BY <1>1
    <2>2. ASSUME NEW k \in Nat, k \in P PROVE k + 1 \in P
      <3> SUFFICES ASSUME NEW v \in D, measure[v] < k + 1 PROVE visit[v] = f[v]
        OBVIOUS
      <3>1. visit[v] = Visited(names, deps, v, visit) /\ f[v] = Visited(names, deps, v, f)
        <4> HIDE DEF D, R
        <4> QED
          BY <1>8, <1>11
      <3>2. CASE v.name \in v.above
        BY <3>1, <3>2 DEF Visited
      <3>3. CASE v.name \notin v.above
        <4>1. ASSUME NEW w \in D, w.above = v.above \cup {v.name} PROVE f[w] = visit[w]
          <5>1. measure[w] < measure[v] /\ measure[w] \in Nat /\ measure[v] \in Nat
            BY <1>1, <3>3, <4>1, BelowIsLess
          <5>2. measure[w] < k
            BY <5>1
          <5> QED
            BY <2>2, <5>2
        <4>2. OrdersBelow(names, v, f)
          BY DEF OrdersBelow
        <4>3. Below(names, deps, v, f) = Below(names, deps, v, visit)
          BY <4>1, <4>2, VisitedLooksBelow
        <4> QED
          BY <3>1, <4>3 DEF Visited
      <3> QED
        BY <3>2, <3>3
    <2> HIDE DEF P
    <2>3. Nat \subseteq P
      BY <2>1, <2>2, NatHolds
    <2>4. \A v \in D : measure[v] + 1 \in Nat /\ measure[v] < measure[v] + 1
      BY <1>1
    <2> QED
      BY <2>3, <2>4 DEF P
  <1> QED
    BY <1>9, <1>10, <1>11, <1>12

\* An order of some of the names: each once, after what it depends on.
Ordered(order, names, deps) ==
    /\ order \in Seq(names)
    /\ \A i, j \in DOMAIN order : order[i] = order[j] => i = j
    /\ \A i \in DOMAIN order : \A d \in deps[order[i]] \cap names :
          \E j \in DOMAIN order : j < i /\ order[j] = d

\* A name whose dependencies are there may come next.
LEMMA AppendOrdered ==
  ASSUME NEW names, NEW deps, NEW order, Ordered(order, names, deps), NEW n \in names,
         n \notin ToSet(order), deps[n] \cap names \subseteq ToSet(order)
  PROVE  Ordered(Append(order, n), names, deps) /\ ToSet(Append(order, n)) = ToSet(order) \cup {n}
  <1> DEFINE new == Append(order, n)
             k == Len(order) + 1
  <1>1. order \in Seq(names) /\ Len(order) \in Nat /\ DOMAIN order = 1 .. Len(order)
    BY DEF Ordered
  <1>2. /\ new \in Seq(names) /\ Len(new) = k /\ new[k] = n
        /\ \A i \in 1 .. Len(order) : new[i] = order[i]
    BY <1>1, AppendProperties
  <1> HIDE DEF new
  <1>3. DOMAIN new = DOMAIN order \cup {k} /\ k \notin DOMAIN order /\ \A i \in DOMAIN order : i < k
    BY <1>1, <1>2
  <1>4. ToSet(new) = ToSet(order) \cup {n}
    BY <1>1, <1>2, <1>3 DEF ToSet
  <1>5. \A i \in DOMAIN order : order[i] # n
    BY DEF ToSet
  <1>6. ASSUME NEW i \in DOMAIN new, NEW j \in DOMAIN new, new[i] = new[j] PROVE i = j
    BY <1>1, <1>2, <1>3, <1>5, <1>6 DEF Ordered
  <1>7. ASSUME NEW i \in DOMAIN new, NEW d \in deps[new[i]] \cap names
        PROVE  \E j \in DOMAIN new : j < i /\ new[j] = d
    <2>1. CASE i = k
      <3>1. d \in ToSet(order)
        BY <1>2, <1>7, <2>1
      <3>2. PICK j \in DOMAIN order : order[j] = d
        BY <3>1 DEF ToSet
      <3> QED
        BY <1>1, <1>2, <1>3, <2>1, <3>2
    <2>2. CASE i # k
      <3>1. i \in DOMAIN order /\ new[i] = order[i]
        BY <1>1, <1>2, <1>3, <2>2
      <3>2. PICK j \in DOMAIN order : j < i /\ order[j] = d
        BY <1>7, <3>1 DEF Ordered
      <3> QED
        BY <1>1, <1>2, <1>3, <3>2
    <2> QED
      BY <2>1, <2>2
  <1>8. Ordered(new, names, deps)
    BY <1>2, <1>6, <1>7 DEF Ordered
  <1> QED
    BY <1>4, <1>8 DEF new

\* What visits of the names U, below those of above, make of s: unless a cycle is met, they are all
\* put down in order, and nobody above them is.
Extends(r, s, U, above, names, deps) ==
    ~r.cyclic => /\ ~s.cyclic
                 /\ Ordered(s.order, names, deps) =>
                      /\ Ordered(r.order, names, deps)
                      /\ ToSet(s.order) \cup U \subseteq ToSet(r.order)
                      /\ ToSet(r.order) \cap above \subseteq ToSet(s.order)

\* No visit meets a cycle if everybody ranks below whoever depends on it.
Ranks(rank, names, deps) ==
    /\ rank \in [names -> Nat]
    /\ \A x \in names : \A d \in deps[x] \cap names : rank[d] < rank[x]

Succeeds(r, s, U, above, rank) ==
    ~s.cyclic /\ (\A x \in U, a \in above : rank[x] < rank[a]) => ~r.cyclic

VisitRight(r, v, names, deps) ==
    /\ Extends(r, v.state, {v.name}, v.above, names, deps)
    /\ \A rank : Ranks(rank, names, deps) => Succeeds(r, v.state, {v.name}, v.above, rank)

\* A visit is right if those below it are.
LEMMA VisitedRight ==
  ASSUME NEW names, IsFiniteSet(names), NEW deps, NEW v \in Visits(names), NEW g, OrdersBelow(names, v, g),
         v.name \notin v.above,
         \A w \in Visits(names) : w.above = v.above \cup {v.name} => VisitRight(g[w], w, names, deps)
  PROVE  VisitRight(Visited(names, deps, v, g), v, names, deps)
  <1> DEFINE T == deps[v.name] \cap names
             R == Orders(names)
             above == v.above \cup {v.name}
             At(d, acc) == [name |-> d, above |-> above, state |-> acc]
             s == v.state
             q == Below(names, deps, v, g)
  <1>1. v.name \in names /\ s \in R
    BY DEF Visits
  <1>2. PICK f : BelowIs(f, names, deps, v, g)
    BY BelowFolds
  <1>3. f \in [SUBSET T -> R] /\ FoldsBelow(f, T, v, g) /\ q = f[T]
    BY <1>2 DEF BelowIs
  <1>4. IsFiniteSet(T)
    BY FS_Subset
  <1>5. \A d \in T, acc \in R : At(d, acc) \in Visits(names)
    BY DEF Visits
  \* Visiting one more dependency.
  <1>6. ASSUME NEW U \in SUBSET T, U # {}
        PROVE  /\ Pick(U) \in U
               /\ f[U \ {Pick(U)}] \in R
               /\ f[U] = g[At(Pick(U), f[U \ {Pick(U)}])]
               /\ VisitRight(f[U], At(Pick(U), f[U \ {Pick(U)}]), names, deps)
    <2>1. Pick(U) \in U
      BY <1>6 DEF Pick
    <2>2. f[U \ {Pick(U)}] \in R
      BY <1>3, <2>1
    <2>3. f[U] = g[At(Pick(U), f[U \ {Pick(U)}])]
      BY <1>3, <1>6 DEF FoldsBelow
    <2>4. At(Pick(U), f[U \ {Pick(U)}]) \in Visits(names)
      BY <1>5, <2>1, <2>2
    <2>5. At(Pick(U), f[U \ {Pick(U)}]).above = above
      OBVIOUS
    <2> HIDE DEF At
    <2> QED
      BY <2>1, <2>2, <2>3, <2>4, <2>5
  <1> DEFINE P == {U \in SUBSET T : Extends(f[U], s, U, above, names, deps)}
  <1>7. ASSUME NEW U \in SUBSET T, \A x \in U : U \ {x} \in P PROVE U \in P
    <2>1. CASE U = {}
      <3>1. f[U] = s
        BY <1>3, <2>1 DEF FoldsBelow
      <3>2. Extends(s, s, {}, above, names, deps)
        BY DEF Extends
      <3> QED
        BY <2>1, <3>1, <3>2
    <2>2. CASE U # {}
      <3> DEFINE d == Pick(U)
                 p == f[U \ {d}]
                 w == At(d, p)
      <3>1. d \in U /\ VisitRight(f[U], w, names, deps)
        BY <1>6, <2>2
      <3>2. w.name = d /\ w.above = above /\ w.state = p
        OBVIOUS
      <3>3. Extends(p, s, U \ {d}, above, names, deps)
        BY <1>7, <3>1
      <3> HIDE DEF d, p, w
      <3>4. Extends(f[U], p, {d}, above, names, deps)
        BY <3>1, <3>2 DEF VisitRight
      <3>5. Extends(f[U], s, U, above, names, deps)
        BY <3>1, <3>3, <3>4 DEF Extends
      <3> QED
        BY <3>5
    <2> QED
      BY <2>1, <2>2
  <1>8. Extends(q, s, T, above, names, deps)
    <2> HIDE DEF P
    <2>1. Inductive(P, T)
      BY <1>7 DEF Inductive
    <2>2. T \in P
      BY <1>4, <2>1, SubsetsHold
    <2> QED
      BY <1>3, <2>2 DEF P
  <1>9. ASSUME NEW rank, Ranks(rank, names, deps), ~s.cyclic, \A a \in v.above : rank[v.name] < rank[a]
        PROVE  ~q.cyclic
    <2> DEFINE Q == {U \in SUBSET T : ~f[U].cyclic}
    <2>0. \A d \in T, a \in above : rank[d] < rank[a]
      <3>1. \A x \in names : rank[x] \in Nat
        BY <1>9 DEF Ranks
      <3>2. \A d \in T : rank[d] < rank[v.name]
        BY <1>1, <1>9 DEF Ranks
      <3>3. v.above \in SUBSET names
        BY DEF Visits
      <3> QED
        BY <1>1, <1>9, <3>1, <3>2, <3>3
    <2>1. ASSUME NEW U \in SUBSET T, \A x \in U : U \ {x} \in Q PROVE U \in Q
      <3>1. CASE U = {}
        BY <1>3, <1>9, <3>1 DEF FoldsBelow
      <3>2. CASE U # {}
        <4> DEFINE d == Pick(U)
                   p == f[U \ {d}]
                   w == At(d, p)
        <4>1. d \in U /\ d \in T /\ VisitRight(f[U], w, names, deps)
          BY <1>6, <3>2
        <4>2. w.name = d /\ w.above = above /\ w.state = p
          OBVIOUS
        <4>3. ~p.cyclic
          BY <2>1, <4>1
        <4> HIDE DEF d, p, w, T, above
        <4>4. Succeeds(f[U], p, {d}, above, rank)
          BY <1>9, <4>1, <4>2 DEF VisitRight
        <4>5. ~f[U].cyclic
          BY <2>0, <4>1, <4>3, <4>4 DEF Succeeds
        <4> QED
          BY <4>5
      <3> QED
        BY <3>1, <3>2
    <2> HIDE DEF Q
    <2>2. Inductive(Q, T)
      BY <2>1 DEF Inductive
    <2>3. T \in Q
      BY <1>4, <2>2, SubsetsHold
    <2> QED
      BY <1>3, <2>3 DEF Q
  <1> DEFINE r == Visited(names, deps, v, g)
  <1>10. Extends(r, s, {v.name}, v.above, names, deps)
    <2>1. CASE s.cyclic \/ v.name \in ToSet(s.order)
      <3>1. r = s
        BY <2>1 DEF Visited
      <3> HIDE DEF r
      <3> QED
        BY <2>1, <3>1 DEF Extends
    <2>2. CASE ~s.cyclic /\ v.name \notin ToSet(s.order) /\ q.cyclic
      <3>1. r = q
        BY <2>2 DEF Visited
      <3> HIDE DEF r, q
      <3> QED
        BY <2>2, <3>1 DEF Extends
    <2>3. CASE ~s.cyclic /\ v.name \notin ToSet(s.order) /\ ~q.cyclic
      <3>1. r = [q EXCEPT !.order = Append(@, v.name)]
        BY <2>3 DEF Visited
      <3>2. q \in R
        BY <1>3
      <3>3. r.order = Append(q.order, v.name)
        BY <3>1, <3>2 DEF Orders
      <3> HIDE DEF r, q
      <3> SUFFICES ASSUME Ordered(s.order, names, deps)
                   PROVE  /\ Ordered(r.order, names, deps)
                          /\ ToSet(s.order) \cup {v.name} \subseteq ToSet(r.order)
                          /\ ToSet(r.order) \cap v.above \subseteq ToSet(s.order)
        BY <2>3 DEF Extends
      <3>4. /\ Ordered(q.order, names, deps)
            /\ ToSet(s.order) \cup T \subseteq ToSet(q.order)
            /\ ToSet(q.order) \cap above \subseteq ToSet(s.order)
        BY <1>8, <2>3 DEF Extends
      <3>5. v.name \notin ToSet(q.order)
        BY <2>3, <3>4
      <3>6. Ordered(r.order, names, deps) /\ ToSet(r.order) = ToSet(q.order) \cup {v.name}
        BY <1>1, <3>3, <3>4, <3>5, AppendOrdered
      <3> QED
        BY <3>4, <3>6
    <2> QED
      BY <2>1, <2>2, <2>3
  <1>11. ASSUME NEW rank, Ranks(rank, names, deps) PROVE Succeeds(r, s, {v.name}, v.above, rank)
    <2> SUFFICES ASSUME ~s.cyclic, \A a \in v.above : rank[v.name] < rank[a] PROVE ~r.cyclic
      BY DEF Succeeds
    <2>1. ~q.cyclic /\ q \in R
      BY <1>3, <1>9, <1>11
    <2>2. r = s \/ r = q \/ r = [q EXCEPT !.order = Append(@, v.name)]
      BY DEF Visited
    <2> HIDE DEF r, q
    <2> QED
      BY <2>1, <2>2 DEF Orders
  <1> QED
    <2> HIDE DEF r
    <2>1. VisitRight(r, v, names, deps)
      BY <1>10, <1>11 DEF VisitRight
    <2> QED
      BY <2>1 DEF r

\* Every visit is right.
LEMMA VisitsAreRight ==
  ASSUME NEW names, IsFiniteSet(names), NEW deps
  PROVE  \A v \in Visits(names) : VisitRight(Visit(names, deps)[v], v, names, deps)
  <1> DEFINE D == Visits(names)
             g == Visit(names, deps)
             measure(v) == Cardinality(names \ v.above)
             P == {k \in Nat : \A v \in D : measure(v) < k => VisitRight(g[v], v, names, deps)}
  <1>1. g \in [D -> Orders(names)] /\ \A v \in D : g[v] = Visited(names, deps, v, g)
    BY VisitSolved
  <1>2. \A v \in D : measure(v) \in Nat
    BY FS_Subset, FS_CardinalityType
  <1> HIDE DEF g
  <1>3. 0 \in P
    BY <1>2
  <1>4. ASSUME NEW k \in Nat, k \in P PROVE k + 1 \in P
    <2> SUFFICES ASSUME NEW v \in D, measure(v) < k + 1 PROVE VisitRight(g[v], v, names, deps)
      OBVIOUS
    <2>1. CASE v.name \in v.above
      <3>1. g[v].cyclic
        <4>1. g[v] = [v.state EXCEPT !.cyclic = TRUE] /\ v.state \in Orders(names)
          BY <1>1, <2>1 DEF Visited, Visits
        <4> QED
          BY <4>1 DEF Orders
      <3>2. ASSUME NEW rank, Ranks(rank, names, deps) PROVE ~\A a \in v.above : rank[v.name] < rank[a]
        <4>1. rank[v.name] \in Nat
          BY <3>2 DEF Ranks, Visits
        <4> QED
          BY <2>1, <4>1
      <3> QED
        BY <3>1, <3>2 DEF VisitRight, Extends, Succeeds
    <2>2. CASE v.name \notin v.above
      <3>1. ASSUME NEW w \in D, w.above = v.above \cup {v.name} PROVE VisitRight(g[w], w, names, deps)
        <4>1. measure(w) < measure(v)
          BY <2>2, <3>1, BelowIsLess
        <4>2. measure(w) < k
          BY <1>2, <4>1
        <4> QED
          BY <1>4, <4>2
      <3>2. OrdersBelow(names, v, g)
        BY <1>1 DEF OrdersBelow
      <3>3. VisitRight(Visited(names, deps, v, g), v, names, deps)
        BY <2>2, <3>1, <3>2, VisitedRight
      <3> QED
        BY <1>1, <3>3
    <2> QED
      BY <2>1, <2>2
  <1> HIDE DEF P
  <1>5. Nat \subseteq P
    BY <1>3, <1>4, NatHolds
  <1>6. ASSUME NEW v \in D PROVE VisitRight(g[v], v, names, deps)
    <2>1. measure(v) + 1 \in P /\ measure(v) < measure(v) + 1
      BY <1>2, <1>5
    <2> QED
      BY <2>1 DEF P
  <1> QED
    BY <1>6 DEF g

\* Every set of places in a sequence that is not empty has a last one.
LEMMA MaxIsLast ==
  ASSUME NEW n \in Nat, NEW U \in SUBSET (1 .. n), U # {}
  PROVE  Max(U) \in U
  <1> DEFINE P == {S \in SUBSET (1 .. n) : S # {} => \E x \in S : \A y \in S : x >= y}
  <1>1. ASSUME NEW S \in SUBSET (1 .. n), \A x \in S : S \ {x} \in P PROVE S \in P
    <2> SUFFICES ASSUME S # {} PROVE \E x \in S : \A y \in S : x >= y
      OBVIOUS
    <2>1. PICK z \in S : TRUE
      OBVIOUS
    <2>2. CASE S = {z}
      BY <2>2
    <2>3. CASE S # {z}
      <3>1. PICK x \in S \ {z} : \A y \in S \ {z} : x >= y
        BY <1>1, <2>3
      <3>2. CASE x >= z
        BY <3>1, <3>2
      <3>3. CASE ~(x >= z)
        BY <3>1, <3>3
      <3> QED
        BY <3>2, <3>3
    <2> QED
      BY <2>2, <2>3
  <1>2. IsFiniteSet(1 .. n)
    BY FS_Interval
  <1>3. SUBSET (1 .. n) \subseteq P
    <2> DEFINE I == 1 .. n
    <2>1. IsFiniteSet(I) /\ Inductive(P, I)
      <3> HIDE DEF P
      <3> QED
        BY <1>1, <1>2 DEF Inductive
    <2> HIDE DEF P, I
    <2>2. SUBSET I \subseteq P
      BY <2>1, SubsetsHold
    <2> QED
      BY <2>2 DEF I
  <1> HIDE DEF P
  <1>4. \E x \in U : \A y \in U : x >= y
    BY <1>3 DEF P
  <1> QED
    BY <1>4 DEF Max

NoOrder == [order |-> <<>>, cyclic |-> FALSE]

\* The visits of a batch, one name after the other.
BatchIs(f, names, deps) ==
    LET D == DOMAIN names
        Start(U) == [name |-> names[Max(U)], above |-> {}, state |-> f[U \ {Max(U)}]]
    IN  /\ f \in [SUBSET D -> Orders(ToSet(names))]
        /\ \A U \in SUBSET D : f[U] = IF U = {} THEN NoOrder ELSE Visit(ToSet(names), deps)[Start(U)]
        /\ LoadOrder(names, deps) = f[D]

\* A batch is visited one name after the other.
LEMMA BatchFolds ==
  ASSUME NEW S, NEW names \in Seq(S), IsFiniteSet(ToSet(names)), NEW deps
  PROVE  \E f : BatchIs(f, names, deps)
  <1> DEFINE D == DOMAIN names
             R == Orders(ToSet(names))
             g == Visit(ToSet(names), deps)
             At(n, acc) == [name |-> n, above |-> {}, state |-> acc]
             step == [y \in D \X R |-> g[At(names[y[1]], y[2])]]
             pick == [U \in SUBSET D |-> Max(U)]
  <1>1. D = 1 .. Len(names) /\ Len(names) \in Nat
    OBVIOUS
  <1>2. IsFiniteSet(D)
    BY <1>1, FS_Interval
  <1>3. g \in [Visits(ToSet(names)) -> R]
    BY VisitSolved
  <1> HIDE DEF g
  <1>4. \A i \in D, acc \in R : At(names[i], acc) \in Visits(ToSet(names))
    BY DEF Visits, ToSet
  <1>5. step \in [D \X R -> R]
    BY <1>3, <1>4
  <1>6. Picks(pick, D)
    BY <1>1, MaxIsLast DEF Picks
  <1>7. \A U \in SUBSET D : pick[U] = Max(U)
    OBVIOUS
  <1>8. \A i \in D, acc \in R : step[<<i, acc>>] = g[At(names[i], acc)]
    OBVIOUS
  <1>9. NoOrder \in R
    BY DEF Orders, NoOrder
  <1>10. PICK f \in [SUBSET D -> R] : Folded(f, D, NoOrder, step, pick)
    <2> HIDE DEF D, R, step, pick
    <2> QED
      BY <1>2, <1>5, <1>6, <1>9, FoldSolution
  <1>11. ASSUME NEW U \in SUBSET D PROVE f[U] = IF U = {} THEN NoOrder ELSE g[At(names[Max(U)], f[U \ {Max(U)}])]
    <2>1. U # {} => Max(U) \in D /\ U \ {Max(U)} \in SUBSET D /\ f[U \ {Max(U)}] \in R
      BY <1>6, <1>7 DEF Picks
    <2> HIDE DEF step, pick, At, D, R
    <2> QED
      BY <1>7, <1>8, <1>10, <2>1, ZenonT(40) DEF Folded
  <1> DEFINE Fold(it) == [U \in SUBSET D |-> IF U = {} THEN NoOrder ELSE g[At(names[Max(U)], it[U \ {Max(U)}])]]
             it == CHOOSE it : it = Fold(it)
  <1>12. f = Fold(f)
    BY <1>11
  <1>13. it = Fold(it)
    <2> HIDE DEF Fold
    <2> QED
      BY <1>12
  <1>14. LoadOrder(names, deps) = it[D]
    BY DEF LoadOrder, FoldLeft, MapThenFoldSet, NoOrder, g
  <1>15. it[D] = f[D]
    <2>1. ASSUME NEW U \in SUBSET D, U # {} => it[U \ {pick[U]}] = f[U \ {pick[U]}] PROVE it[U] = f[U]
      <3>1. it[U] = IF U = {} THEN NoOrder ELSE g[At(names[Max(U)], it[U \ {Max(U)}])]
        <4> HIDE DEF it, At
        <4> QED
          BY <1>13
      <3> HIDE DEF it, At
      <3> QED
        BY <1>7, <1>11, <2>1, <3>1
    <2> HIDE DEF it, pick
    <2>2. SameFold(it, f, D, pick)
      BY <2>1 DEF SameFold
    <2> HIDE DEF D
    <2> QED
      BY <1>2, <1>6, <2>2, FoldsAgree
  <1>16. LoadOrder(names, deps) = f[D]
    <2> HIDE DEF it
    <2> QED
      BY <1>14, <1>15
  <1> QED
    BY <1>11, <1>16 DEF BatchIs, g

\* A batch that is not refused is loaded in order, each name once; and it is not refused if its
\* names can be ranked.
LEMMA LoadOrderIsRight ==
  ASSUME NEW S, NEW names \in Seq(S), IsFiniteSet(ToSet(names)), NEW deps
  PROVE  LET result == LoadOrder(names, deps)
         IN  /\ result \in Orders(ToSet(names))
             /\ ~result.cyclic => Ordered(result.order, ToSet(names), deps) /\ ToSet(result.order) = ToSet(names)
             /\ \A rank : Ranks(rank, ToSet(names), deps) => ~result.cyclic
  <1> DEFINE D == DOMAIN names
             T == ToSet(names)
             R == Orders(T)
             g == Visit(T, deps)
             At(n, acc) == [name |-> n, above |-> {}, state |-> acc]
             result == LoadOrder(names, deps)
  <1>1. PICK f : BatchIs(f, names, deps)
    BY BatchFolds
  <1>2. /\ f \in [SUBSET D -> R] /\ result = f[D]
        /\ \A U \in SUBSET D : f[U] = IF U = {} THEN NoOrder ELSE g[At(names[Max(U)], f[U \ {Max(U)}])]
    BY <1>1 DEF BatchIs
  <1>3. D = 1 .. Len(names) /\ Len(names) \in Nat /\ IsFiniteSet(D)
    BY FS_Interval
  <1>4. \A v \in Visits(T) : VisitRight(g[v], v, T, deps)
    BY VisitsAreRight
  <1>5. ASSUME NEW U \in SUBSET D, U # {}
        PROVE  /\ Max(U) \in U /\ f[U \ {Max(U)}] \in R
               /\ Extends(f[U], f[U \ {Max(U)}], {names[Max(U)]}, {}, T, deps)
               /\ \A rank : Ranks(rank, T, deps) => Succeeds(f[U], f[U \ {Max(U)}], {names[Max(U)]}, {}, rank)
    <2>1. Max(U) \in U
      BY <1>3, <1>5, MaxIsLast
    <2>2. f[U \ {Max(U)}] \in R
      BY <1>2, <2>1
    <2> DEFINE v == At(names[Max(U)], f[U \ {Max(U)}])
    <2>3. v \in Visits(T)
      BY <2>1, <2>2 DEF Visits, ToSet
    <2>4. f[U] = g[v]
      BY <1>2, <1>5
    <2>5. v.name = names[Max(U)] /\ v.above = {} /\ v.state = f[U \ {Max(U)}]
      OBVIOUS
    <2> HIDE DEF v, g
    <2>6. VisitRight(f[U], v, T, deps)
      BY <1>4, <2>3, <2>4
    <2> QED
      BY <2>1, <2>2, <2>5, <2>6 DEF VisitRight
  <1> HIDE DEF g
  <1> DEFINE P == {U \in SUBSET D : Extends(f[U], NoOrder, {names[i] : i \in U}, {}, T, deps)}
             Q == {U \in SUBSET D : \A rank : Ranks(rank, T, deps) => ~f[U].cyclic}
  <1>6. ASSUME NEW U \in SUBSET D, \A x \in U : U \ {x} \in P PROVE U \in P
    <2>1. CASE U = {}
      <3>1. f[U] = NoOrder
        BY <1>2, <2>1
      <3>2. Extends(NoOrder, NoOrder, {names[i] : i \in {}}, {}, T, deps)
        BY DEF Extends
      <3> QED
        BY <2>1, <3>1, <3>2
    <2>2. CASE U # {}
      <3> DEFINE m == Max(U)
                 p == f[U \ {m}]
      <3>1. m \in U /\ Extends(f[U], p, {names[m]}, {}, T, deps)
        BY <1>5, <2>2
      <3>2. Extends(p, NoOrder, {names[i] : i \in U \ {m}}, {}, T, deps)
        BY <1>6, <3>1
      <3> HIDE DEF m, p, T
      <3>3. Extends(f[U], NoOrder, {names[i] : i \in U}, {}, T, deps)
        BY <3>1, <3>2 DEF Extends
      <3> QED
        BY <3>3
    <2> QED
      BY <2>1, <2>2
  <1>7. ASSUME NEW U \in SUBSET D, \A x \in U : U \ {x} \in Q PROVE U \in Q
    <2> SUFFICES ASSUME NEW rank, Ranks(rank, T, deps) PROVE ~f[U].cyclic
      OBVIOUS
    <2>1. CASE U = {}
      <3>1. f[U] = NoOrder
        BY <1>2, <2>1
      <3> QED
        BY <3>1 DEF NoOrder
    <2>2. CASE U # {}
      <3>1. Max(U) \in U /\ Succeeds(f[U], f[U \ {Max(U)}], {names[Max(U)]}, {}, rank)
        BY <1>5, <2>2
      <3>2. ~f[U \ {Max(U)}].cyclic
        BY <1>7, <3>1
      <3> QED
        BY <3>1, <3>2 DEF Succeeds
    <2> QED
      BY <2>1, <2>2
  <1>8. D \in P /\ D \in Q
    <2>1. SUBSET D \subseteq P
      <3> HIDE DEF P
      <3>1. Inductive(P, D)
        BY <1>6 DEF Inductive
      <3> QED
        BY <1>3, <3>1, SubsetsHold
    <2>2. SUBSET D \subseteq Q
      <3> HIDE DEF Q
      <3>1. Inductive(Q, D)
        BY <1>7 DEF Inductive
      <3> QED
        BY <1>3, <3>1, SubsetsHold
    <2> HIDE DEF P, Q
    <2> QED
      BY <2>1, <2>2
  <1>9. result \in R
    BY <1>2
  <1>10. ASSUME ~result.cyclic PROVE Ordered(result.order, T, deps) /\ ToSet(result.order) = T
    <2>1. Extends(result, NoOrder, {names[i] : i \in D}, {}, T, deps)
      BY <1>2, <1>8
    <2>2. Ordered(NoOrder.order, T, deps)
      BY DEF Ordered, NoOrder
    <2>3. {names[i] : i \in D} = T
      BY DEF ToSet
    <2> HIDE DEF T, result
    <2>4. Ordered(result.order, T, deps) /\ T \subseteq ToSet(result.order)
      BY <1>10, <2>1, <2>2, <2>3 DEF Extends
    <2>5. ToSet(result.order) \subseteq T
      BY <2>4 DEF Ordered, ToSet
    <2> QED
      BY <2>4, <2>5
  <1>11. \A rank : Ranks(rank, T, deps) => ~result.cyclic
    BY <1>2, <1>8
  <1> QED
    BY <1>9, <1>10, <1>11

\* The orders of a set.
LEMMA OrdersOfSet ==
  ASSUME NEW S, IsFiniteSet(S), NEW o
  PROVE  o \in SetToSeqs(S) <=> /\ o \in Seq(S) /\ ToSet(o) = S
                                /\ \A i, j \in DOMAIN o : o[i] = o[j] => i = j
  <1>0. Cardinality(S) \in Nat
    BY FS_CardinalityType
  <1>1. ASSUME o \in SetToSeqs(S)
        PROVE  o \in Seq(S) /\ ToSet(o) = S /\ \A i, j \in DOMAIN o : o[i] = o[j] => i = j
    <2> DEFINE D == 1 .. Cardinality(S)
    <2>1. o \in [D -> S] /\ \A i, j \in D : i # j => o[i] # o[j]
      BY <1>1 DEF SetToSeqs
    <2>2. o \in Injection(D, S)
      BY <2>1 DEF Injection, IsInjective
    <2>3. IsFiniteSet(D) /\ Cardinality(D) = Cardinality(S)
      BY <1>0, FS_Interval
    <2>4. o \in Surjection(D, S)
      <3> HIDE DEF D
      <3> QED
        BY <2>2, <2>3, FS_Injection
    <2>5. ToSet(o) = S
      BY <2>1, <2>4 DEF Surjection, ToSet
    <2>6. o \in Seq(S)
      BY <1>0, <2>1
    <2> QED
      BY <2>1, <2>5, <2>6
  <1>2. ASSUME o \in Seq(S), ToSet(o) = S, \A i, j \in DOMAIN o : o[i] = o[j] => i = j
        PROVE  o \in SetToSeqs(S)
    <2> DEFINE D == 1 .. Len(o)
    <2>1. o \in [D -> S] /\ DOMAIN o = D /\ Len(o) \in Nat
      BY <1>2
    <2>2. o \in Bijection(D, S)
      BY <1>2, <2>1 DEF Bijection, Injection, Surjection, IsInjective, ToSet
    <2>3. IsFiniteSet(D) /\ Cardinality(D) = Len(o)
      <3>1. \A n \in Nat : IsFiniteSet(1 .. n) /\ Cardinality(1 .. n) = n
        BY FS_Interval
      <3> QED
        BY <2>1, <3>1
    <2>4. ExistsBijection(D, S)
      BY <2>2 DEF ExistsBijection
    <2>5. Cardinality(S) = Len(o)
      <3> HIDE DEF D
      <3> QED
        BY <2>3, <2>4, FS_Bijection
    <2> QED
      BY <1>2, <2>1, <2>5 DEF SetToSeqs
  <1> QED
    BY <1>1, <1>2

\* BatchInOrder holds of every registry: the depth-first search finds an order if there is one.
Right(order, deps) == \A i, j \in DOMAIN order : i <= j => order[j] \notin deps[order[i]]

\* Every batch is loaded dependencies first, unless it has a cycle.
LEMMA BatchesInOrder ==
  ASSUME NEW S, IsFiniteSet(S), NEW deps \in [S -> SUBSET S], NEW names \in SetToSeqs(S)
  PROVE  LET result == LoadOrder(names, deps)
         IN  IF result.cyclic THEN ~\E order \in SetToSeqs(S) : Right(order, deps)
             ELSE result.order \in SetToSeqs(S) /\ Right(result.order, deps)
  <1> DEFINE result == LoadOrder(names, deps)
  <1>1. names \in Seq(S) /\ ToSet(names) = S
    BY OrdersOfSet
  <1>2. /\ ~result.cyclic => Ordered(result.order, S, deps) /\ ToSet(result.order) = S
        /\ \A rank : Ranks(rank, S, deps) => ~result.cyclic
    BY <1>1, LoadOrderIsRight
  <1> HIDE DEF result
  <1>3. ASSUME ~result.cyclic PROVE result.order \in SetToSeqs(S) /\ Right(result.order, deps)
    <2> DEFINE o == result.order
    <2>1. Ordered(o, S, deps) /\ ToSet(o) = S
      BY <1>2, <1>3
    <2>2. o \in SetToSeqs(S)
      BY <2>1, OrdersOfSet DEF Ordered
    <2>3. ASSUME NEW i \in DOMAIN o, NEW j \in DOMAIN o, i <= j, o[j] \in deps[o[i]] PROVE FALSE
      <3>1. o[i] \in S /\ o[j] \in S /\ i \in Nat /\ j \in Nat
        BY <2>1 DEF Ordered
      <3>2. PICK k \in DOMAIN o : k < i /\ o[k] = o[j]
        BY <2>1, <2>3, <3>1 DEF Ordered
      <3>3. k = j
        BY <2>1, <3>2 DEF Ordered
      <3> QED
        BY <2>3, <3>1, <3>2, <3>3
    <2> QED
      BY <2>2, <2>3 DEF Right
  <1>4. ASSUME NEW order \in SetToSeqs(S), Right(order, deps) PROVE ~result.cyclic
    <2>1. order \in Seq(S) /\ ToSet(order) = S /\ DOMAIN order \subseteq Nat
      BY OrdersOfSet
    <2> DEFINE rank == [x \in S |-> CHOOSE i \in DOMAIN order : order[i] = x]
    <2>2. \A x \in S : rank[x] \in DOMAIN order /\ order[rank[x]] = x
      <3> SUFFICES ASSUME NEW x \in S PROVE rank[x] \in DOMAIN order /\ order[rank[x]] = x
        OBVIOUS
      <3>1. \E i \in DOMAIN order : order[i] = x
        BY <2>1 DEF ToSet
      <3>2. rank[x] = CHOOSE i \in DOMAIN order : order[i] = x
        OBVIOUS
      <3> QED
        BY <3>1, <3>2
    <2>3. rank \in [S -> Nat]
      BY <2>1, <2>2
    <2> HIDE DEF rank
    <2>4. ASSUME NEW x \in S, NEW d \in deps[x] \cap S PROVE rank[d] < rank[x]
      <3>1. ~(rank[x] <= rank[d])
        BY <1>4, <2>2 DEF Right
      <3> QED
        BY <2>3, <3>1
    <2>5. Ranks(rank, S, deps)
      BY <2>3, <2>4 DEF Ranks
    <2> QED
      BY <1>2, <2>5
  <1> QED
    BY <1>3, <1>4 DEF result

\* So is every batch of the registry.
LEMMA BatchIsInOrder == BatchInOrder
  BY PluginAssumption, BatchesInOrder DEF BatchInOrder, Right

-----------------------------------------------------------------------------
(* The plugin manager: the books of the registry and of the calls *)

Statuses == {"loading", "error", "loaded", "active", "inactive", "unloading", "unloaded"}

\* The books of the registry.
RegistryOK ==
    /\ DOMAIN dependencies \subseteq PluginNames
    /\ dependents \in [PluginNames -> SUBSET PluginNames]
    /\ \A d \in DOMAIN dependencies :
          dependencies[d] \subseteq PluginNames /\ \A n \in dependencies[d] : d \in dependents[n]

InstancesBook ==
    /\ status \in Seq(Statuses) /\ nameOf \in Seq(PluginNames) /\ Len(nameOf) = Len(status)
    /\ plugins \in [PluginNames -> (1 .. Len(status)) \cup {NoPlugin}]
    /\ \A n \in PluginNames : plugins[n] # NoPlugin => nameOf[plugins[n]] = n

CallRecords ==
    [op : {"none", "load", "unload", "reload", "stop"}, at : {"idle", "init", "cleanup", "next"},
     inst : Nat \cup {NoPlugin}, todo : Seq(PluginNames), batch : Seq(PluginNames)]

\* A name of a batch of stop() is still to come, or being cleaned up, or it is gone, unless it is
\* excused.
StopDone(r, n) ==
    \/ n \in ToSet(r.todo)
    \/ r.at = "cleanup" /\ nameOf[r.inst] = n
    \/ plugins[n] = NoPlugin
    \/ n \in contested \cup refused

\* What holds of the record r of a call.
RecordOK(r) ==
    /\ r \in CallRecords
    /\ r.at = "idle" => r = NoCall
    /\ r.at \in {"init", "cleanup"} => r.inst \in 1 .. Len(status) /\ nameOf[r.inst] \in ToSet(r.batch)
    /\ r.at = "next" => r.todo # <<>>
    /\ ToSet(r.todo) \subseteq ToSet(r.batch)
    /\ r.at = "cleanup" => plugins[nameOf[r.inst]] = r.inst \/ nameOf[r.inst] \in contested
    /\ r.op = "stop" => \A n \in ToSet(r.batch) : StopDone(r, n)

\* Two calls work on the same name only if it is contested.
Overlap == \A c, o \in PluginCallers : c # o => WorksOn(c) \cap WorksOn(o) \subseteq contested

PMIndInv ==
    /\ RegistryOK /\ InstancesBook
    /\ call = [c \in PluginCallers |-> call[c]]
    /\ \A c \in PluginCallers : RecordOK(call[c])
    /\ Overlap

\* The invariant gives the shape of the state.
LEMMA PMIndInvImplies == PMIndInv => PMTypeOK
  BY DEF PMIndInv, PMTypeOK, RegistryOK, InstancesBook, RecordOK, CallRecords

\* The record of no call is one of a call.
LEMMA NoCallIsRight == NoCall \in CallRecords /\ (NoCall.batch = <<>>) /\ (NoCall.todo = <<>>)
  BY DEF NoCall, CallRecords

\* The invariant holds initially.
LEMMA PMInitially == PMInit => PMIndInv
  <1> SUFFICES ASSUME PMInit PROVE PMIndInv
    OBVIOUS
  <1>1. RegistryOK
    BY DEF PMInit, RegistryOK
  <1>2. InstancesBook
    BY DEF PMInit, InstancesBook
  <1>3. ASSUME NEW c \in PluginCallers PROVE call[c] = NoCall
    BY DEF PMInit
  <1>4. RecordOK(NoCall)
    BY NoCallIsRight DEF RecordOK, NoCall, ToSet
  <1>5. Overlap
    BY <1>3, NoCallIsRight DEF Overlap, WorksOn, ToSet
  <1> QED
    BY <1>1, <1>2, <1>3, <1>4, <1>5 DEF PMIndInv, PMInit

\* A step in which the call of c becomes r.  The plugins of names it does not work on stay, those it works on
\* are contested if others do, and of the excuses only those are taken back whose names are
\* without a plugin or contested.
MovesTo(c, r) ==
    /\ call' = [call EXCEPT ![c] = r]
    /\ Len(status) <= Len(status') /\ \A i \in 1 .. Len(status) : nameOf'[i] = nameOf[i]
    /\ contested \subseteq contested'
    /\ \A n \in PluginNames : plugins'[n] # plugins[n] =>
          \A o \in PluginCallers \ {c} : n \in WorksOn(o) => n \in contested'
    /\ \A n \in refused \ refused' :
          plugins[n] = NoPlugin \/ \A o \in PluginCallers \ {c} : n \in WorksOn(o) => n \in contested'
    /\ \A o \in PluginCallers \ {c} : ToSet(r.batch) \cap WorksOn(o) \subseteq contested'

\* A step that moves one call keeps the invariant.
LEMMA Moves ==
  ASSUME PMIndInv, NEW c \in PluginCallers, NEW r, MovesTo(c, r),
         RegistryOK', InstancesBook', RecordOK(r)'
  PROVE  PMIndInv'
  <1>1. /\ call' = [call EXCEPT ![c] = r] /\ call = [o \in PluginCallers |-> call[o]]
        /\ InstancesBook /\ Overlap /\ \A o \in PluginCallers : RecordOK(call[o])
    BY DEF PMIndInv, MovesTo
  <1>2. call'[c] = r /\ \A o \in PluginCallers \ {c} : call'[o] = call[o]
    BY <1>1
  <1>3. call' = [o \in PluginCallers |-> call'[o]]
    BY <1>1
  <1>4. ASSUME NEW o \in PluginCallers \ {c}, NEW q, q = call[o] PROVE RecordOK(q)'
    <2>1. RecordOK(q) /\ WorksOn(o) = ToSet(q.batch)
      BY <1>1, <1>4 DEF WorksOn
    <2>2. contested \subseteq contested' /\ Len(status) <= Len(status')
      BY DEF MovesTo
    <2>3. Len(status) \in Nat /\ Len(status') \in Nat
      BY <1>1 DEF InstancesBook
    <2>4. q.at \in {"init", "cleanup"} =>
             q.inst \in 1 .. Len(status') /\ nameOf'[q.inst] = nameOf[q.inst] /\ nameOf[q.inst] \in ToSet(q.batch)
                /\ nameOf[q.inst] \in PluginNames
      BY <1>1, <2>1, <2>3 DEF RecordOK, MovesTo, InstancesBook
    <2>5. q.at = "cleanup" => plugins'[nameOf'[q.inst]] = q.inst \/ nameOf'[q.inst] \in contested'
      BY <2>1, <2>2, <2>4 DEF RecordOK, MovesTo
    <2>6. ASSUME q.op = "stop", NEW n \in ToSet(q.batch) PROVE StopDone(q, n)'
      <3>1. StopDone(q, n)
        BY <2>1, <2>6 DEF RecordOK
      <3>2. n \in PluginNames
        BY <2>1, <2>6 DEF RecordOK, CallRecords, ToSet
      <3>3. CASE n \in ToSet(q.todo) \/ (q.at = "cleanup" /\ nameOf[q.inst] = n)
        BY <2>4, <3>3 DEF StopDone
      <3>4. CASE plugins[n] = NoPlugin
        BY <2>1, <2>6, <3>2, <3>4 DEF StopDone, MovesTo
      <3>5. CASE n \in contested
        BY <2>2, <3>5 DEF StopDone
      <3>6. CASE n \in refused
        BY <2>1, <2>6, <3>2, <3>6 DEF StopDone, MovesTo
      <3> QED
        BY <3>1, <3>3, <3>4, <3>5, <3>6 DEF StopDone
    <2> QED
      BY <2>1, <2>4, <2>5, <2>6 DEF RecordOK
  <1>5. \A o \in PluginCallers : RecordOK(call[o])'
    <2> SUFFICES ASSUME NEW o \in PluginCallers, NEW q, q = call'[o] PROVE RecordOK(q)'
      BY DEF RecordOK, StopDone
    <2> QED
      BY <1>2, <1>4
  <1>6. Overlap'
    <2> SUFFICES ASSUME NEW o \in PluginCallers, NEW u \in PluginCallers, o # u, NEW n,
                        n \in WorksOn(o)', n \in WorksOn(u)'
                 PROVE  n \in contested'
      BY DEF Overlap
    <2>1. \A x \in PluginCallers \ {c} : WorksOn(x)' = WorksOn(x)
      BY <1>2 DEF WorksOn
    <2>2. WorksOn(c)' = ToSet(r.batch)
      BY <1>2 DEF WorksOn
    <2> QED
      BY <1>1, <2>1, <2>2 DEF Overlap, MovesTo
  <1> QED
    BY <1>3, <1>5, <1>6 DEF PMIndInv

Working(c, names) ==
    /\ contested \subseteq contested'
    /\ \A o \in PluginCallers \ {c} : names \cap WorksOn(o) \subseteq contested'

\* A call that begins on names contests those others work on.
LEMMA ContestWorks ==
  ASSUME NEW c \in PluginCallers, NEW names, Contest(c, names)
  PROVE  Working(c, names)
  BY DEF Contest, Working

\* What a call goes on to work on is contested if others work on it, too.
LEMMA WorksOnItsBatch ==
  ASSUME PMIndInv, NEW c \in PluginCallers, contested' = contested
  PROVE  Working(c, WorksOn(c))
  BY DEF PMIndInv, Working, Overlap

\* A new status of an instance keeps the book of instances.
LEMMA StatusChanges ==
  ASSUME InstancesBook, NEW i, NEW s \in Statuses, status' = [status EXCEPT ![i] = s], nameOf' = nameOf,
         plugins' \in [PluginNames -> (1 .. Len(status)) \cup {NoPlugin}],
         \A n \in PluginNames : plugins'[n] = plugins[n] \/ plugins'[n] = NoPlugin
  PROVE  InstancesBook' /\ Len(status') = Len(status) /\ Len(status) \in Nat
  <1>1. status \in Seq(Statuses) /\ Len(status) \in Nat
    BY DEF InstancesBook
  <1>2. status' \in Seq(Statuses) /\ Len(status') = Len(status)
    <2>1. status \in [1 .. Len(status) -> Statuses]
      BY <1>1
    <2>2. status' \in [1 .. Len(status) -> Statuses]
      BY <2>1
    <2> QED
      BY <1>1, <2>2
  <1> QED
    BY <1>1, <1>2 DEF InstancesBook

\* register_plugin_class keeps the books of dependencies and dependents in step.
LEMMA RegisterKeeps ==
  ASSUME RegistryOK, NEW n \in PluginNames, NEW declared \in Declares[n], RegisterClass(n, declared)
  PROVE  RegistryOK'
  <1>1. declared \subseteq PluginNames
    BY PluginAssumption
  <1>2. DOMAIN dependencies' = DOMAIN dependencies \cup {n} /\ dependencies'[n] = declared
        /\ \A m \in DOMAIN dependencies \ {n} : dependencies'[m] = dependencies[m]
    BY DEF RegisterClass
  <1>3. /\ dependents' \in [PluginNames -> SUBSET PluginNames]
        /\ \A d \in PluginNames : dependents[d] \subseteq dependents'[d] /\ (d \in declared => n \in dependents'[d])
    BY DEF RegisterClass, DependentsWith, RegistryOK
  <1> QED
    BY <1>1, <1>2, <1>3 DEF RegistryOK

\* Nothing moves but the status of an instance and the registry.
LEMMA QuietKeeps ==
  ASSUME PMIndInv, RegistryOK', InstancesBook', Len(status') = Len(status),
         UNCHANGED <<plugins, nameOf, call, refused, contested>>
  PROVE  PMIndInv'
  <1>1. \A c \in PluginCallers : RecordOK(call[c])'
    BY DEF PMIndInv, RecordOK, StopDone
  <1>2. Overlap'
    BY DEF PMIndInv, Overlap, WorksOn
  <1> QED
    BY <1>1, <1>2 DEF PMIndInv

-----------------------------------------------------------------------------
(* What a call goes on with *)

Rest(q, todo) ==
    IF todo = <<>> THEN NoCall ELSE [q EXCEPT !.at = "next", !.inst = NoPlugin, !.todo = todo]

\* A call that is over has nothing left to show.
LEMMA NoCallKeeps == RecordOK(NoCall)'
  BY NoCallIsRight DEF RecordOK, NoCall, ToSet

\* A call that goes on is right if what it passed over is gone or excused.
LEMMA RestKeeps ==
  ASSUME NEW q \in CallRecords, NEW todo \in Seq(PluginNames), ToSet(todo) \subseteq ToSet(q.batch),
         q.op = "stop" => \A n \in ToSet(q.batch) :
             n \in ToSet(todo) \/ plugins'[n] = NoPlugin \/ n \in contested' \cup refused'
  PROVE  RecordOK(Rest(q, todo))' /\ ToSet(Rest(q, todo).batch) \subseteq ToSet(q.batch)
         /\ Rest(q, todo) \in CallRecords
  <1>1. CASE todo = <<>>
    BY <1>1, NoCallKeeps, NoCallIsRight DEF Rest, ToSet
  <1>2. CASE todo # <<>>
    <2> DEFINE r == [q EXCEPT !.at = "next", !.inst = NoPlugin, !.todo = todo]
    <2>1. r \in CallRecords /\ r.at = "next" /\ r.todo = todo /\ r.batch = q.batch /\ r.op = q.op
      BY DEF CallRecords
    <2>2. Rest(q, todo) = r
      BY <1>2 DEF Rest
    <2> HIDE DEF r
    <2>3. RecordOK(r)'
      BY <1>2, <2>1 DEF RecordOK, StopDone
    <2> QED
      BY <2>1, <2>2, <2>3
  <1> QED
    BY <1>1, <1>2

\* Goes leaves the rest of the batch.
LEMMA GoesToRest ==
  ASSUME PMIndInv, NEW c \in PluginCallers, NEW q, q = call[c], NEW todo, Goes(c, todo)
  PROVE  call' = [call EXCEPT ![c] = Rest(q, todo)]
  BY DEF Goes, Rest

\* A record at work on instance i of one of its names.
Busy(q, do, i, todo) == [q EXCEPT !.at = do, !.inst = i, !.todo = todo]

\* A call at work on one of its names is right.
LEMMA BusyKeeps ==
  ASSUME NEW q \in CallRecords, NEW do \in {"init", "cleanup"}, NEW i \in Nat, NEW todo \in Seq(PluginNames),
         ToSet(todo) \subseteq ToSet(q.batch), i \in 1 .. Len(status'), nameOf'[i] \in ToSet(q.batch),
         do = "cleanup" => plugins'[nameOf'[i]] = i \/ nameOf'[i] \in contested',
         q.op = "stop" => \A n \in ToSet(q.batch) :
             \/ n \in ToSet(todo)
             \/ do = "cleanup" /\ nameOf'[i] = n
             \/ plugins'[n] = NoPlugin \/ n \in contested' \cup refused'
  PROVE  RecordOK(Busy(q, do, i, todo))' /\ Busy(q, do, i, todo).batch = q.batch
  <1> DEFINE r == Busy(q, do, i, todo)
  <1>1. r \in CallRecords /\ r.at = do /\ r.inst = i /\ r.todo = todo /\ r.batch = q.batch /\ r.op = q.op
    BY DEF CallRecords, Busy
  <1> HIDE DEF r
  <1>2. RecordOK(r)' /\ r.batch = q.batch
    BY <1>1 DEF RecordOK, StopDone
  <1> QED
    BY <1>2 DEF r

\* create_plugin_instance and load(), for the only name of a call or for the next of a batch.
LEMMA CreateKeeps ==
  ASSUME PMIndInv, NEW c \in PluginCallers, NEW n \in PluginNames, NEW q \in CallRecords, q.op = "load",
         n \in ToSet(q.batch), NEW todo \in Seq(PluginNames), ToSet(todo) \subseteq ToSet(q.batch),
         todo = <<>> \/ q = call[c], CreateAndLoad(c, n, q, todo), Working(c, ToSet(q.batch)),
         UNCHANGED <<dependencies, dependents, refused>>
  PROVE  PMIndInv'
  <1> DEFINE S == 1 .. Len(status)
  <1>1. /\ status \in Seq(Statuses) /\ nameOf \in Seq(PluginNames) /\ Len(nameOf) = Len(status) /\ Len(status) \in Nat
        /\ plugins \in [PluginNames -> S \cup {NoPlugin}]
        /\ \A m \in PluginNames : plugins[m] # NoPlugin => nameOf[plugins[m]] = m
    BY DEF PMIndInv, InstancesBook
  <1>2. PICK i : i = Len(status) + 1
    OBVIOUS
  <1>3. /\ plugins' = [plugins EXCEPT ![n] = i] /\ nameOf' = Append(nameOf, n)
        /\ \/ /\ status' = Append(status, "loading")
              /\ call' = [call EXCEPT ![c] = [q EXCEPT !.at = "init", !.inst = i, !.todo = todo]]
           \/ status' = Append(status, "error") /\ Goes(c, todo)
    BY <1>2 DEF CreateAndLoad
  <1>4. PICK s \in Statuses : status' = Append(status, s)
    BY <1>3 DEF Statuses
  <1>5. /\ status' \in Seq(Statuses) /\ Len(status') = i
    BY <1>1, <1>2, <1>4, AppendProperties
  <1>6. /\ nameOf' \in Seq(PluginNames) /\ Len(nameOf') = i /\ nameOf'[i] = n
        /\ \A k \in S : nameOf'[k] = nameOf[k]
    BY <1>1, <1>2, <1>3, AppendProperties
  <1>7. 1 .. i = S \cup {i} /\ i \in Nat /\ i \notin S
    BY <1>1, <1>2
  <1> HIDE DEF S
  <1>8. InstancesBook'
    <2>1. plugins' \in [PluginNames -> (1 .. i) \cup {NoPlugin}]
      BY <1>1, <1>3, <1>7
    <2>2. \A m \in PluginNames : plugins'[m] # NoPlugin => nameOf'[plugins'[m]] = m
      BY <1>1, <1>3, <1>6, <1>7
    <2> QED
      BY <1>5, <1>6, <2>1, <2>2 DEF InstancesBook
  <1>9. RegistryOK'
    BY DEF PMIndInv, RegistryOK
  <1>10. PICK r : /\ call' = [call EXCEPT ![c] = r] /\ RecordOK(r)' /\ ToSet(r.batch) \subseteq ToSet(q.batch)
    <2>1. CASE call' = [call EXCEPT ![c] = [q EXCEPT !.at = "init", !.inst = i, !.todo = todo]]
      <3> DEFINE r == Busy(q, "init", i, todo)
      <3>1. call' = [call EXCEPT ![c] = r]
        BY <2>1 DEF Busy
      <3>2. i \in 1 .. Len(status') /\ nameOf'[i] \in ToSet(q.batch)
        BY <1>5, <1>6, <1>7
      <3>3. RecordOK(r)' /\ r.batch = q.batch
        BY <1>7, <3>2, BusyKeeps
      <3> HIDE DEF r
      <3> QED
        BY <3>1, <3>3
    <2>2. CASE Goes(c, todo)
      <3>1. call' = [call EXCEPT ![c] = Rest(q, todo)]
        BY <2>2 DEF Goes, Rest
      <3>2. RecordOK(Rest(q, todo))' /\ ToSet(Rest(q, todo).batch) \subseteq ToSet(q.batch)
        BY RestKeeps
      <3> DEFINE r == Rest(q, todo)
      <3>3. call' = [call EXCEPT ![c] = r] /\ RecordOK(r)' /\ ToSet(r.batch) \subseteq ToSet(q.batch)
        BY <3>1, <3>2
      <3> HIDE DEF r
      <3> QED
        BY <3>3
    <2> QED
      BY <1>3, <2>1, <2>2
  <1>11. MovesTo(c, r)
    <2>1. \A m \in PluginNames : plugins'[m] # plugins[m] => m = n
      BY <1>1, <1>3
    <2>2. Len(status) <= Len(status') /\ \A k \in 1 .. Len(status) : nameOf'[k] = nameOf[k]
      BY <1>1, <1>2, <1>5, <1>6 DEF S
    <2> QED
      BY <1>10, <2>1, <2>2 DEF MovesTo, Working
  <1> QED
    BY <1>8, <1>9, <1>10, <1>11, Moves

\* A step that makes no instance, in which c works on these names.
LEMMA StepKeeps ==
  ASSUME PMIndInv, NEW c \in PluginCallers, NEW r, NEW names, call' = [call EXCEPT ![c] = r], RecordOK(r)',
         Working(c, names), ToSet(r.batch) \subseteq names,
         \A n \in PluginNames \ names :
             plugins'[n] = plugins[n] /\ (n \in refused => n \in refused' \/ plugins[n] = NoPlugin),
         RegistryOK', InstancesBook', Len(status') = Len(status), nameOf' = nameOf
  PROVE  PMIndInv'
  <1>1. Len(status) <= Len(status')
    BY DEF PMIndInv, InstancesBook
  <1>2. ASSUME NEW o \in PluginCallers \ {c}, NEW n \in WorksOn(o) PROVE n \in PluginNames
    BY <1>2 DEF PMIndInv, RecordOK, CallRecords, WorksOn, ToSet
  <1>3. \A n \in PluginNames : plugins'[n] # plugins[n] => n \in names
    OBVIOUS
  <1>4. ASSUME NEW n \in refused \ refused' PROVE
               plugins[n] = NoPlugin \/ \A o \in PluginCallers \ {c} : n \in WorksOn(o) => n \in contested'
    BY <1>2 DEF Working
  <1>5. MovesTo(c, r)
    BY <1>1, <1>3, <1>4 DEF MovesTo, Working
  <1> QED
    BY <1>5, Moves

\* A call works on names of plugins, and what is left of its batch is of its batch.
LEMMA CallerKeeps ==
  ASSUME PMIndInv, NEW c \in PluginCallers
  PROVE  /\ RecordOK(call[c]) /\ call[c] \in CallRecords /\ WorksOn(c) = ToSet(call[c].batch)
         /\ ToSet(call[c].todo) \subseteq ToSet(call[c].batch) /\ ToSet(call[c].batch) \subseteq PluginNames
  <1>1. PICK q : q = call[c]
    OBVIOUS
  <1>2. RecordOK(q)
    BY <1>1 DEF PMIndInv
  <1>3. q \in CallRecords /\ ToSet(q.todo) \subseteq ToSet(q.batch)
    BY <1>2 DEF RecordOK
  <1>4. q.batch \in Seq(PluginNames)
    BY <1>3 DEF CallRecords
  <1>5. ToSet(q.batch) \subseteq PluginNames
    BY <1>4 DEF ToSet
  <1> QED
    BY <1>1, <1>2, <1>3, <1>5 DEF WorksOn

\* A step of a call that goes on with the rest of its batch.
LEMMA GoesKeeps ==
  ASSUME PMIndInv, NEW c \in PluginCallers, NEW q, q = call[c], NEW todo \in Seq(PluginNames),
         ToSet(todo) \subseteq ToSet(q.batch), Goes(c, todo),
         q.op = "stop" => \A n \in ToSet(q.batch) :
             n \in ToSet(todo) \/ plugins'[n] = NoPlugin \/ n \in contested' \cup refused',
         \A n \in PluginNames \ ToSet(q.batch) : plugins'[n] = plugins[n], refused \subseteq refused',
         RegistryOK', InstancesBook', Len(status') = Len(status), nameOf' = nameOf, contested' = contested
  PROVE  PMIndInv'
  <1>1. q \in CallRecords /\ Working(c, ToSet(q.batch))
    BY CallerKeeps, WorksOnItsBatch
  <1> DEFINE r == Rest(q, todo)
  <1>2. RecordOK(r)' /\ ToSet(r.batch) \subseteq ToSet(q.batch)
    BY <1>1, RestKeeps
  <1>3. call' = [call EXCEPT ![c] = r]
    BY GoesToRest
  <1> HIDE DEF r
  <1> QED
    BY <1>1, <1>2, <1>3, StepKeeps

\* A call that is at work on instance i of one of its names.
LEMMA WorkKeeps ==
  ASSUME PMIndInv, NEW c \in PluginCallers, NEW q \in CallRecords, NEW do \in {"init", "cleanup"}, NEW i \in Nat,
         NEW todo \in Seq(PluginNames), NEW s \in Statuses, status' = [status EXCEPT ![i] = s],
         call' = [call EXCEPT ![c] = Busy(q, do, i, todo)], Working(c, ToSet(q.batch)),
         ToSet(todo) \subseteq ToSet(q.batch), i \in 1 .. Len(status), nameOf[i] \in ToSet(q.batch),
         do = "cleanup" => plugins[nameOf[i]] = i \/ nameOf[i] \in contested,
         q.op = "stop" => do = "cleanup" /\ \A n \in ToSet(q.batch) :
             n = nameOf[i] \/ n \in ToSet(todo) \/ plugins[n] = NoPlugin \/ n \in contested \cup refused,
         UNCHANGED <<plugins, nameOf, refused>>, RegistryOK'
  PROVE  PMIndInv'
  <1>1. InstancesBook' /\ Len(status') = Len(status)
    BY StatusChanges DEF PMIndInv, InstancesBook
  <1>2. i \in 1 .. Len(status') /\ nameOf'[i] \in ToSet(q.batch) /\ contested \subseteq contested'
    BY <1>1 DEF Working
  <1> DEFINE r == Busy(q, do, i, todo)
  <1>3. RecordOK(r)' /\ r.batch = q.batch
    BY <1>2, BusyKeeps
  <1>4. call' = [call EXCEPT ![c] = r]
    OBVIOUS
  <1> HIDE DEF r
  <1> QED
    BY <1>1, <1>3, <1>4, StepKeeps

\* A step that registers nothing keeps the registry.
LEMMA RegistryStays == ASSUME PMIndInv, UNCHANGED <<dependencies, dependents>> PROVE RegistryOK'
  BY DEF PMIndInv, RegistryOK

-----------------------------------------------------------------------------
(* The steps of a call *)

\* initialize() ends.
LEMMA InitEndsKeeps == ASSUME PMIndInv, NEW c \in PluginCallers, InitEnds(c) PROVE PMIndInv'
  <1>1. PICK q : q = call[c]
    OBVIOUS
  <1>2. /\ q.at = "init" /\ Goes(c, q.todo) /\ UNCHANGED <<dependencies, dependents, plugins, nameOf, refused, contested>>
    BY <1>1 DEF InitEnds
  <1>3. PICK s \in Statuses : status' = [status EXCEPT ![q.inst] = s]
    BY <1>1 DEF InitEnds, SetStatus, Statuses
  <1>4. /\ RecordOK(q) /\ q \in CallRecords /\ q.todo \in Seq(PluginNames) /\ ToSet(q.todo) \subseteq ToSet(q.batch)
    BY <1>1, CallerKeeps DEF CallRecords
  <1>5. InstancesBook' /\ Len(status') = Len(status)
    BY <1>2, <1>3, StatusChanges DEF PMIndInv, InstancesBook
  <1>6. q.op = "stop" => \A n \in ToSet(q.batch) :
            n \in ToSet(q.todo) \/ plugins'[n] = NoPlugin \/ n \in contested' \cup refused'
    BY <1>2, <1>4 DEF RecordOK, StopDone
  <1> QED
    BY <1>1, <1>2, <1>4, <1>5, <1>6, RegistryStays, GoesKeeps

\* cleanup() fails.
LEMMA CleanupFailsKeeps == ASSUME PMIndInv, NEW c \in PluginCallers, CleanupFails(c) PROVE PMIndInv'
  <1>1. PICK q : q = call[c]
    OBVIOUS
  <1>2. /\ q.at = "cleanup" /\ Goes(c, q.todo) /\ UNCHANGED <<dependencies, dependents, plugins, nameOf, contested>>
        /\ refused' = refused \cup {nameOf[q.inst]} /\ status' = [status EXCEPT ![q.inst] = "error"]
    BY <1>1 DEF CleanupFails, SetStatus
  <1>3. "error" \in Statuses
    BY DEF Statuses
  <1>4. /\ RecordOK(q) /\ q \in CallRecords /\ q.todo \in Seq(PluginNames) /\ ToSet(q.todo) \subseteq ToSet(q.batch)
    BY <1>1, CallerKeeps DEF CallRecords
  <1>5. InstancesBook' /\ Len(status') = Len(status)
    BY <1>2, <1>3, StatusChanges DEF PMIndInv, InstancesBook
  <1>6. q.op = "stop" => \A n \in ToSet(q.batch) :
            n \in ToSet(q.todo) \/ plugins'[n] = NoPlugin \/ n \in contested' \cup refused'
    BY <1>2, <1>4 DEF RecordOK, StopDone
  <1> QED
    BY <1>1, <1>2, <1>4, <1>5, <1>6, RegistryStays, GoesKeeps

\* load() of an instance that is there, by a call to reload.
LEMMA LoadKeeps ==
  ASSUME PMIndInv, NEW c \in PluginCallers, NEW q \in CallRecords, q.op = "reload", NEW i \in Nat,
         i \in 1 .. Len(status), nameOf[i] \in ToSet(q.batch), Working(c, ToSet(q.batch)),
         BeginLoad(c, i, q, <<>>), UNCHANGED <<plugins, nameOf, refused>>, RegistryOK'
  PROVE  PMIndInv'
  <1>0. <<>> \in Seq(PluginNames) /\ ToSet(<<>>) = {} /\ "loading" \in Statuses /\ "error" \in Statuses
    BY DEF ToSet, Statuses
  <1>1. CASE /\ status' = [status EXCEPT ![i] = "loading"]
             /\ call' = [call EXCEPT ![c] = [q EXCEPT !.at = "init", !.inst = i, !.todo = <<>>]]
    <2> DEFINE todo == <<>>
    <2>1. call' = [call EXCEPT ![c] = Busy(q, "init", i, todo)]
      BY <1>1 DEF Busy
    <2>2. todo \in Seq(PluginNames) /\ ToSet(todo) \subseteq ToSet(q.batch)
      BY <1>0
    <2> HIDE DEF todo
    <2> QED
      BY <1>0, <1>1, <2>1, <2>2, WorkKeeps
  <1>2. CASE status' = [status EXCEPT ![i] = "error"] /\ Goes(c, <<>>)
    <2>1. InstancesBook' /\ Len(status') = Len(status)
      BY <1>0, <1>2, StatusChanges DEF PMIndInv, InstancesBook
    <2>2. call' = [call EXCEPT ![c] = NoCall]
      BY <1>2 DEF Goes
    <2>3. NoCall.batch = <<>> /\ ToSet(NoCall.batch) \subseteq ToSet(q.batch)
      BY <1>0, NoCallIsRight
    <2> QED
      BY <2>1, <2>2, <2>3, NoCallKeeps, StepKeeps
  <1> QED
    BY <1>1, <1>2 DEF BeginLoad, SetStatus

\* cleanup() succeeds.
LEMMA CleanupEndsKeeps == ASSUME PMIndInv, NEW c \in PluginCallers, CleanupEnds(c) PROVE PMIndInv'
  <1>1. PICK q : q = call[c]
    OBVIOUS
  <1>2. PICK i : i = q.inst
    OBVIOUS
  <1>3. q.at = "cleanup" /\ UNCHANGED <<dependencies, dependents, nameOf, refused, contested>>
    BY <1>1 DEF CleanupEnds
  <1>4. /\ RecordOK(q) /\ q \in CallRecords /\ q.todo \in Seq(PluginNames) /\ ToSet(q.todo) \subseteq ToSet(q.batch)
        /\ WorksOn(c) = ToSet(q.batch)
    BY <1>1, CallerKeeps DEF CallRecords
  <1>5. i \in 1 .. Len(status) /\ nameOf[i] \in ToSet(q.batch) /\ i \in Nat
    BY <1>2, <1>3, <1>4 DEF RecordOK
  <1>6. Working(c, ToSet(q.batch))
    BY <1>3, <1>4, WorksOnItsBatch
  <1>7. CASE q.op = "reload"
    <2>1. BeginLoad(c, i, q, <<>>) /\ UNCHANGED plugins
      BY <1>1, <1>2, <1>7 DEF CleanupEnds
    <2> QED
      BY <1>3, <1>4, <1>5, <1>6, <1>7, <2>1, RegistryStays, LoadKeeps
  <1>8. CASE q.op # "reload"
    <2>1. /\ status' = [status EXCEPT ![i] = "unloaded"] /\ plugins' = [plugins EXCEPT ![nameOf[i]] = NoPlugin]
          /\ Goes(c, q.todo)
      BY <1>1, <1>2, <1>8 DEF CleanupEnds, SetStatus
    <2>2. "unloaded" \in Statuses
      BY DEF Statuses
    <2>3. plugins \in [PluginNames -> (1 .. Len(status)) \cup {NoPlugin}] /\ nameOf[i] \in PluginNames
      BY <1>5 DEF PMIndInv, InstancesBook
    <2>4. /\ plugins' \in [PluginNames -> (1 .. Len(status)) \cup {NoPlugin}]
          /\ \A n \in PluginNames : plugins'[n] = plugins[n] \/ plugins'[n] = NoPlugin
          /\ plugins'[nameOf[i]] = NoPlugin /\ \A n \in PluginNames \ {nameOf[i]} : plugins'[n] = plugins[n]
      BY <2>1, <2>3
    <2>5. InstancesBook' /\ Len(status') = Len(status)
      BY <1>3, <2>1, <2>2, <2>4, StatusChanges DEF PMIndInv
    <2>6. q.op = "stop" => \A n \in ToSet(q.batch) :
              n \in ToSet(q.todo) \/ plugins'[n] = NoPlugin \/ n \in contested' \cup refused'
      <3> SUFFICES ASSUME q.op = "stop", NEW n \in ToSet(q.batch)
                   PROVE  n \in ToSet(q.todo) \/ plugins'[n] = NoPlugin \/ n \in contested' \cup refused'
        OBVIOUS
      <3>1. StopDone(q, n) /\ n \in PluginNames
        BY <1>1, <1>4, CallerKeeps DEF RecordOK
      <3> QED
        BY <1>2, <1>3, <2>4, <3>1 DEF StopDone
    <2> QED
      BY <1>1, <1>3, <1>4, <1>5, <2>1, <2>4, <2>5, <2>6, RegistryStays, GoesKeeps
  <1> QED
    BY <1>7, <1>8

\* The record of a call that begins.
LEMMA CalledIsRight ==
  ASSUME NEW op \in {"load", "unload", "reload", "stop"}, NEW batch \in Seq(PluginNames)
  PROVE  /\ Called(op, batch) \in CallRecords /\ Called(op, batch).op = op /\ Called(op, batch).batch = batch
         /\ Called(op, batch).todo = <<>>
  <1>1. NoCall \in CallRecords /\ NoCall.todo = <<>>
    BY NoCallIsRight
  <1> QED
    BY <1>1 DEF Called, CallRecords

\* A batch of one name.
LEMMA OneName ==
  ASSUME NEW n \in PluginNames
  PROVE  <<n>> \in Seq(PluginNames) /\ ToSet(<<n>>) = {n} /\ <<>> \in Seq(PluginNames) /\ ToSet(<<>>) = {}
  BY DEF ToSet

\* load_plugin keeps the invariant.
LEMMA LoadPluginKeeps ==
  ASSUME PMIndInv, NEW c \in PluginCallers, NEW n \in PluginNames, LoadPlugin(c, n) PROVE PMIndInv'
  <1> DEFINE q == Called("load", <<n>>)
             todo == <<>>
  <1>1. /\ q \in CallRecords /\ q.op = "load" /\ q.batch = <<n>> /\ ToSet(q.batch) = {n}
        /\ todo \in Seq(PluginNames) /\ ToSet(todo) \subseteq ToSet(q.batch)
    BY CalledIsRight, OneName
  <1>2. /\ Contest(c, ToSet(q.batch)) /\ CreateAndLoad(c, n, q, todo)
        /\ UNCHANGED <<dependencies, dependents, refused>>
    BY <1>1 DEF LoadPlugin
  <1>3. todo = <<>>
    OBVIOUS
  <1> HIDE DEF q, todo
  <1>4. Working(c, ToSet(q.batch))
    BY <1>2, ContestWorks
  <1> QED
    BY <1>1, <1>2, <1>3, <1>4, CreateKeeps

\* A batch begins: its order is that of the names, which work of others contests.
LEMMA BatchKeeps ==
  ASSUME PMIndInv, NEW c \in PluginCallers, NEW op \in {"load", "stop"}, NEW order \in Seq(PluginNames), order # <<>>,
         call' = [call EXCEPT ![c] = [Called(op, order) EXCEPT !.at = "next", !.todo = order]],
         Contest(c, ToSet(order)),
         \A n \in PluginNames \ ToSet(order) : n \in refused => n \in refused' \/ plugins[n] = NoPlugin,
         UNCHANGED <<dependencies, dependents, plugins, status, nameOf>>
  PROVE  PMIndInv'
  <1> DEFINE q == Called(op, order)
             r == Rest(q, order)
  <1>1. q \in CallRecords /\ q.batch = order /\ q.inst = NoPlugin
    BY CalledIsRight DEF Called, NoCall
  <1>2. [q EXCEPT !.at = "next", !.todo = order] = [q EXCEPT !.at = "next", !.inst = NoPlugin, !.todo = order]
    BY <1>1 DEF CallRecords
  <1>3. r = [q EXCEPT !.at = "next", !.inst = NoPlugin, !.todo = order]
    BY DEF Rest
  <1>4. call' = [call EXCEPT ![c] = r]
    BY <1>2, <1>3
  <1> HIDE DEF q
  <1>5. RecordOK(r)' /\ ToSet(r.batch) \subseteq ToSet(order)
    BY <1>1, RestKeeps
  <1> HIDE DEF r
  <1>6. Working(c, ToSet(order))
    BY ContestWorks
  <1>7. RegistryOK' /\ InstancesBook'
    BY DEF PMIndInv, RegistryOK, InstancesBook
  <1> QED
    BY <1>4, <1>5, <1>6, <1>7, StepKeeps

\* So does load_plugins, whose batch is an order of all the names.
LEMMA LoadPluginsKeeps ==
  ASSUME PMIndInv, NEW c \in PluginCallers, NEW names \in SetToSeqs(PluginNames), LoadPlugins(c, names)
  PROVE  PMIndInv'
  <1>1. names \in Seq(PluginNames) /\ ToSet(names) = PluginNames
    BY PluginAssumption, OrdersOfSet
  <1>2. PICK result : result = LoadOrder(names, DependsOn)
    OBVIOUS
  <1>3. /\ ~result.cyclic /\ Contest(c, PluginNames) /\ UNCHANGED <<dependencies, dependents, plugins, status, nameOf, refused>>
        /\ call' = [call EXCEPT ![c] = [Called("load", result.order) EXCEPT !.at = "next", !.todo = result.order]]
    BY <1>1, <1>2 DEF LoadPlugins
  <1>4. result \in Orders(PluginNames) /\ ToSet(result.order) = PluginNames
    BY <1>1, <1>2, <1>3, PluginAssumption, LoadOrderIsRight
  <1>5. PICK order : order = result.order
    OBVIOUS
  <1>6. order \in Seq(PluginNames) /\ ToSet(order) = PluginNames /\ order # <<>>
    BY <1>4, <1>5, PluginAssumption DEF Orders, ToSet
  <1> QED
    BY <1>3, <1>5, <1>6, BatchKeeps

\* So does stop(): what it finds is still to come, and it takes back no excuse of a name that
\* others work on.
LEMMA StopManagerKeeps == ASSUME PMIndInv, NEW c \in PluginCallers, StopManager(c) PROVE PMIndInv'
  <1>1. PICK names : names = {n \in PluginNames : plugins[n] # NoPlugin}
    OBVIOUS
  <1>2. /\ names # {} /\ Contest(c, names) /\ UNCHANGED <<dependencies, dependents, plugins, status, nameOf>>
    BY <1>1 DEF StopManager
  <1>3. PICK order \in SetToSeqs(names) :
           call' = [call EXCEPT ![c] = [Called("stop", order) EXCEPT !.at = "next", !.todo = order]]
    BY <1>1 DEF StopManager
  <1>4. IsFiniteSet(names)
    BY <1>1, PluginAssumption, FS_Subset
  <1>5. order \in Seq(names) /\ ToSet(order) = names
    BY <1>4, OrdersOfSet
  <1>6. order \in Seq(PluginNames) /\ order # <<>>
    BY <1>1, <1>2, <1>5 DEF ToSet
  <1> QED
    BY <1>1, <1>2, <1>3, <1>5, <1>6, BatchKeeps

\* unload_plugin, for the only name of a call or for the next of a batch.
LEMMA UnloadKeeps ==
  ASSUME PMIndInv, NEW c \in PluginCallers, NEW n \in PluginNames, NEW q \in CallRecords, NEW todo \in Seq(PluginNames),
         BeginUnload(c, n, q, todo), n \in ToSet(q.batch), ToSet(todo) \subseteq ToSet(q.batch),
         q.op = "stop" => \A m \in ToSet(q.batch) :
             m = n \/ m \in ToSet(todo) \/ plugins[m] = NoPlugin \/ m \in contested \cup refused,
         Working(c, ToSet(q.batch)), UNCHANGED <<dependencies, dependents, plugins, nameOf, refused>>
  PROVE  PMIndInv'
  <1>1. PICK i : i = plugins[n]
    OBVIOUS
  <1>2. /\ i # NoPlugin /\ status' = [status EXCEPT ![i] = "unloading"]
        /\ call' = [call EXCEPT ![c] = Busy(q, "cleanup", i, todo)]
    BY <1>1 DEF BeginUnload, SetStatus, Busy
  <1>3. i \in 1 .. Len(status) /\ i \in Nat /\ nameOf[i] = n
    BY <1>1, <1>2 DEF PMIndInv, InstancesBook
  <1>4. "unloading" \in Statuses
    BY DEF Statuses
  <1> QED
    BY <1>1, <1>2, <1>3, <1>4, RegistryStays, WorkKeeps

\* So does unload_plugin.
LEMMA UnloadPluginKeeps ==
  ASSUME PMIndInv, NEW c \in PluginCallers, NEW n \in PluginNames, UnloadPlugin(c, n) PROVE PMIndInv'
  <1> DEFINE q == Called("unload", <<n>>)
             todo == <<>>
  <1>1. /\ q \in CallRecords /\ q.op = "unload" /\ ToSet(q.batch) = {n}
        /\ todo \in Seq(PluginNames) /\ ToSet(todo) \subseteq ToSet(q.batch)
    BY CalledIsRight, OneName
  <1>2. Contest(c, ToSet(q.batch)) /\ BeginUnload(c, n, q, todo) /\ UNCHANGED <<dependencies, dependents, plugins, nameOf, refused>>
    BY <1>1 DEF UnloadPlugin
  <1> HIDE DEF q, todo
  <1>3. Working(c, ToSet(q.batch))
    BY <1>2, ContestWorks
  <1> QED
    BY <1>1, <1>2, <1>3, UnloadKeeps

\* So does reload(), whatever the instance is in.
LEMMA ReloadKeeps ==
  ASSUME PMIndInv, NEW c \in PluginCallers, NEW n \in PluginNames, BeginReload(c, n), RegistryOK' PROVE PMIndInv'
  <1>1. PICK i : i = plugins[n]
    OBVIOUS
  <1> DEFINE q == Called("reload", <<n>>)
             todo == <<>>
  <1>2. /\ q \in CallRecords /\ q.op = "reload" /\ q.batch = <<n>> /\ ToSet(q.batch) = {n} /\ q.todo = todo
        /\ todo \in Seq(PluginNames) /\ ToSet(todo) \subseteq ToSet(q.batch)
    BY CalledIsRight, OneName
  <1>3. /\ i # NoPlugin /\ Contest(c, ToSet(q.batch)) /\ UNCHANGED <<plugins, nameOf, refused>>
    BY <1>1, <1>2 DEF BeginReload
  <1>4. i \in 1 .. Len(status) /\ i \in Nat /\ nameOf[i] = n
    BY <1>1, <1>3 DEF PMIndInv, InstancesBook
  <1>5. \/ /\ status' = [status EXCEPT ![i] = "unloading"]
           /\ call' = [call EXCEPT ![c] = [q EXCEPT !.at = "cleanup", !.inst = i]]
        \/ BeginLoad(c, i, q, <<>>)
    BY <1>1 DEF BeginReload, SetStatus
  <1>6. [q EXCEPT !.at = "cleanup", !.inst = i] = Busy(q, "cleanup", i, todo)
    BY <1>2 DEF Busy, CallRecords
  <1> HIDE DEF q, todo
  <1>7. Working(c, ToSet(q.batch))
    BY <1>3, ContestWorks
  <1>8. CASE BeginLoad(c, i, q, <<>>)
    BY <1>2, <1>3, <1>4, <1>7, <1>8, LoadKeeps
  <1>9. CASE /\ status' = [status EXCEPT ![i] = "unloading"]
             /\ call' = [call EXCEPT ![c] = [q EXCEPT !.at = "cleanup", !.inst = i]]
    <2>1. "unloading" \in Statuses /\ call' = [call EXCEPT ![c] = Busy(q, "cleanup", i, todo)]
      BY <1>6, <1>9 DEF Statuses
    <2> QED
      BY <1>1, <1>2, <1>3, <1>4, <1>7, <1>9, <2>1, WorkKeeps
  <1> QED
    BY <1>5, <1>8, <1>9

\* So does the next name of a batch.
LEMMA NextOfBatchKeeps == ASSUME PMIndInv, NEW c \in PluginCallers, NextOfBatch(c) PROVE PMIndInv'
  <1>1. PICK q : q = call[c]
    OBVIOUS
  <1>2. PICK n : n = Head(q.todo)
    OBVIOUS
  <1>3. PICK todo : todo = Tail(q.todo)
    OBVIOUS
  <1>4. q.at = "next" /\ UNCHANGED <<dependencies, dependents, contested>>
    BY <1>1 DEF NextOfBatch
  <1>5. /\ RecordOK(q) /\ q \in CallRecords /\ q.todo \in Seq(PluginNames) /\ q.todo # <<>>
        /\ ToSet(q.todo) \subseteq ToSet(q.batch) /\ WorksOn(c) = ToSet(q.batch)
    BY <1>1, <1>4, CallerKeeps DEF CallRecords, RecordOK
  <1>6. n \in PluginNames /\ todo \in Seq(PluginNames) /\ ToSet(q.todo) = {n} \cup ToSet(todo)
    <2>1. /\ q.todo[1] = n /\ Len(q.todo) \in Nat \ {0} /\ todo \in Seq(PluginNames) /\ Len(todo) = Len(q.todo) - 1
          /\ \A k \in 1 .. Len(todo) : todo[k] = q.todo[k + 1]
      BY <1>2, <1>3, <1>5
    <2>2. ToSet(q.todo) \subseteq {n} \cup ToSet(todo)
      <3> SUFFICES ASSUME NEW k \in 1 .. Len(q.todo), k # 1 PROVE q.todo[k] \in ToSet(todo)
        BY <1>5, <2>1 DEF ToSet
      <3>1. k - 1 \in 1 .. Len(todo) /\ (k - 1) + 1 = k
        BY <2>1
      <3>2. todo[k - 1] = q.todo[k]
        BY <2>1, <3>1
      <3>3. DOMAIN todo = 1 .. Len(todo)
        BY <2>1
      <3> QED
        BY <3>1, <3>2, <3>3 DEF ToSet
    <2>3. {n} \cup ToSet(todo) \subseteq ToSet(q.todo)
      BY <1>5, <2>1 DEF ToSet
    <2> QED
      BY <1>5, <2>1, <2>2, <2>3
  <1>7. n \in ToSet(q.batch) /\ ToSet(todo) \subseteq ToSet(q.batch)
    BY <1>5, <1>6
  <1>8. Working(c, ToSet(q.batch))
    BY <1>4, <1>5, WorksOnItsBatch
  <1>9. q.op = "stop" => \A m \in ToSet(q.batch) :
            m = n \/ m \in ToSet(todo) \/ plugins[m] = NoPlugin \/ m \in contested \cup refused
    BY <1>4, <1>5, <1>6 DEF RecordOK, StopDone
  <1>10. CASE q.op = "load" /\ CreateAndLoad(c, n, q, todo) /\ UNCHANGED refused
    BY <1>1, <1>4, <1>5, <1>6, <1>7, <1>8, <1>10, CreateKeeps
  <1>11. CASE q.op = "load" /\ Goes(c, todo) /\ UNCHANGED <<plugins, status, nameOf, refused>>
    <2>1. RegistryOK' /\ InstancesBook'
      BY <1>4, <1>11 DEF PMIndInv, RegistryOK, InstancesBook
    <2> QED
      BY <1>1, <1>4, <1>6, <1>7, <1>11, <2>1, GoesKeeps
  <1>12. CASE q.op = "stop" /\ BeginUnload(c, n, q, todo) /\ UNCHANGED <<plugins, nameOf, refused>>
    BY <1>4, <1>5, <1>6, <1>7, <1>8, <1>9, <1>12, UnloadKeeps
  <1>13. CASE /\ q.op = "stop" /\ Goes(c, todo) /\ UNCHANGED <<plugins, status, nameOf>>
              /\ refused' = IF plugins[n] = NoPlugin THEN refused ELSE refused \cup {n}
    <2>1. RegistryOK' /\ InstancesBook' /\ Len(status') = Len(status)
      BY <1>4, <1>13 DEF PMIndInv, RegistryOK, InstancesBook
    <2>2. \A m \in ToSet(q.batch) : m \in ToSet(todo) \/ plugins'[m] = NoPlugin \/ m \in contested' \cup refused'
      BY <1>4, <1>9, <1>13
    <2>3. refused \subseteq refused' /\ nameOf' = nameOf
      BY <1>13
    <2> QED
      BY <1>1, <1>4, <1>6, <1>7, <1>13, <2>1, <2>2, <2>3, GoesKeeps
  <1> QED
    BY <1>1, <1>2, <1>3, <1>10, <1>11, <1>12, <1>13 DEF NextOfBatch, PassOver

\* discover_plugins keeps the invariant.
LEMMA DiscoverKeeps ==
  ASSUME PMIndInv, NEW n \in PluginNames, NEW declared \in Declares[n], DiscoverPlugin(n, declared) PROVE PMIndInv'
  <1>1. RegistryOK'
    BY RegisterKeeps DEF DiscoverPlugin, PMIndInv
  <1>2. InstancesBook' /\ Len(status') = Len(status)
    BY DEF DiscoverPlugin, PMIndInv, InstancesBook
  <1> QED
    BY <1>1, <1>2, QuietKeeps DEF DiscoverPlugin

\* So do activate() and deactivate().
LEMMA ToggleKeeps ==
  ASSUME PMIndInv, NEW n \in PluginNames, Activate(n) \/ Deactivate(n) PROVE PMIndInv'
  <1>1. PICK i, s : s \in Statuses /\ status' = [status EXCEPT ![i] = s]
    BY DEF Activate, Deactivate, SetStatus, Statuses
  <1>2. UNCHANGED <<dependencies, dependents, plugins, nameOf, call, pluginCalls, refused, contested>>
    BY DEF Activate, Deactivate
  <1>3. InstancesBook' /\ Len(status') = Len(status)
    BY <1>1, <1>2, StatusChanges DEF PMIndInv, InstancesBook
  <1> QED
    BY <1>2, <1>3, RegistryStays, QuietKeeps

\* So do reload_plugin and reload_plugin_file.
LEMMA ReloadCallsKeep ==
  ASSUME PMIndInv, NEW c \in PluginCallers, NEW n \in PluginNames,
         ReloadPlugin(c, n) \/ \E declared \in Declares[n] : ReloadPluginFile(c, n, declared)
  PROVE  PMIndInv'
  <1>1. CASE ReloadPlugin(c, n)
    BY <1>1, RegistryStays, ReloadKeeps DEF ReloadPlugin
  <1>2. ASSUME NEW declared \in Declares[n], ReloadPluginFile(c, n, declared) PROVE PMIndInv'
    BY <1>2, RegisterKeeps, ReloadKeeps DEF ReloadPluginFile, PMIndInv
  <1> QED
    BY <1>1, <1>2

\* Every step of the manager keeps the invariant.
LEMMA PMStepKeeps == ASSUME PMIndInv, [PMNext]_pmVars PROVE PMIndInv'
  <1>1. CASE UNCHANGED pmVars
    <2>1. RegistryOK' /\ InstancesBook' /\ Len(status') = Len(status)
      BY <1>1 DEF pmVars, PMIndInv, RegistryOK, InstancesBook
    <2> QED
      BY <1>1, <2>1, QuietKeeps DEF pmVars
  <1>2. ASSUME NEW n \in PluginNames, NEW declared \in Declares[n], DiscoverPlugin(n, declared) PROVE PMIndInv'
    BY <1>2, DiscoverKeeps
  <1>3. ASSUME NEW n \in PluginNames, Activate(n) \/ Deactivate(n) PROVE PMIndInv'
    BY <1>3, ToggleKeeps
  <1>4. ASSUME NEW c \in PluginCallers, NEW n \in PluginNames,
               \/ LoadPlugin(c, n) \/ UnloadPlugin(c, n) \/ ReloadPlugin(c, n)
               \/ \E declared \in Declares[n] : ReloadPluginFile(c, n, declared)
        PROVE  PMIndInv'
    BY <1>4, LoadPluginKeeps, UnloadPluginKeeps, ReloadCallsKeep
  <1>5. ASSUME NEW c \in PluginCallers, NEW names \in SetToSeqs(PluginNames), LoadPlugins(c, names) PROVE PMIndInv'
    BY <1>5, LoadPluginsKeeps
  <1>6. ASSUME NEW c \in PluginCallers, StopManager(c) PROVE PMIndInv'
    BY <1>6, StopManagerKeeps
  <1>7. ASSUME NEW c \in PluginCallers, PluginStep(c) PROVE PMIndInv'
    BY <1>7, InitEndsKeeps, CleanupEndsKeeps, CleanupFailsKeeps, NextOfBatchKeeps DEF PluginStep
  <1> QED
    BY <1>1, <1>2, <1>3, <1>4, <1>5, <1>6, <1>7 DEF PMNext

\* The plugin manager keeps its books: the dependents are whoever declared a dependency, the
\* instance under a name is one of that name, calls that overlap on a name make it contested, and
\* what a stop() has passed over is gone or excused.
THEOREM ManagerIsConsistent == PMSpec => []PMIndInv
  BY PMInitially, PMStepKeeps, PTL DEF PMSpec

\* The registry of plugins is consistent, and resolve_load_order is right for any names and
\* dependencies: it puts dependencies first, and refuses only what has no such order.
THEOREM ManagerInOrder == PMSpec => []PMInv
  <1>1. PMIndInv => PMInv
    BY PMIndInvImplies, BatchIsInOrder DEF PMInv
  <1> QED
    BY <1>1, ManagerIsConsistent, PTL

-----------------------------------------------------------------------------
(* What a step does to the calls, and to the plugins *)

\* A cleanup begins to reload, or of a plugin that may be unloaded; a stop goes on or has reached all.
CallMoves(c) ==
    \E r : /\ call' = [call EXCEPT ![c] = r]
           /\ r.at = "cleanup" =>
                 r.op = "reload" \/ \E n \in PluginNames : plugins[n] # NoPlugin /\ MayUnload(n) /\ r.inst = plugins[n]
           /\ call[c].op = "stop" => r.op = "stop" \/
                 \A n \in ToSet(call[c].batch) : plugins'[n] = NoPlugin \/ n \in contested \cup refused'

\* A plugin that goes was unloaded.
PluginsMove ==
    \A n \in PluginNames \ contested :
       plugins[n] # NoPlugin /\ plugins'[n] = NoPlugin => status'[plugins[n]] = "unloaded"

\* A call that goes on, or ends with everybody reached.
LEMMA GoesMoves ==
  ASSUME PMIndInv, NEW c \in PluginCallers, NEW todo, Goes(c, todo),
         call[c].op = "stop" /\ todo = <<>> =>
             \A n \in ToSet(call[c].batch) : plugins'[n] = NoPlugin \/ n \in contested \cup refused'
  PROVE  CallMoves(c)
  <1>1. PICK q : q = call[c]
    OBVIOUS
  <1>2. PICK r : r = Rest(q, todo)
    OBVIOUS
  <1>3. call' = [call EXCEPT ![c] = r] /\ q \in CallRecords
    BY <1>1, <1>2, GoesToRest, CallerKeeps
  <1>4. r.at # "cleanup" /\ (todo # <<>> => r.op = q.op)
    BY <1>2, <1>3 DEF Rest, NoCall, CallRecords
  <1> QED
    BY <1>1, <1>3, <1>4 DEF CallMoves

\* A cleanup begins only of a plugin that no active one needs.
LEMMA UnloadMoves ==
  ASSUME PMIndInv, NEW c \in PluginCallers, NEW n \in PluginNames, NEW q \in CallRecords, NEW todo,
         BeginUnload(c, n, q, todo), call[c].op = "stop" => q.op = "stop"
  PROVE  CallMoves(c)
  <1>1. PICK i : i = plugins[n]
    OBVIOUS
  <1>2. PICK r : r = [q EXCEPT !.at = "cleanup", !.inst = i, !.todo = todo]
    OBVIOUS
  <1>3. i # NoPlugin /\ MayUnload(n) /\ call' = [call EXCEPT ![c] = r]
    BY <1>1, <1>2 DEF BeginUnload
  <1>4. r.op = q.op /\ r.inst = i
    BY <1>2 DEF CallRecords
  <1> QED
    BY <1>1, <1>3, <1>4 DEF CallMoves

\* A new instance takes nobody away.
LEMMA CreateMoves ==
  ASSUME PMIndInv, NEW c \in PluginCallers, NEW n \in PluginNames, NEW q \in CallRecords, NEW todo,
         CreateAndLoad(c, n, q, todo), call[c].op # "stop"
  PROVE  CallMoves(c) /\ PluginsMove
  <1>1. PICK i : i = Len(status) + 1
    OBVIOUS
  <1>2. /\ plugins' = [plugins EXCEPT ![n] = i]
        /\ \/ call' = [call EXCEPT ![c] = [q EXCEPT !.at = "init", !.inst = i, !.todo = todo]]
           \/ Goes(c, todo)
    BY <1>1 DEF CreateAndLoad
  <1>3. i \in Nat /\ i # NoPlugin /\ plugins = [m \in PluginNames |-> plugins[m]]
    BY <1>1, PluginAssumption DEF PMIndInv, InstancesBook
  <1>4. PluginsMove
    BY <1>2, <1>3 DEF PluginsMove
  <1>5. PICK r : r = [q EXCEPT !.at = "init", !.inst = i, !.todo = todo]
    OBVIOUS
  <1>6. r.at = "init"
    BY <1>5 DEF CallRecords
  <1>7. CASE call' = [call EXCEPT ![c] = r]
    BY <1>4, <1>6, <1>7 DEF CallMoves
  <1>8. CASE Goes(c, todo)
    BY <1>4, <1>8, GoesMoves
  <1> QED
    BY <1>2, <1>5, <1>7, <1>8

\* A call that is idle is none.
LEMMA IdleIsNone == ASSUME PMIndInv, NEW c \in PluginCallers, call[c].at = "idle" PROVE call[c].op # "stop"
  BY CallerKeeps DEF RecordOK, NoCall

\* Nobody leaves when nothing changes.
LEMMA PluginsStay == ASSUME UNCHANGED plugins PROVE PluginsMove
  BY DEF PluginsMove

\* A reload cleans up without taking the plugin away.
LEMMA ReloadMoves ==
  ASSUME PMIndInv, NEW c \in PluginCallers, NEW q \in CallRecords, q.op = "reload", NEW i, call[c].op # "stop",
         \/ BeginLoad(c, i, q, <<>>)
         \/ call' = [call EXCEPT ![c] = [q EXCEPT !.at = "cleanup", !.inst = i]]
  PROVE  CallMoves(c)
  <1>1. PICK r : r = [q EXCEPT !.at = "init", !.inst = i, !.todo = <<>>]
    OBVIOUS
  <1>2. PICK u : u = [q EXCEPT !.at = "cleanup", !.inst = i]
    OBVIOUS
  <1>3. r.at = "init" /\ u.op = "reload"
    BY <1>1, <1>2 DEF CallRecords
  <1>4. CASE Goes(c, <<>>)
    BY <1>4, GoesMoves
  <1>5. CASE call' = [call EXCEPT ![c] = r]
    BY <1>3, <1>5 DEF CallMoves
  <1>6. CASE call' = [call EXCEPT ![c] = u]
    BY <1>3, <1>6 DEF CallMoves
  <1> QED
    BY <1>1, <1>2, <1>4, <1>5, <1>6 DEF BeginLoad

\* What the steps of a call do.
LEMMA StepsMove ==
  ASSUME PMIndInv, NEW c \in PluginCallers, PluginStep(c)
  PROVE  CallMoves(c) /\ PluginsMove
  <1>1. PICK q : q = call[c]
    OBVIOUS
  <1>2. PICK i : i = q.inst
    OBVIOUS
  <1>3. RecordOK(q) /\ q \in CallRecords /\ ToSet(q.batch) \subseteq PluginNames
    BY <1>1, CallerKeeps
  <1>4. CASE InitEnds(c)
    <2>1. q.at = "init" /\ Goes(c, q.todo) /\ UNCHANGED <<plugins, refused>>
      BY <1>1, <1>4 DEF InitEnds
    <2>2. q.op = "stop" /\ q.todo = <<>> => \A n \in ToSet(q.batch) : plugins'[n] = NoPlugin \/ n \in contested \cup refused'
      BY <1>3, <2>1 DEF RecordOK, StopDone, ToSet
    <2> QED
      BY <1>1, <2>1, <2>2, GoesMoves, PluginsStay
  <1>5. CASE CleanupFails(c)
    <2>1. q.at = "cleanup" /\ Goes(c, q.todo) /\ UNCHANGED plugins /\ refused' = refused \cup {nameOf[q.inst]}
      BY <1>1, <1>5 DEF CleanupFails
    <2>2. q.op = "stop" /\ q.todo = <<>> => \A n \in ToSet(q.batch) : plugins'[n] = NoPlugin \/ n \in contested \cup refused'
      BY <1>3, <2>1 DEF RecordOK, StopDone, ToSet
    <2> QED
      BY <1>1, <2>1, <2>2, GoesMoves, PluginsStay
  <1>6. CASE CleanupEnds(c) /\ q.op = "reload"
    <2>1. BeginLoad(c, i, q, <<>>) /\ UNCHANGED plugins
      BY <1>1, <1>2, <1>6 DEF CleanupEnds
    <2> QED
      BY <1>1, <1>3, <1>6, <2>1, ReloadMoves, PluginsStay
  <1>7. CASE CleanupEnds(c) /\ q.op # "reload"
    <2>1. /\ q.at = "cleanup" /\ status' = [status EXCEPT ![i] = "unloaded"] /\ UNCHANGED refused
          /\ plugins' = [plugins EXCEPT ![nameOf[i]] = NoPlugin] /\ Goes(c, q.todo)
      BY <1>1, <1>2, <1>7 DEF CleanupEnds, SetStatus
    <2>2. /\ i \in 1 .. Len(status) /\ (plugins[nameOf[i]] = i \/ nameOf[i] \in contested)
          /\ status \in Seq(Statuses) /\ plugins = [m \in PluginNames |-> plugins[m]] /\ nameOf[i] \in PluginNames
      BY <1>2, <1>3, <2>1 DEF RecordOK, PMIndInv, InstancesBook
    <2>3. status'[i] = "unloaded" /\ \A n \in PluginNames : plugins'[n] = IF n = nameOf[i] THEN NoPlugin ELSE plugins[n]
      BY <2>1, <2>2
    <2>4. PluginsMove
      BY <2>2, <2>3 DEF PluginsMove
    <2>5. q.op = "stop" /\ q.todo = <<>> => \A n \in ToSet(q.batch) : plugins'[n] = NoPlugin \/ n \in contested \cup refused'
      BY <1>2, <1>3, <2>1, <2>3 DEF RecordOK, StopDone, ToSet
    <2> QED
      BY <1>1, <2>1, <2>4, <2>5, GoesMoves
  <1>8. CASE NextOfBatch(c)
    <2>1. PICK n : n = Head(q.todo)
      OBVIOUS
    <2>2. PICK todo : todo = Tail(q.todo)
      OBVIOUS
    <2>3. q.at = "next" /\ q.todo \in Seq(PluginNames) /\ q.todo # <<>>
      BY <1>1, <1>3, <1>8 DEF NextOfBatch, RecordOK, CallRecords
    <2>4. n \in PluginNames /\ (todo = <<>> => ToSet(q.todo) = {n})
      <3>1. n = q.todo[1] /\ n \in PluginNames /\ Len(q.todo) \in Nat \ {0} /\ Len(todo) = Len(q.todo) - 1
        BY <2>1, <2>2, <2>3
      <3>2. todo = <<>> => DOMAIN q.todo = {1}
        BY <2>3, <3>1
      <3> QED
        BY <3>1, <3>2 DEF ToSet
    <2>5. CASE q.op = "load" /\ CreateAndLoad(c, n, q, todo)
      BY <1>1, <1>3, <2>4, <2>5, CreateMoves
    <2>6. CASE q.op = "load" /\ Goes(c, todo) /\ UNCHANGED plugins
      BY <1>1, <2>6, GoesMoves, PluginsStay
    <2>7. CASE q.op = "stop" /\ BeginUnload(c, n, q, todo) /\ UNCHANGED plugins
      BY <1>1, <1>3, <2>4, <2>7, UnloadMoves, PluginsStay
    <2>8. CASE /\ q.op = "stop" /\ Goes(c, todo) /\ UNCHANGED plugins
               /\ refused' = IF plugins[n] = NoPlugin THEN refused ELSE refused \cup {n}
      <3>1. todo = <<>> => \A m \in ToSet(q.batch) : plugins'[m] = NoPlugin \/ m \in contested \cup refused'
        BY <1>3, <2>3, <2>4, <2>8 DEF RecordOK, StopDone
      <3> QED
        BY <1>1, <2>8, <3>1, GoesMoves, PluginsStay
    <2> QED
      BY <1>1, <1>8, <2>1, <2>2, <2>5, <2>6, <2>7, <2>8 DEF NextOfBatch, PassOver
  <1> QED
    BY <1>4, <1>5, <1>6, <1>7, <1>8 DEF PluginStep

\* What any step of the manager does.
LEMMA CallsMove ==
  ASSUME PMIndInv, [PMNext]_pmVars
  PROVE  PluginsMove /\ (call' = call \/ \E c \in PluginCallers : CallMoves(c))
  <1>1. CASE UNCHANGED <<plugins, call>>
    BY <1>1, PluginsStay
  <1>2. ASSUME NEW c \in PluginCallers, NEW n \in PluginNames, LoadPlugin(c, n) PROVE CallMoves(c) /\ PluginsMove
    <2>1. PICK q : q = Called("load", <<n>>)
      OBVIOUS
    <2>2. q \in CallRecords /\ CreateAndLoad(c, n, q, <<>>) /\ call[c].at = "idle"
      BY <1>2, <2>1, CalledIsRight, OneName DEF LoadPlugin, MayCall
    <2> QED
      BY <2>2, IdleIsNone, CreateMoves
  <1>3. ASSUME NEW c \in PluginCallers, NEW n \in PluginNames, UnloadPlugin(c, n) PROVE CallMoves(c) /\ PluginsMove
    <2>1. PICK q : q = Called("unload", <<n>>)
      OBVIOUS
    <2>2. q \in CallRecords /\ BeginUnload(c, n, q, <<>>) /\ call[c].at = "idle" /\ UNCHANGED plugins
      BY <1>3, <2>1, CalledIsRight, OneName DEF UnloadPlugin, MayCall
    <2> QED
      BY <2>2, IdleIsNone, UnloadMoves, PluginsStay
  <1>4. ASSUME NEW c \in PluginCallers, NEW n \in PluginNames, BeginReload(c, n), call[c].at = "idle"
        PROVE  CallMoves(c) /\ PluginsMove
    <2>1. PICK q : q = Called("reload", <<n>>)
      OBVIOUS
    <2>2. PICK i : i = plugins[n]
      OBVIOUS
    <2>3. q \in CallRecords /\ q.op = "reload" /\ UNCHANGED plugins
      BY <1>4, <2>1, CalledIsRight, OneName DEF BeginReload
    <2>4. BeginLoad(c, i, q, <<>>) \/ call' = [call EXCEPT ![c] = [q EXCEPT !.at = "cleanup", !.inst = i]]
      BY <1>4, <2>1, <2>2 DEF BeginReload
    <2> QED
      BY <1>4, <2>3, <2>4, IdleIsNone, ReloadMoves, PluginsStay
  <1>5. ASSUME NEW c \in PluginCallers, NEW op \in {"load", "stop"}, NEW order, call[c].at = "idle",
               call' = [call EXCEPT ![c] = [Called(op, order) EXCEPT !.at = "next", !.todo = order]]
        PROVE  CallMoves(c)
    <2>1. PICK r : r = [Called(op, order) EXCEPT !.at = "next", !.todo = order]
      OBVIOUS
    <2>2. r.at = "next"
      BY <2>1 DEF Called, NoCall
    <2> QED
      BY <1>5, <2>1, <2>2, IdleIsNone DEF CallMoves
  <1>6. ASSUME NEW c \in PluginCallers, StopManager(c) PROVE CallMoves(c) /\ PluginsMove
    BY <1>5, <1>6, PluginsStay DEF StopManager, MayCall
  <1>7. ASSUME NEW c \in PluginCallers, NEW names, LoadPlugins(c, names) PROVE CallMoves(c) /\ PluginsMove
    BY <1>5, <1>7, PluginsStay DEF LoadPlugins, MayCall
  <1>8. ASSUME NEW n \in PluginNames,
               (\E declared \in Declares[n] : DiscoverPlugin(n, declared)) \/ Activate(n) \/ Deactivate(n)
        PROVE  UNCHANGED <<plugins, call>>
    BY <1>8 DEF DiscoverPlugin, Activate, Deactivate
  <1>9. ASSUME NEW c \in PluginCallers, NEW n \in PluginNames,
               ReloadPlugin(c, n) \/ \E declared \in Declares[n] : ReloadPluginFile(c, n, declared)
        PROVE  CallMoves(c) /\ PluginsMove
    BY <1>4, <1>9 DEF ReloadPlugin, ReloadPluginFile, MayCall
  <1>10. UNCHANGED pmVars => UNCHANGED <<plugins, call>>
    BY DEF pmVars
  <1> QED
    BY <1>1, <1>2, <1>3, <1>6, <1>7, <1>8, <1>9, <1>10, StepsMove DEF PMNext

\* A cleanup that begins spares the active dependents.
LEMMA UnloadSpares ==
  ASSUME PMIndInv, [PMNext]_pmVars, NEW c \in PluginCallers, call[c].at # "cleanup", call'[c].at = "cleanup",
         call'[c].op # "reload", NEW d \in DOMAIN dependencies, nameOf[call'[c].inst] \in dependencies[d],
         plugins[d] # NoPlugin
  PROVE  status[plugins[d]] # "active"
  <1>1. PICK b \in PluginCallers : CallMoves(b)
    BY CallsMove
  <1>2. PICK r : /\ call' = [call EXCEPT ![b] = r]
                 /\ r.at = "cleanup" => r.op = "reload" \/
                       \E n \in PluginNames : plugins[n] # NoPlugin /\ MayUnload(n) /\ r.inst = plugins[n]
    BY <1>1 DEF CallMoves
  <1>3. b = c /\ call'[c] = r
    BY <1>2 DEF PMIndInv
  <1>4. PICK n \in PluginNames : plugins[n] # NoPlugin /\ MayUnload(n) /\ r.inst = plugins[n]
    BY <1>2, <1>3
  <1>5. nameOf[r.inst] = n
    BY <1>4 DEF PMIndInv, InstancesBook
  <1>6. d \in dependents[n]
    BY <1>3, <1>5 DEF PMIndInv, RegistryOK
  <1> QED
    BY <1>4, <1>6 DEF MayUnload, ActiveDependents

\* unload_plugin and stop() begin no cleanup of a plugin that an active one declares as a
\* dependency, whatever was registered before.
THEOREM UnloadingSparesDependents == PMSpec => UnloadSparesDependents
  <1>1. PMIndInv /\ [PMNext]_pmVars =>
           [\A c \in PluginCallers :
               call[c].at # "cleanup" /\ call'[c].at = "cleanup" /\ call'[c].op # "reload" =>
                  \A d \in DOMAIN dependencies :
                     nameOf[call'[c].inst] \in dependencies[d] /\ plugins[d] # NoPlugin
                        => status[plugins[d]] # "active"]_pmVars
    BY UnloadSpares
  <1> QED
    BY <1>1, ManagerIsConsistent, PTL DEF PMSpec, UnloadSparesDependents

\* A stop that ends has reached its batch.
LEMMA StopReaches ==
  ASSUME PMIndInv, [PMNext]_pmVars, NEW c \in PluginCallers, call[c].op = "stop", call'[c].op # "stop",
         NEW n \in ToSet(call[c].batch) \ (contested \cup refused')
  PROVE  plugins'[n] = NoPlugin
  <1>1. PICK b \in PluginCallers : CallMoves(b)
    BY CallsMove
  <1>2. PICK r : /\ call' = [call EXCEPT ![b] = r]
                 /\ call[b].op = "stop" => r.op = "stop" \/
                       \A m \in ToSet(call[b].batch) : plugins'[m] = NoPlugin \/ m \in contested \cup refused'
    BY <1>1 DEF CallMoves
  <1>3. b = c /\ call'[c] = r
    BY <1>2 DEF PMIndInv
  <1> QED
    BY <1>2, <1>3

\* A stop() returns with the plugins it found gone, but for those it may leave.
THEOREM StoppingReachesAll == PMSpec => StopReachesAll
  <1>1. PMIndInv /\ [PMNext]_pmVars =>
           [\A c \in PluginCallers :
               call[c].op = "stop" /\ call'[c].op # "stop" =>
                  \A n \in ToSet(call[c].batch) \ (contested \cup refused') : plugins'[n] = NoPlugin]_pmVars
    BY StopReaches
  <1> QED
    BY <1>1, ManagerIsConsistent, PTL DEF PMSpec, StopReachesAll

\* A plugin leaves the registry only when its own cleanup succeeded, unless calls for its name
\* overlap.
THEOREM UnloadedOnlyLeave == PMSpec => OnlyUnloadedLeave
  <1>1. PMIndInv /\ [PMNext]_pmVars =>
           [\A n \in PluginNames \ contested :
               plugins[n] # NoPlugin /\ plugins'[n] = NoPlugin => status'[plugins[n]] = "unloaded"]_pmVars
    BY CallsMove DEF PluginsMove
  <1> QED
    BY <1>1, ManagerIsConsistent, PTL DEF PMSpec, OnlyUnloadedLeave

-----------------------------------------------------------------------------
(* The files of plugins *)

-----------------------------------------------------------------------------
(* Plugin files *)

\* The books of instances; a file that is loaded has one of its own that was not cleaned up.
InstancesOK ==
    /\ made \in Seq(Files) /\ offers \in Seq(UNION {CommandsOf[f] : f \in Files}) /\ cleaned \in Seq(Nat)
    /\ Len(offers) = Len(made) /\ Len(cleaned) = Len(made)
    /\ \A i \in 1 .. Len(made) : offers[i] \in CommandsOf[made[i]] /\ cleaned[i] <= 1

Live(i) == made[i] \in DOMAIN loadedPlugins /\ loadedPlugins[made[i]] = i

LoadedOK ==
    /\ loadedPlugins = [f \in DOMAIN loadedPlugins |-> loadedPlugins[f]]
    /\ DOMAIN loadedPlugins \subseteq Files /\ pluginFiles \subseteq Files
    /\ \A f \in DOMAIN loadedPlugins :
          /\ loadedPlugins[f] \in 1 .. Len(made) /\ made[loadedPlugins[f]] = f
          /\ cleaned[loadedPlugins[f]] = 0
    /\ DOMAIN loadedPlugins \ crossed \subseteq pluginFiles
    /\ \A i \in 1 .. Len(made) : cleaned[i] = 0 => Live(i) \/ made[i] \in crossed

CommandsOK ==
    /\ commands = [x \in DOMAIN commands |-> commands[x]]
    /\ \A x \in DOMAIN commands :
          /\ commands[x] \in 1 .. Len(made) /\ x \in offers[commands[x]]
          /\ Live(commands[x]) \/ made[commands[x]] \in crossed
    /\ \A f \in DOMAIN loadedPlugins \ crossed :
       \A x \in offers[loadedPlugins[f]] \ OfferedByOthers(f) :
          x \in DOMAIN commands /\ commands[x] = loadedPlugins[f]

\* A file is loaded by one task, and not loaded meanwhile, unless it was crossed.
LoadingOK ==
    /\ loading \in [LoaderTasks -> Files \cup {NoVersion}]
    /\ \A t \in LoaderTasks : loading[t] # NoVersion /\ loading[t] \notin crossed =>
          /\ loading[t] \notin DOMAIN loadedPlugins
          /\ \A o \in LoaderTasks : loading[o] = loading[t] => o = t

FilesIndInv == InstancesOK /\ LoadedOK /\ CommandsOK /\ LoadingOK

\* The invariant of the plugin files gives what is promised of them.
LEMMA FilesIndInvImplies == FilesIndInv => FilesInv
  <1> SUFFICES ASSUME FilesIndInv PROVE FilesInv
    OBVIOUS
  <1>1. FilesTypeOK
    BY DEF FilesIndInv, LoadedOK, CommandsOK, FilesTypeOK
  <1>2. CommandsFollowPlugins
    BY DEF FilesIndInv, CommandsOK, CommandsFollowPlugins, Live, Loaded
  <1>3. CleanedOnce
    BY DEF FilesIndInv, InstancesOK, LoadedOK, CleanedOnce, Live
  <1> QED
    BY <1>1, <1>2, <1>3 DEF FilesInv

\* It holds initially.
LEMMA FilesInitially == FilesInit => FilesIndInv
  BY FilesAssumption DEF FilesInit, FilesIndInv, InstancesOK, LoadedOK, CommandsOK, LoadingOK, Live

\* Unloading some of the plugins: those that fail are crossed.
\* The files us are unloaded; the plugins of the files ok are cleaned up, the others stay.
LEMMA Unloading ==
  ASSUME FilesIndInv, NEW us \in SUBSET DOMAIN loadedPlugins, NEW ok \in SUBSET us,
         commands' = Less(commands, UNION {offers[loadedPlugins[f]] : f \in us}),
         loadedPlugins' = Less(loadedPlugins, ok),
         cleaned' \in Seq(Nat), Len(cleaned') = Len(cleaned),
         \A i \in 1 .. Len(made) :
            cleaned'[i] = IF \E f \in ok : loadedPlugins[f] = i THEN cleaned[i] + 1 ELSE cleaned[i],
         crossed \cup (us \ ok) \subseteq crossed',
         DOMAIN loadedPlugins' \ crossed' \subseteq pluginFiles', pluginFiles' \subseteq Files,
         UNCHANGED <<offers, made>>
  PROVE  InstancesOK' /\ LoadedOK' /\ CommandsOK'
  <1>0. InstancesOK /\ LoadedOK /\ CommandsOK
    BY DEF FilesIndInv
  <1>1. DOMAIN loadedPlugins' = DOMAIN loadedPlugins \ ok
        /\ \A f \in DOMAIN loadedPlugins' : loadedPlugins'[f] = loadedPlugins[f]
    BY DEF Less
  <1>2. DOMAIN commands' = DOMAIN commands \ UNION {offers[loadedPlugins[f]] : f \in us}
        /\ \A x \in DOMAIN commands' : commands'[x] = commands[x]
    BY DEF Less
  <1>3. \A i \in 1 .. Len(made) : cleaned[i] \in Nat /\ made[i] \in Files
    BY <1>0 DEF InstancesOK
  <1>4. InstancesOK'
    BY <1>0, <1>3 DEF InstancesOK, LoadedOK
  <1>5. ASSUME NEW i \in 1 .. Len(made), Live(i)
        PROVE  \/ Live(i)' /\ cleaned'[i] = cleaned[i]
               \/ made[i] \in ok /\ cleaned'[i] = 1
    BY <1>0, <1>1, <1>3, <1>5 DEF Live, LoadedOK
  <1>6. LoadedOK'
    <2>1. loadedPlugins' = [f \in DOMAIN loadedPlugins' |-> loadedPlugins'[f]]
          /\ DOMAIN loadedPlugins' \subseteq Files
      BY <1>0 DEF Less, LoadedOK
    <2>2. ASSUME NEW f \in DOMAIN loadedPlugins'
          PROVE  /\ loadedPlugins'[f] \in 1 .. Len(made) /\ made[loadedPlugins'[f]] = f
                 /\ cleaned'[loadedPlugins'[f]] = 0
      BY <1>0, <1>1 DEF LoadedOK
    <2>3. ASSUME NEW i \in 1 .. Len(made), cleaned'[i] = 0 PROVE Live(i)' \/ made[i] \in crossed'
      <3>1. cleaned[i] = 0
        BY <1>3, <2>3
      <3>2. Live(i) \/ made[i] \in crossed
        BY <1>0, <3>1 DEF LoadedOK
      <3> QED
        BY <1>5, <2>3, <3>2
    <2> QED
      BY <2>1, <2>2, <2>3 DEF LoadedOK
  <1>7. CommandsOK'
    <2>1. commands' = [x \in DOMAIN commands' |-> commands'[x]]
      BY DEF Less
    <2>2. ASSUME NEW x \in DOMAIN commands', NEW k, k = commands'[x]
          PROVE  /\ k \in 1 .. Len(made) /\ x \in offers[k]
                 /\ Live(k)' \/ made[k] \in crossed'
      <3>1. /\ x \in DOMAIN commands /\ k = commands[x]
            /\ k \in 1 .. Len(made) /\ x \in offers[k]
            /\ Live(k) \/ made[k] \in crossed
        BY <1>0, <1>2, <2>2 DEF CommandsOK
      <3>2. CASE made[k] \in crossed
        BY <3>1, <3>2
      <3>3. CASE Live(k)
        <4>1. made[k] \notin ok
          BY <1>2, <3>1, <3>3 DEF Live
        <4> QED
          BY <1>5, <3>1, <3>3, <4>1
      <3> QED
        BY <3>1, <3>2, <3>3
    <2>3. ASSUME NEW f \in DOMAIN loadedPlugins' \ crossed',
                 NEW x \in offers[loadedPlugins'[f]] \ OfferedByOthers(f)
          PROVE  x \in DOMAIN commands' /\ commands'[x] = loadedPlugins'[f]
      <3>1. /\ f \in DOMAIN loadedPlugins \ crossed /\ f \notin us /\ f \in Files
            /\ loadedPlugins'[f] = loadedPlugins[f]
        BY <1>0, <1>1 DEF LoadedOK
      <3>2. x \in DOMAIN commands /\ commands[x] = loadedPlugins[f]
        BY <1>0, <3>1 DEF CommandsOK
      <3>3. ASSUME NEW g \in us PROVE x \notin offers[loadedPlugins[g]]
        <4>1. g \in Files /\ g # f /\ offers[loadedPlugins[g]] \in CommandsOf[g]
          BY <1>0, <3>1 DEF LoadedOK, InstancesOK
        <4> QED
          BY <4>1 DEF OfferedByOthers
      <3> QED
        BY <1>2, <3>1, <3>2, <3>3
    <2> QED
      BY <2>1, <2>2, <2>3 DEF CommandsOK, OfferedByOthers
  <1> QED
    BY <1>4, <1>6, <1>7

\* The same for one plugin.
LEMMA UnloadingOne ==
  ASSUME FilesIndInv, NEW f \in DOMAIN loadedPlugins, NEW ok \in BOOLEAN, Unloads(f, ok),
         crossed \subseteq crossed', ~ok => f \in crossed',
         DOMAIN loadedPlugins' \ crossed' \subseteq pluginFiles', pluginFiles' \subseteq Files,
         UNCHANGED <<offers, made>>
  PROVE  /\ InstancesOK' /\ LoadedOK' /\ CommandsOK'
         /\ DOMAIN loadedPlugins' \subseteq DOMAIN loadedPlugins
         /\ ok => f \notin DOMAIN loadedPlugins'
  <1> DEFINE done == IF ok THEN {f} ELSE {}
  <1>0. InstancesOK /\ LoadedOK
    BY DEF FilesIndInv
  <1>1. loadedPlugins' = Less(loadedPlugins, done)
    BY <1>0 DEF Unloads, Less, LoadedOK
  <1>2. commands' = Less(commands, UNION {offers[loadedPlugins[g]] : g \in {f}})
    BY DEF Unloads
  <1>3. /\ cleaned' \in Seq(Nat) /\ Len(cleaned') = Len(cleaned)
        /\ \A i \in 1 .. Len(made) :
            cleaned'[i] = IF \E g \in done : loadedPlugins[g] = i THEN cleaned[i] + 1 ELSE cleaned[i]
    BY <1>0 DEF Unloads, InstancesOK, LoadedOK
  <1>4. done \in SUBSET {f} /\ {f} \in SUBSET DOMAIN loadedPlugins /\ crossed \cup ({f} \ done) \subseteq crossed'
    OBVIOUS
  <1>5. DOMAIN loadedPlugins' = DOMAIN loadedPlugins \ done
    BY <1>1 DEF Less
  <1>6. InstancesOK' /\ LoadedOK' /\ CommandsOK'
    <2> HIDE DEF done
    <2> QED
      BY <1>1, <1>2, <1>3, <1>4, Unloading
  <1> QED
    BY <1>5, <1>6

\* Every step of the loader keeps it.
LEMMA FilesKeep == FilesIndInv /\ [FilesNext]_filesVars => FilesIndInv'
  <1> SUFFICES ASSUME FilesIndInv, [FilesNext]_filesVars PROVE FilesIndInv'
    OBVIOUS
  <1>0. InstancesOK /\ LoadedOK /\ CommandsOK /\ LoadingOK
    BY DEF FilesIndInv
  \* Nothing of the books but crossed changes, which only grows.
  <1>a. ASSUME UNCHANGED <<loadedPlugins, pluginFiles, commands, offers, made, cleaned>>, crossed \subseteq crossed'
        PROVE  InstancesOK' /\ LoadedOK' /\ CommandsOK'
    BY <1>0, <1>a DEF InstancesOK, LoadedOK, CommandsOK, Live, OfferedByOthers
  \* No task begins to load, and what is loading is not loaded.
  <1>b. ASSUME loading' = loading, crossed \subseteq crossed', DOMAIN loadedPlugins' \subseteq DOMAIN loadedPlugins
        PROVE  LoadingOK'
    BY <1>0, <1>b DEF LoadingOK
  <1>1. CASE UNCHANGED filesVars
    BY <1>0, <1>1, <1>a, <1>b DEF filesVars, FilesIndInv
  <1>2. ASSUME NEW t \in LoaderTasks, NEW f \in Files, StartLoad(t, f) PROVE FilesIndInv'
    <2>1. /\ loading' = [loading EXCEPT ![t] = f] /\ loading[t] = NoVersion
          /\ UNCHANGED <<pluginFiles, offers, made>>
      BY <1>2 DEF StartLoad, MayStart
    <2>2. crossed \subseteq crossed' /\ ((\E o \in LoaderTasks : loading[o] = f) => f \in crossed')
      BY <1>2 DEF StartLoad, UnloadsIfLoaded
    <2>3. /\ InstancesOK' /\ LoadedOK' /\ CommandsOK'
          /\ DOMAIN loadedPlugins' \subseteq DOMAIN loadedPlugins
          /\ f \notin crossed' => f \notin DOMAIN loadedPlugins'
      <3>1. CASE Loaded(f)
        <4>1. PICK ok \in BOOLEAN : Unloads(f, ok) /\ (~ok => f \in crossed')
          BY <1>2, <2>2, <3>1 DEF StartLoad, UnloadsIfLoaded
        <4>2. /\ DOMAIN loadedPlugins' \ crossed' \subseteq pluginFiles' /\ pluginFiles' \subseteq Files
          BY <1>0, <2>1, <2>2, <4>1 DEF Unloads, Less, LoadedOK
        <4> QED
          BY <2>1, <2>2, <3>1, <4>1, <4>2, UnloadingOne DEF Loaded
      <3>2. CASE ~Loaded(f)
        <4>1. UNCHANGED <<commands, loadedPlugins, cleaned>>
          BY <1>2, <3>2 DEF StartLoad, UnloadsIfLoaded
        <4> QED
          BY <1>a, <2>1, <2>2, <3>2, <4>1 DEF Loaded
      <3> QED
        BY <3>1, <3>2
    <2>4. LoadingOK'
      BY <1>0, <2>1, <2>2, <2>3, FilesAssumption DEF LoadingOK
    <2> QED
      BY <2>3, <2>4 DEF FilesIndInv
  <1>3. ASSUME NEW t \in LoaderTasks, NEW f \in Files, Unload(t, f) PROVE FilesIndInv'
    <2>1. PICK ok \in BOOLEAN : /\ Unloads(f, ok) /\ crossed' = IF ok THEN crossed ELSE crossed \cup {f}
      BY <1>3 DEF Unload, UnloadsIfLoaded
    <2>2. /\ f \in DOMAIN loadedPlugins /\ UNCHANGED <<pluginFiles, offers, made, loading>>
          /\ crossed \subseteq crossed' /\ (~ok => f \in crossed')
      BY <1>3, <2>1 DEF Unload, Loaded
    <2>3. /\ DOMAIN loadedPlugins' \ crossed' \subseteq pluginFiles' /\ pluginFiles' \subseteq Files
      BY <1>0, <2>1, <2>2 DEF Unloads, Less, LoadedOK
    <2>4. InstancesOK' /\ LoadedOK' /\ CommandsOK' /\ DOMAIN loadedPlugins' \subseteq DOMAIN loadedPlugins
      BY <2>1, <2>2, <2>3, UnloadingOne
    <2> QED
      BY <1>b, <2>2, <2>4 DEF FilesIndInv
  <1>4. ASSUME NEW t \in LoaderTasks, NEW f \in Files, FileDeleted(t, f) PROVE FilesIndInv'
    <2>1. UNCHANGED <<offers, made, loading>> /\ crossed \subseteq crossed'
      BY <1>4 DEF FileDeleted
    <2>2. CASE f \in pluginFiles /\ Loaded(f)
      <3>1. PICK ok \in BOOLEAN :
               /\ Unloads(f, ok) /\ pluginFiles' = IF ok THEN pluginFiles \ {f} ELSE pluginFiles
               /\ crossed' = IF ok /\ \A o \in LoaderTasks : loading[o] # f THEN crossed ELSE crossed \cup {f}
        BY <1>4, <2>2 DEF FileDeleted
      <3>2. f \in DOMAIN loadedPlugins /\ (~ok => f \in crossed')
        BY <2>2, <3>1 DEF Loaded
      <3>3. /\ DOMAIN loadedPlugins' \ crossed' \subseteq pluginFiles' /\ pluginFiles' \subseteq Files
        BY <1>0, <2>1, <3>1 DEF Unloads, Less, LoadedOK
      <3>4. InstancesOK' /\ LoadedOK' /\ CommandsOK' /\ DOMAIN loadedPlugins' \subseteq DOMAIN loadedPlugins
        BY <2>1, <3>1, <3>2, <3>3, UnloadingOne
      <3> QED
        BY <1>b, <2>1, <3>4 DEF FilesIndInv
    <2>3. CASE ~(f \in pluginFiles /\ Loaded(f))
      <3>1. UNCHANGED <<pluginFiles, commands, loadedPlugins, cleaned>>
        BY <1>4, <2>3 DEF FileDeleted
      <3> QED
        BY <1>a, <1>b, <2>1, <3>1 DEF FilesIndInv
    <2> QED
      BY <2>2, <2>3
  <1>5. ASSUME NEW t \in LoaderTasks, LoadFails(t) PROVE FilesIndInv'
    <2>1. /\ loading' = [loading EXCEPT ![t] = NoVersion] /\ crossed' = crossed
          /\ UNCHANGED <<loadedPlugins, pluginFiles, commands, offers, made, cleaned>>
      BY <1>5 DEF LoadFails
    <2>2. LoadingOK'
      BY <1>0, <2>1, FilesAssumption DEF LoadingOK
    <2> QED
      BY <1>a, <2>1, <2>2 DEF FilesIndInv
  <1>6. ASSUME NEW t \in LoaderTasks, LoadSucceeds(t) PROVE FilesIndInv'
    <2>a. PICK f : f = loading[t]
      OBVIOUS
    <2>b. PICK i : i = Len(made) + 1
      OBVIOUS
    <2>1. PICK xs \in CommandsOf[f] :
             /\ offers' = Append(offers, xs) /\ made' = Append(made, f) /\ cleaned' = Append(cleaned, 0)
             /\ loadedPlugins' = [g \in DOMAIN loadedPlugins \cup {f} |-> IF g = f THEN i ELSE loadedPlugins[g]]
             /\ pluginFiles' = pluginFiles \cup {f}
             /\ commands' = [x \in DOMAIN commands \cup xs |-> IF x \in xs THEN i ELSE commands[x]]
      BY <1>0, <1>6, <2>a, <2>b DEF LoadSucceeds, Filed, InstancesOK
    <2>2. /\ f \in Files /\ f # NoVersion /\ crossed' = crossed
          /\ loading' = [loading EXCEPT ![t] = NoVersion]
      BY <1>0, <1>6, <2>a DEF LoadSucceeds, LoadingOK
    <2>3. f \notin crossed => f \notin DOMAIN loadedPlugins /\ \A o \in LoaderTasks : loading[o] = f => o = t
      BY <1>0, <2>2, <2>a DEF LoadingOK
    <2>4. /\ made' \in Seq(Files) /\ offers' \in Seq(UNION {CommandsOf[g] : g \in Files}) /\ cleaned' \in Seq(Nat)
          /\ Len(made') = i /\ Len(offers') = i /\ Len(cleaned') = i /\ i \in Nat /\ Len(made) \in Nat
          /\ 1 .. Len(made') = (1 .. Len(made)) \cup {i} /\ i \notin 1 .. Len(made)
          /\ made'[i] = f /\ offers'[i] = xs /\ cleaned'[i] = 0
          /\ \A k \in 1 .. Len(made) : made'[k] = made[k] /\ offers'[k] = offers[k] /\ cleaned'[k] = cleaned[k]
      <3>1. made \in Seq(Files) /\ offers \in Seq(UNION {CommandsOf[g] : g \in Files}) /\ cleaned \in Seq(Nat)
            /\ Len(offers) = Len(made) /\ Len(cleaned) = Len(made) /\ Len(made) \in Nat
        BY <1>0 DEF InstancesOK
      <3>2. xs \in UNION {CommandsOf[g] : g \in Files} /\ 0 \in Nat
        BY <2>1, <2>2
      <3>3. /\ made' \in Seq(Files) /\ Len(made') = i /\ made'[i] = f
            /\ \A k \in 1 .. Len(made) : made'[k] = made[k]
        BY <2>1, <2>2, <2>b, <3>1, AppendProperties
      <3>4. /\ offers' \in Seq(UNION {CommandsOf[g] : g \in Files}) /\ Len(offers') = i /\ offers'[i] = xs
            /\ \A k \in 1 .. Len(made) : offers'[k] = offers[k]
        BY <2>1, <2>b, <3>1, <3>2, AppendProperties
      <3>5. /\ cleaned' \in Seq(Nat) /\ Len(cleaned') = i /\ cleaned'[i] = 0
            /\ \A k \in 1 .. Len(made) : cleaned'[k] = cleaned[k]
        BY <2>1, <2>b, <3>1, <3>2, AppendProperties
      <3>6. i \in Nat /\ 1 .. Len(made') = (1 .. Len(made)) \cup {i} /\ i \notin 1 .. Len(made)
        BY <2>b, <3>1, <3>3
      <3> QED
        BY <3>1, <3>3, <3>4, <3>5, <3>6
    <2>5. InstancesOK'
      <3>1. \A k \in 1 .. Len(made') : offers'[k] \in CommandsOf[made'[k]] /\ cleaned'[k] <= 1
        BY <1>0, <2>1, <2>4 DEF InstancesOK
      <3> QED
        BY <2>4, <3>1 DEF InstancesOK
    <2>6. ASSUME NEW k \in 1 .. Len(made) PROVE Live(k) => Live(k)' \/ (made[k] = f /\ f \in crossed)
      BY <2>1, <2>3, <2>4 DEF Live
    <2>7. Live(i)'
      BY <2>1, <2>4 DEF Live
    <2>8. LoadedOK'
      <3>1. /\ DOMAIN loadedPlugins' = DOMAIN loadedPlugins \cup {f} /\ loadedPlugins'[f] = i
            /\ \A g \in DOMAIN loadedPlugins \ {f} : loadedPlugins'[g] = loadedPlugins[g]
            /\ loadedPlugins' = [g \in DOMAIN loadedPlugins' |-> loadedPlugins'[g]]
        BY <2>1
      <3>2. ASSUME NEW g \in DOMAIN loadedPlugins'
            PROVE  /\ loadedPlugins'[g] \in 1 .. Len(made') /\ made'[loadedPlugins'[g]] = g
                   /\ cleaned'[loadedPlugins'[g]] = 0
        <4>1. CASE g = f
          BY <2>4, <3>1, <4>1
        <4>2. CASE g # f
          <5>1. PICK k : k = loadedPlugins[g]
            OBVIOUS
          <5>2. k \in 1 .. Len(made) /\ made[k] = g /\ cleaned[k] = 0 /\ loadedPlugins'[g] = k
            BY <1>0, <3>1, <4>2, <5>1 DEF LoadedOK
          <5> QED
            BY <2>4, <5>2
        <4> QED
          BY <4>1, <4>2
      <3>3. ASSUME NEW k \in 1 .. Len(made'), cleaned'[k] = 0 PROVE Live(k)' \/ made'[k] \in crossed'
        BY <1>0, <2>2, <2>4, <2>6, <2>7, <3>3 DEF LoadedOK
      <3> QED
        BY <1>0, <2>1, <2>2, <3>1, <3>2, <3>3 DEF LoadedOK
    <2>9. CommandsOK'
      <3>1. /\ DOMAIN commands' = DOMAIN commands \cup xs
            /\ \A x \in xs : commands'[x] = i
            /\ \A x \in DOMAIN commands \ xs : commands'[x] = commands[x]
            /\ commands' = [x \in DOMAIN commands' |-> commands'[x]]
        BY <2>1
      <3>2. ASSUME NEW x \in DOMAIN commands', NEW k, k = commands'[x]
            PROVE  /\ k \in 1 .. Len(made') /\ x \in offers'[k]
                   /\ Live(k)' \/ made'[k] \in crossed'
        <4>1. CASE x \in xs
          BY <2>4, <2>7, <3>1, <3>2, <4>1
        <4>2. CASE x \notin xs
          <5>1. /\ x \in DOMAIN commands /\ k = commands[x] /\ k \in 1 .. Len(made)
                /\ x \in offers[k]
                /\ Live(k) \/ made[k] \in crossed
            BY <1>0, <3>1, <3>2, <4>2 DEF CommandsOK
          <5> QED
            BY <2>2, <2>4, <2>6, <5>1
        <4> QED
          BY <4>1, <4>2
      <3>3. ASSUME NEW g \in DOMAIN loadedPlugins' \ crossed',
                   NEW x \in offers'[loadedPlugins'[g]] \ OfferedByOthers(g)
            PROVE  x \in DOMAIN commands' /\ commands'[x] = loadedPlugins'[g]
        <4>1. CASE g = f
          BY <2>1, <2>4, <3>1, <4>1
        <4>2. CASE g # f
          <5>1. /\ g \in DOMAIN loadedPlugins \ crossed /\ loadedPlugins'[g] = loadedPlugins[g]
                /\ loadedPlugins[g] \in 1 .. Len(made)
            BY <1>0, <2>1, <2>2, <4>2 DEF LoadedOK
          <5>2. x \in DOMAIN commands /\ commands[x] = loadedPlugins[g]
            BY <1>0, <2>4, <5>1 DEF CommandsOK
          <5>3. x \notin xs
            BY <2>1, <2>2, <4>2 DEF OfferedByOthers
          <5> QED
            BY <3>1, <5>1, <5>2, <5>3
        <4> QED
          BY <4>1, <4>2
      <3> QED
        BY <3>1, <3>2, <3>3 DEF CommandsOK, OfferedByOthers
    <2>10. LoadingOK'
      <3>1. ASSUME NEW o \in LoaderTasks, loading'[o] # NoVersion, loading'[o] \notin crossed
            PROVE  /\ loading'[o] \notin DOMAIN loadedPlugins'
                   /\ \A u \in LoaderTasks : loading'[u] = loading'[o] => u = o
        <4>1. o # t /\ loading'[o] = loading[o] /\ loading[o] # f
          BY <1>0, <2>2, <2>3, <2>a, <3>1 DEF LoadingOK
        <4> QED
          BY <1>0, <2>1, <2>2, <3>1, <4>1 DEF LoadingOK
      <3> QED
        BY <1>0, <2>2, <3>1 DEF LoadingOK
    <2> QED
      BY <2>5, <2>8, <2>9, <2>10 DEF FilesIndInv
  <1>7. ASSUME NEW t \in LoaderTasks, UnloadAll(t) PROVE FilesIndInv'
    <2>1. PICK stuck \in SUBSET DOMAIN loadedPlugins :
             /\ commands' = Less(commands, UNION {offers[loadedPlugins[f]] : f \in DOMAIN loadedPlugins})
             /\ loadedPlugins' = Less(loadedPlugins, DOMAIN loadedPlugins \ stuck)
             /\ cleaned' = [i \in DOMAIN cleaned |->
                              IF \E f \in DOMAIN loadedPlugins \ stuck : loadedPlugins[f] = i
                              THEN cleaned[i] + 1 ELSE cleaned[i]]
             /\ crossed' = crossed \cup stuck
      BY <1>7 DEF UnloadAll
    <2>2. UNCHANGED <<pluginFiles, offers, made, loading>>
      BY <1>7 DEF UnloadAll
    <2>3. /\ cleaned' \in Seq(Nat) /\ Len(cleaned') = Len(cleaned)
          /\ \A i \in 1 .. Len(made) : cleaned'[i] =
                IF \E f \in DOMAIN loadedPlugins \ stuck : loadedPlugins[f] = i THEN cleaned[i] + 1 ELSE cleaned[i]
      <3>1. cleaned \in Seq(Nat) /\ Len(cleaned) = Len(made) /\ Len(made) \in Nat
        BY <1>0 DEF InstancesOK
      <3>2. DOMAIN cleaned = 1 .. Len(made) /\ \A i \in 1 .. Len(made) : cleaned[i] \in Nat
        BY <3>1
      <3>3. cleaned' \in [1 .. Len(made) -> Nat]
        BY <2>1, <3>2
      <3> QED
        BY <2>1, <3>1, <3>2, <3>3
    <2>4. DOMAIN loadedPlugins' = stuck
      BY <2>1 DEF Less
    <2>5. /\ DOMAIN loadedPlugins' \ crossed' \subseteq pluginFiles' /\ pluginFiles' \subseteq Files
      BY <1>0, <2>1, <2>2, <2>4 DEF LoadedOK
    <2>6. InstancesOK' /\ LoadedOK' /\ CommandsOK'
      <3> DEFINE us == DOMAIN loadedPlugins
                 ok == DOMAIN loadedPlugins \ stuck
      <3>1. us \in SUBSET DOMAIN loadedPlugins /\ ok \in SUBSET us /\ us \ ok = stuck
        OBVIOUS
      <3>2. /\ commands' = Less(commands, UNION {offers[loadedPlugins[f]] : f \in us})
            /\ loadedPlugins' = Less(loadedPlugins, ok)
            /\ \A i \in 1 .. Len(made) : cleaned'[i] =
                IF \E f \in ok : loadedPlugins[f] = i THEN cleaned[i] + 1 ELSE cleaned[i]
        BY <2>1, <2>3
      <3>3. crossed \cup (us \ ok) \subseteq crossed'
        BY <2>1, <3>1
      <3> HIDE DEF us, ok
      <3> QED
        BY <2>2, <2>3, <2>5, <3>1, <3>2, <3>3, Unloading
    <2> QED
      BY <1>b, <2>1, <2>2, <2>4, <2>6 DEF FilesIndInv
  <1>8. ASSUME NEW f \in Files, FileCreated(f) PROVE FilesIndInv'
    BY <1>a, <1>b, <1>8 DEF FileCreated, FilesIndInv
  <1> QED
    BY <1>1, <1>2, <1>3, <1>4, <1>5, <1>6, <1>7, <1>8 DEF FilesNext

\* Plugins, their files and their commands agree whatever loads, reloads, deletions and stops
\* overlap (PluginLoader).
THEOREM FilesAgree == FilesSpec => []FilesInv
  <1> QED
    BY FilesInitially, FilesKeep, FilesIndInvImplies, PTL DEF FilesSpec

-----------------------------------------------------------------------------
(* The decorators of calls *)

\* The powers of the factor.
LEMMA BackoffGrows ==
  /\ Backoff[0] = 1
  /\ \A n \in Nat : Backoff[n] \in Nat /\ Backoff[n + 1] = Backoff[n] * BackoffFactor
  <1> DEFINE step == [y \in Nat \X [Nat -> Nat] |-> IF y[1] = 0 THEN 1 ELSE y[2][y[1] - 1] * BackoffFactor]
             measure == [n \in Nat |-> n]
  <1>0. BackoffFactor \in Nat
    BY WrapperAssumption
  <1>1. step \in [Nat \X [Nat -> Nat] -> Nat]
    <2> SUFFICES ASSUME NEW n \in Nat, NEW g \in [Nat -> Nat]
                 PROVE  (IF n = 0 THEN 1 ELSE g[n - 1] * BackoffFactor) \in Nat
      OBVIOUS
    <2> QED
      BY <1>0
  <1>2. LooksBelow(Nat, Nat, measure, step)
    BY DEF LooksBelow
  <1>3. \A n \in Nat : \A g \in [Nat -> Nat] : step[<<n, g>>] = IF n = 0 THEN 1 ELSE g[n - 1] * BackoffFactor
    OBVIOUS
  <1>4. measure \in [Nat -> Nat]
    OBVIOUS
  <1> HIDE DEF step, measure
  <1>5. PICK f \in [Nat -> Nat] : Solves(f, Nat, step)
    BY <1>1, <1>2, <1>4, Recursion
  <1>6. f = [n \in Nat |-> IF n = 0 THEN 1 ELSE f[n - 1] * BackoffFactor]
    BY <1>3, <1>5 DEF Solves
  <1>7. Backoff = [n \in Nat |-> IF n = 0 THEN 1 ELSE Backoff[n - 1] * BackoffFactor]
    BY <1>6 DEF Backoff
  <1>8. \A n \in Nat : Backoff[n] = IF n = 0 THEN 1 ELSE Backoff[n - 1] * BackoffFactor
    BY <1>7
  <1>9. Backoff[0] = 1
    BY <1>8
  <1>10. \A n \in Nat : Backoff[n + 1] = Backoff[n] * BackoffFactor
    <2> SUFFICES ASSUME NEW n \in Nat PROVE Backoff[n + 1] = Backoff[n] * BackoffFactor
      OBVIOUS
    <2>1. n + 1 \in Nat /\ n + 1 # 0 /\ (n + 1) - 1 = n
      OBVIOUS
    <2> QED
      BY <1>8, <2>1
  <1> DEFINE P == {n \in Nat : Backoff[n] \in Nat}
  <1>11. \A n \in Nat : n \in P => n + 1 \in P
    BY <1>0, <1>10
  <1>12. 0 \in P
    BY <1>9
  <1> HIDE DEF P
  <1>13. Nat \subseteq P
    BY <1>11, <1>12, NatHolds
  <1> QED
    BY <1>9, <1>10, <1>13 DEF P

\* The sleeps of a call so far.
Sleeps(c) == IF at[c] = "raised" THEN attempt[c] - 1 ELSE attempt[c]

\* What has been slept, and the next delay, are those of as many sleeps.
SleptRight(c) ==
    /\ slept[c] * (BackoffFactor - 1) = Backoff[Sleeps(c)] - 1
    /\ nextDelay[c] = Backoff[Sleeps(c)]

CallRight(c) ==
    /\ attempt[c] <= Attempts(c)
    /\ at[c] \in {"running", "sleeping"} => attempt[c] < Attempts(c)
    /\ at[c] = "new" => attempt[c] = 0
    /\ at[c] = "raised" => attempt[c] > 0
    /\ wrapper[c] # "cached" =>
          /\ SleptRight(c)
          /\ at[c] = "raised" => raising[c] = "other" \/ attempt[c] = Attempts(c)
    /\ wrapper[c] = "cached" /\ at[c] = "returned" => value[c] >= began[c] \/ began[c] - value[c] < TtlSeconds
    /\ began[c] <= clock

WrapIndInv ==
    /\ wrapper \in [Wrapped -> {"plugin", "utility", "cached"}]
    /\ at \in [Wrapped -> {"new", "running", "sleeping", "returned", "raised"}]
    /\ attempt \in [Wrapped -> Nat] /\ slept \in [Wrapped -> Nat] /\ nextDelay \in [Wrapped -> Nat]
    /\ raising = [c \in Wrapped |-> raising[c]] /\ value \in [Wrapped -> Nat] /\ began \in [Wrapped -> Nat]
    /\ clock \in 0 .. MaxWrapTime /\ cacheAt \in 0 .. MaxWrapTime + 1
    /\ \A c \in Wrapped : CallRight(c)

\* The invariant of the decorators gives what they promise.
LEMMA WrapIndInvImplies == WrapIndInv => WrapInv
  <1> SUFFICES ASSUME WrapIndInv PROVE WrapInv
    OBVIOUS
  <1>1. WrapTypeOK
    BY DEF WrapIndInv, WrapTypeOK, CallRight
  <1>2. RetriesAgree
    <2> SUFFICES ASSUME NEW c \in Wrapped, wrapper[c] # "cached"
                 PROVE  /\ at[c] = "raised" /\ MaxRetries + 1 = MaxAttempts =>
                               raising[c] = "other" \/ attempt[c] = MaxAttempts
                        /\ slept[c] * (BackoffFactor - 1) = Backoff[Sleeps(c)] - 1
      BY DEF RetriesAgree, Sleeps
    <2> QED
      BY DEF WrapIndInv, CallRight, SleptRight, Attempts
  <1>3. CacheIsFresh
    BY DEF WrapIndInv, CallRight, CacheIsFresh
  <1> QED
    BY <1>1, <1>2, <1>3 DEF WrapInv

\* It holds initially.
LEMMA WrapInitially == WrapInit => WrapIndInv
  <1> SUFFICES ASSUME WrapInit PROVE WrapIndInv
    OBVIOUS
  <1>1. ASSUME NEW c \in Wrapped PROVE CallRight(c)
    BY WrapperAssumption, BackoffGrows DEF WrapInit, CallRight, SleptRight, Sleeps, Attempts
  <1>2. \A c \in Wrapped : CallRight(c)
    BY <1>1
  <1> HIDE DEF CallRight
  <1> QED
    BY <1>2, WrapperAssumption DEF WrapInit, WrapIndInv

\* One more sleep.
LEMMA OneMoreSleep ==
  ASSUME NEW s \in Nat, NEW n \in Nat, s * (BackoffFactor - 1) = Backoff[n] - 1
  PROVE  (s + Backoff[n]) * (BackoffFactor - 1) = Backoff[n + 1] - 1
  <1>1. PICK F \in Nat \ {0} : F = BackoffFactor
    BY WrapperAssumption
  <1>2. PICK b \in Nat : b = Backoff[n] /\ Backoff[n + 1] = b * F
    BY <1>1, BackoffGrows
  <1>3. s * (F - 1) = b - 1
    BY <1>1, <1>2
  <1>4. (s + b) * (F - 1) = s * (F - 1) + b * (F - 1)
    BY <1>1
  <1>5. b * (F - 1) = b * F - b
    BY <1>1
  <1> QED
    BY <1>1, <1>2, <1>3, <1>4, <1>5

\* A step of one call.
LEMMA CallSteps ==
  ASSUME WrapIndInv, NEW c \in Wrapped,
         StartsCall(c) \/ Returns(c) \/ Wakes(c) \/ \E e \in {"listed", "other", "timeout"} : Fails(c, e)
  PROVE  WrapIndInv'
  <1> USE DEF WrapIndInv
  <1>1. CASE StartsCall(c)
    <2>1. ASSUME NEW d \in Wrapped PROVE CallRight(d)'
      BY <1>1, WrapperAssumption DEF StartsCall, CallRight, SleptRight, Sleeps, Attempts, Fresh
    <2> QED
      BY <1>1, <2>1 DEF StartsCall
  <1>2. CASE Returns(c)
    <2>1. ASSUME NEW d \in Wrapped PROVE CallRight(d)'
      BY <1>2 DEF Returns, CallRight, SleptRight, Sleeps, Attempts
    <2>2. value' \in [Wrapped -> Nat] /\ cacheAt' \in 0 .. MaxWrapTime + 1
      BY <1>2, WrapperAssumption DEF Returns
    <2> HIDE DEF CallRight
    <2> QED
      BY <1>2, <2>1, <2>2 DEF Returns
  <1>3. CASE Wakes(c)
    <2>1. ASSUME NEW d \in Wrapped PROVE CallRight(d)'
      BY <1>3 DEF Wakes, CallRight, SleptRight, Sleeps, Attempts
    <2> QED
      BY <1>3, <2>1 DEF Wakes
  <1>4. ASSUME NEW e \in {"listed", "other", "timeout"}, Fails(c, e) PROVE WrapIndInv'
    <2>1. \A d \in Wrapped \ {c} : CallRight(d)'
      BY <1>4 DEF Fails, CallRight, SleptRight, Sleeps, Attempts
    <2>2. /\ at[c] = "running" /\ attempt' = [attempt EXCEPT ![c] = @ + 1] /\ raising' = [raising EXCEPT ![c] = e]
          /\ UNCHANGED <<wrapper, value, began, cacheAt, clock>>
      BY <1>4 DEF Fails
    <2>3. attempt[c] \in Nat /\ attempt'[c] = attempt[c] + 1 /\ raising'[c] = e /\ attempt[c] < Attempts(c)
          /\ Attempts(c)' = Attempts(c) /\ Attempts(c) \in Nat
      BY <2>2, WrapperAssumption DEF CallRight, Attempts
    <2>4. CASE Retried(c, e)
      <3>1. /\ at' = [at EXCEPT ![c] = "sleeping"] /\ slept' = [slept EXCEPT ![c] = @ + Delay(c)]
            /\ nextDelay' = [nextDelay EXCEPT ![c] = @ * BackoffFactor] /\ wrapper[c] # "cached"
            /\ attempt[c] + 1 < Attempts(c)
        BY <1>4, <2>4 DEF Fails, Retried
      <3>2. SleptRight(c) /\ Sleeps(c) = attempt[c]
        BY <2>2, <3>1 DEF CallRight, Sleeps
      <3>3. Delay(c) = Backoff[attempt[c]] /\ Delay(c) \in Nat
        BY <2>3, <3>2, BackoffGrows DEF Delay, SleptRight
      <3>4. Sleeps(c)' = attempt[c] + 1
        BY <2>3, <3>1 DEF Sleeps
      <3>5. SleptRight(c)'
        <4>1. (slept[c] + Backoff[attempt[c]]) * (BackoffFactor - 1) = Backoff[attempt[c] + 1] - 1
          BY <2>3, <3>2, OneMoreSleep DEF SleptRight
        <4>2. nextDelay[c] * BackoffFactor = Backoff[attempt[c] + 1]
          BY <2>3, <3>2, BackoffGrows DEF SleptRight
        <4>3. slept'[c] = slept[c] + Backoff[attempt[c]] /\ nextDelay'[c] = nextDelay[c] * BackoffFactor
          BY <3>1, <3>3
        <4> QED
          BY <3>4, <4>1, <4>2, <4>3 DEF SleptRight
      <3>6. CallRight(c)'
        BY <2>2, <2>3, <3>1, <3>5 DEF CallRight
      <3>7. slept' \in [Wrapped -> Nat] /\ nextDelay' \in [Wrapped -> Nat]
        <4>1. nextDelay[c] * BackoffFactor \in Nat /\ slept[c] + Delay(c) \in Nat
          BY <3>3, WrapperAssumption
        <4> QED
          BY <3>1, <4>1
      <3> HIDE DEF CallRight
      <3> QED
        BY <2>1, <2>2, <2>3, <3>1, <3>6, <3>7
    <2>5. CASE ~Retried(c, e)
      <3>1. at' = [at EXCEPT ![c] = "raised"] /\ UNCHANGED <<slept, nextDelay>>
        BY <1>4, <2>5 DEF Fails
      <3>2. Sleeps(c)' = Sleeps(c)
        BY <2>2, <2>3, <3>1 DEF Sleeps
      <3>3. wrapper[c] # "cached" => SleptRight(c)'
        BY <2>2, <3>1, <3>2 DEF CallRight, SleptRight
      <3>4. wrapper[c] # "cached" => e = "other" \/ attempt'[c] = Attempts(c)
        BY <2>3, <2>5 DEF Retried
      <3>5. CallRight(c)'
        BY <2>2, <2>3, <3>1, <3>3, <3>4 DEF CallRight
      <3> HIDE DEF CallRight
      <3> QED
        BY <2>1, <2>2, <2>3, <3>1, <3>5
    <2> QED
      BY <2>4, <2>5
  <1> QED
    BY <1>1, <1>2, <1>3, <1>4

\* Every step keeps it.
LEMMA WrapStepKeeps == ASSUME WrapIndInv, [WrapNext]_wrapVars PROVE WrapIndInv'
  <1>1. CASE UNCHANGED wrapVars
    BY <1>1 DEF wrapVars, WrapIndInv, CallRight, SleptRight, Sleeps, Attempts
  <1>2. CASE Passes
    <2>1. ASSUME NEW c \in Wrapped PROVE CallRight(c)'
      BY <1>2 DEF Passes, WrapIndInv, CallRight, SleptRight, Sleeps, Attempts
    <2> QED
      BY <1>2, <2>1, WrapperAssumption DEF Passes, WrapIndInv
  <1> QED
    BY <1>1, <1>2, CallSteps DEF WrapNext

-----------------------------------------------------------------------------
(* The visualizers *)

\* What list.remove leaves.
LEMMA RemovedOnce ==
  ASSUME NEW S, NEW s \in Seq(S), NEW e
  PROVE  /\ RemoveFirst(s, e) \in Seq(S) /\ ToSet(s) \ {e} \subseteq ToSet(RemoveFirst(s, e))
         /\ IsInjective(s) => IsInjective(RemoveFirst(s, e))
  <1>1. CASE \E i \in 1 .. Len(s) : s[i] = e
    <2> DEFINE I == {i \in 1 .. Len(s) : s[i] = e}
               k == CHOOSE x \in I : \A y \in I : x <= y
               a == SubSeq(s, 1, k - 1)
               b == SubSeq(s, k + 1, Len(s))
               r == a \o b
    <2>1. I # {} /\ I \subseteq Nat
      BY <1>1
    <2>2. k \in I
      <3>1. \E x \in I : \A y \in I : x <= y
        <4> HIDE DEF I
        <4> QED
          BY <2>1, LeastOfSome
      <3> QED
        BY <3>1
    <2>3. RemoveFirst(s, e) = r
      BY <1>1, <2>1 DEF RemoveFirst, RemoveAt, SelectInSeq, Min
    <2>4. k \in 1 .. Len(s) /\ s[k] = e /\ Len(s) \in Nat
      BY <2>2
    <2> HIDE DEF k
    <2>5. a \in Seq(S) /\ Len(a) = k - 1 /\ \A j \in 1 .. (k - 1) : a[j] = s[j]
      <3>1. 1 \in 1 .. Len(s) + 1 /\ k - 1 \in 0 .. Len(s) /\ k - 1 \in (1 - 1) .. Len(s)
        BY <2>4
      <3> QED
        BY <2>4, <3>1, SubSeqProperties
    <2>6. b \in Seq(S) /\ Len(b) = Len(s) - k /\ \A j \in 1 .. Len(b) : b[j] = s[k + j]
      BY <2>4, SubSeqProperties
    <2> HIDE DEF a, b
    <2>7. r \in Seq(S) /\ Len(r) = Len(s) - 1
          /\ \A j \in 1 .. Len(r) : r[j] = IF j < k THEN s[j] ELSE s[j + 1]
      <3>1. r \in Seq(S) /\ Len(r) = Len(a) + Len(b)
            /\ \A j \in 1 .. Len(a) + Len(b) : r[j] = IF j <= Len(a) THEN a[j] ELSE b[j - Len(a)]
        BY <2>5, <2>6, ConcatProperties
      <3>2. ASSUME NEW j \in 1 .. Len(r) PROVE r[j] = IF j < k THEN s[j] ELSE s[j + 1]
        <4>1. CASE j < k
          BY <2>4, <2>5, <3>1, <3>2, <4>1
        <4>2. CASE ~(j < k)
          <5>1. j - Len(a) \in 1 .. Len(b) /\ k + (j - Len(a)) = j + 1 /\ ~(j <= Len(a))
            BY <2>4, <2>5, <2>6, <3>1, <3>2, <4>2
          <5> QED
            BY <2>6, <3>1, <4>2, <5>1
        <4> QED
          BY <4>1, <4>2
      <3> QED
        BY <2>4, <2>5, <2>6, <3>1, <3>2, SMTT(30)
    <2> HIDE DEF r
    <2>8. ASSUME NEW j \in 1 .. Len(s), s[j] # e PROVE s[j] \in ToSet(r)
      <3>1. CASE j < k
        BY <2>4, <2>7, <3>1 DEF ToSet
      <3>2. CASE j > k
        <4>1. j - 1 \in DOMAIN r /\ r[j - 1] = s[j]
          BY <2>4, <2>7, <3>2
        <4> QED
          BY <4>1 DEF ToSet
      <3>3. j # k
        BY <2>4, <2>8
      <3> QED
        BY <2>4, <3>1, <3>2, <3>3
    <2>9. ToSet(s) \ {e} \subseteq ToSet(r)
      BY <2>8 DEF ToSet
    <2>10. IsInjective(s) => IsInjective(r)
      <3> SUFFICES ASSUME IsInjective(s), NEW i \in 1 .. Len(r), NEW j \in 1 .. Len(r), r[i] = r[j] PROVE i = j
        BY <2>7 DEF IsInjective
      <3>1. \A x, y \in 1 .. Len(s) : s[x] = s[y] => x = y
        BY DEF IsInjective
      <3> DEFINE At(x) == IF x < k THEN x ELSE x + 1
      <3>2. At(i) \in 1 .. Len(s) /\ At(j) \in 1 .. Len(s) /\ s[At(i)] = s[At(j)]
        BY <2>4, <2>7
      <3>3. At(i) = At(j)
        BY <3>1, <3>2
      <3> QED
        BY <2>4, <2>7, <3>3
    <2> QED
      BY <2>3, <2>7, <2>9, <2>10
  <1>2. CASE ~\E i \in 1 .. Len(s) : s[i] = e
    BY <1>2 DEF RemoveFirst
  <1> QED
    BY <1>1, <1>2

\* A name that is appended when it is not listed is listed once.
LEMMA AppendedOnce ==
  ASSUME NEW S, NEW s \in Seq(S), NEW e \in S, e \notin ToSet(s), IsInjective(s)
  PROVE  IsInjective(Append(s, e))
  <1>1. /\ Append(s, e) \in Seq(S) /\ Len(Append(s, e)) = Len(s) + 1 /\ Append(s, e)[Len(s) + 1] = e
        /\ \A i \in 1 .. Len(s) : Append(s, e)[i] = s[i]
    BY AppendProperties
  <1>2. \A i \in 1 .. Len(s) : s[i] # e
    BY DEF ToSet
  <1>3. \A i, j \in 1 .. Len(s) : s[i] = s[j] => i = j
    BY DEF IsInjective
  <1>4. Len(s) \in Nat /\ DOMAIN Append(s, e) = 1 .. Len(s) + 1
    BY <1>1
  <1> QED
    BY <1>1, <1>2, <1>3, <1>4 DEF IsInjective

-----------------------------------------------------------------------------
(* The registry of what can be drawn *)

VisualizersRight ==
    /\ entries \in [Visualizers -> EntryPoints]
    /\ inCategory \in [Categories -> Seq(Visualizers)]
    /\ DOMAIN metadata \subseteq Visualizers
    /\ asked = [a \in Aliases |-> asked[a]] /\ \A n \in DOMAIN metadata : metadata[n].aliases \subseteq Aliases

VisualizerIndInv == VisualizersRight /\ VisualizerInv

\* The invariant of the registry of visualizers holds initially.
LEMMA VisualizersInitially == VisualizersInit => VisualizerIndInv
  <1> SUFFICES ASSUME VisualizersInit PROVE VisualizerIndInv
    OBVIOUS
  <1>1. DOMAIN metadata = {}
    BY DEF VisualizersInit
  <1>2. VisualizersRight
    BY <1>1 DEF VisualizersInit, VisualizersRight, EntryPoints
  <1>3. VisualizerInv
    BY <1>1 DEF VisualizersInit, VisualizerInv, ListedInCategory, AliasFindsItsOwn, OfferedIsExplained, IsInjective
  <1> QED
    BY <1>2, <1>3 DEF VisualizerIndInv

\* register() keeps it, whatever was registered under the name before.
LEMMA RegisterRight ==
  ASSUME VisualizerIndInv, NEW n \in Visualizers, NEW c \in Categories \cup {NoCategory}, NEW as \in SUBSET Aliases,
         RegisterVisualizer(n, c, as)
  PROVE  VisualizerIndInv'
  <1>1. /\ metadata' = Registered(metadata, n, c, as)
        /\ inCategory' = IF c \in Categories /\ n \notin ToSet(inCategory[c])
                         THEN [inCategory EXCEPT ![c] = Append(@, n)] ELSE inCategory
        /\ aliasOf' = [a \in DOMAIN aliasOf \cup as |-> IF a \in as THEN n ELSE aliasOf[a]]
        /\ asked' = [a \in Aliases |-> IF a \in as THEN n ELSE asked[a]]
        /\ UNCHANGED managerVars
    BY DEF RegisterVisualizer, Register
  <1>2. /\ VisualizersRight /\ ListedInCategory /\ AliasFindsItsOwn /\ OfferedIsExplained
    BY DEF VisualizerIndInv, VisualizerInv
  <1>3. /\ DOMAIN metadata' = DOMAIN metadata \cup {n} /\ metadata'[n] = [category |-> c, aliases |-> as]
        /\ \A m \in DOMAIN metadata \ {n} : metadata'[m] = metadata[m]
    BY <1>1 DEF Registered, Named
  <1>4. /\ inCategory' \in [Categories -> Seq(Visualizers)]
        /\ \A d \in Categories : ToSet(inCategory[d]) \subseteq ToSet(inCategory'[d]) /\ IsInjective(inCategory'[d])
        /\ c \in Categories => n \in ToSet(inCategory'[c])
    <2>1. inCategory \in [Categories -> Seq(Visualizers)] /\ \A d \in Categories : IsInjective(inCategory[d])
      BY <1>2 DEF VisualizersRight, ListedInCategory
    <2>2. CASE c \in Categories /\ n \notin ToSet(inCategory[c])
      <3> DEFINE s == inCategory[c]
      <3>1. s \in Seq(Visualizers) /\ IsInjective(s)
        BY <2>1, <2>2
      <3>2. Append(s, n) \in Seq(Visualizers) /\ Len(Append(s, n)) = Len(s) + 1 /\ Append(s, n)[Len(s) + 1] = n
            /\ Len(s) \in Nat /\ \A i \in 1 .. Len(s) : Append(s, n)[i] = s[i]
        BY <3>1, AppendProperties
      <3>3. ToSet(s) \subseteq ToSet(Append(s, n)) /\ n \in ToSet(Append(s, n))
        BY <3>1, <3>2 DEF ToSet
      <3>4. IsInjective(Append(s, n))
        BY <2>2, <3>1, AppendedOnce
      <3>5. inCategory' = [inCategory EXCEPT ![c] = Append(s, n)]
        BY <1>1, <2>2
      <3> QED
        BY <2>1, <2>2, <3>2, <3>3, <3>4, <3>5
    <2>3. CASE ~(c \in Categories /\ n \notin ToSet(inCategory[c]))
      BY <1>1, <2>1, <2>3
    <2> QED
      BY <2>2, <2>3
  <1>5. VisualizersRight'
    <2>1. \A m \in DOMAIN metadata' : metadata'[m].aliases \subseteq Aliases
      <3>1. [category |-> c, aliases |-> as].aliases = as
        OBVIOUS
      <3> QED
        BY <1>2, <1>3, <3>1 DEF VisualizersRight
    <2>2. entries' = entries /\ asked' = [a \in Aliases |-> asked'[a]]
      BY <1>1 DEF managerVars
    <2> QED
      BY <1>2, <1>3, <1>4, <2>1, <2>2 DEF VisualizersRight
  <1>6. ListedInCategory'
    <2> SUFFICES ASSUME NEW m \in DOMAIN metadata', metadata'[m].category \in Categories
                 PROVE  m \in ToSet(inCategory'[metadata'[m].category])
      BY <1>4 DEF ListedInCategory
    <2>1. CASE m = n
      BY <1>3, <1>4, <2>1
    <2>2. CASE m # n
      BY <1>2, <1>3, <1>4, <2>2 DEF ListedInCategory
    <2> QED
      BY <2>1, <2>2
  <1>7. AliasFindsItsOwn'
    <2> SUFFICES ASSUME NEW m \in DOMAIN metadata', NEW a \in metadata'[m].aliases, asked'[a] = m
                 PROVE  a \in DOMAIN aliasOf' /\ aliasOf'[a] = m
      BY DEF AliasFindsItsOwn
    <2>1. a \in Aliases
      BY <1>5 DEF VisualizersRight
    <2>2. CASE m = n /\ a \in as
      BY <1>1, <2>2
    <2>3. CASE m # n
      <3>1. a \notin as /\ asked[a] = m /\ m \in DOMAIN metadata /\ a \in metadata[m].aliases
        BY <1>1, <1>3, <2>1, <2>3
      <3> QED
        BY <1>1, <1>2, <3>1 DEF AliasFindsItsOwn
    <2>4. m = n => a \in as
      <3>1. [category |-> c, aliases |-> as].aliases = as
        OBVIOUS
      <3> QED
        BY <1>3, <3>1
    <2> QED
      BY <2>2, <2>3, <2>4
  <1>8. OfferedIsExplained'
    BY <1>1, <1>2 DEF OfferedIsExplained, managerVars
  <1> QED
    BY <1>5, <1>6, <1>7, <1>8 DEF VisualizerIndInv, VisualizerInv

\* So does unregister(): aliases that others took over stay.
LEMMA UnregisterRight ==
  ASSUME VisualizerIndInv, NEW n \in DOMAIN metadata, Unregister(n)
  PROVE  VisualizerIndInv'
  <1>1. PICK d : d = metadata[n]
    OBVIOUS
  <1>2. /\ metadata' = Without(metadata, {n})
        /\ inCategory' = IF d.category \in Categories
                         THEN [inCategory EXCEPT ![d.category] = RemoveFirst(@, n)] ELSE inCategory
        /\ aliasOf' = Without(aliasOf, {a \in d.aliases \cap DOMAIN aliasOf : aliasOf[a] = n})
        /\ UNCHANGED <<managerVars, asked>>
    BY <1>1 DEF Unregister
  <1>3. /\ VisualizersRight /\ ListedInCategory /\ AliasFindsItsOwn /\ OfferedIsExplained
    BY DEF VisualizerIndInv, VisualizerInv
  <1>4. DOMAIN metadata' = DOMAIN metadata \ {n} /\ \A m \in DOMAIN metadata \ {n} : metadata'[m] = metadata[m]
    BY <1>2 DEF Without
  <1>5. \A a \in DOMAIN aliasOf : aliasOf[a] # n => a \in DOMAIN aliasOf' /\ aliasOf'[a] = aliasOf[a]
    BY <1>2 DEF Without
  <1>6. /\ inCategory' \in [Categories -> Seq(Visualizers)]
        /\ \A c \in Categories : ToSet(inCategory[c]) \ {n} \subseteq ToSet(inCategory'[c]) /\ IsInjective(inCategory'[c])
    <2>1. inCategory \in [Categories -> Seq(Visualizers)] /\ \A c \in Categories : IsInjective(inCategory[c])
      BY <1>3 DEF VisualizersRight, ListedInCategory
    <2>2. \A c \in Categories :
             /\ RemoveFirst(inCategory[c], n) \in Seq(Visualizers) /\ IsInjective(RemoveFirst(inCategory[c], n))
             /\ ToSet(inCategory[c]) \ {n} \subseteq ToSet(RemoveFirst(inCategory[c], n))
      BY <2>1, RemovedOnce
    <2> QED
      BY <1>2, <2>1, <2>2
  <1>7. VisualizersRight'
    BY <1>2, <1>3, <1>4, <1>6 DEF VisualizersRight, managerVars
  <1>8. ListedInCategory'
    BY <1>3, <1>4, <1>6 DEF ListedInCategory
  <1>9. AliasFindsItsOwn'
    BY <1>2, <1>3, <1>4, <1>5 DEF AliasFindsItsOwn
  <1>10. OfferedIsExplained'
    BY <1>2, <1>3 DEF OfferedIsExplained, managerVars
  <1> QED
    BY <1>7, <1>8, <1>9, <1>10 DEF VisualizerIndInv, VisualizerInv

\* A discovery explains whatever it offers.
LEMMA DiscoverExplains ==
  ASSUME VisualizersRight, Discover
  PROVE  OfferedIsExplained' /\ entries' = entries /\ discovered' \subseteq Visualizers
  BY DEF Discover, OfferedIsExplained, VisualizersRight, Usable

\* So does the initialization of the engine.
LEMMA EngineRight ==
  ASSUME VisualizerIndInv, InitializeEngine
  PROVE  VisualizerIndInv'
  <1>1. /\ Discover /\ UNCHANGED <<aliasOf, inCategory, asked>>
        /\ metadata' = [n \in DOMAIN metadata \cup discovered' |->
                          IF n \in discovered' THEN [category |-> NoCategory, aliases |-> {}] ELSE metadata[n]]
    BY DEF InitializeEngine
  <1>2. /\ VisualizersRight /\ ListedInCategory /\ AliasFindsItsOwn
    BY DEF VisualizerIndInv, VisualizerInv
  <1>3. OfferedIsExplained' /\ entries' = entries /\ discovered' \subseteq Visualizers
    BY <1>1, <1>2, DiscoverExplains
  <1>4. \A n \in DOMAIN metadata' :
           IF n \in discovered' THEN metadata'[n] = [category |-> NoCategory, aliases |-> {}]
           ELSE n \in DOMAIN metadata /\ metadata'[n] = metadata[n]
    BY <1>1
  <1>5. VisualizersRight'
    BY <1>1, <1>2, <1>3, <1>4 DEF VisualizersRight
  <1>6. ListedInCategory'
    BY <1>1, <1>2, <1>4, VisualizerAssumption DEF ListedInCategory
  <1>7. AliasFindsItsOwn'
    BY <1>1, <1>2, <1>4 DEF AliasFindsItsOwn
  <1> QED
    BY <1>3, <1>5, <1>6, <1>7 DEF VisualizerIndInv, VisualizerInv

\* Every step keeps it.
LEMMA VisualizersStepKeeps == ASSUME VisualizerIndInv, [VisualizersNext]_visualizerVars PROVE VisualizerIndInv'
  <1>1. /\ VisualizersRight /\ ListedInCategory /\ AliasFindsItsOwn /\ OfferedIsExplained
    BY DEF VisualizerIndInv, VisualizerInv
  <1>2. ASSUME UNCHANGED registryVars, entries' \in [Visualizers -> EntryPoints], OfferedIsExplained' PROVE VisualizerIndInv'
    BY <1>1, <1>2 DEF VisualizerIndInv, VisualizerInv, registryVars, VisualizersRight, ListedInCategory, AliasFindsItsOwn
  <1>3. CASE UNCHANGED visualizerVars
    <2>1. UNCHANGED registryVars /\ entries' \in [Visualizers -> EntryPoints] /\ OfferedIsExplained'
      BY <1>1, <1>3 DEF visualizerVars, managerVars, VisualizersRight, OfferedIsExplained
    <2> QED
      BY <1>2, <2>1
  <1>4. CASE Clear
    <2>1. /\ DOMAIN metadata' = {} /\ inCategory' = [c \in Categories |-> <<>>] /\ UNCHANGED <<managerVars, asked>>
      BY <1>4 DEF Clear
    <2>2. VisualizersRight' /\ OfferedIsExplained' /\ AliasFindsItsOwn'
      BY <1>1, <2>1 DEF VisualizersRight, managerVars, OfferedIsExplained, AliasFindsItsOwn
    <2>3. ListedInCategory'
      BY <2>1 DEF ListedInCategory, IsInjective
    <2> QED
      BY <2>2, <2>3 DEF VisualizerIndInv, VisualizerInv
  <1>5. CASE DiscoverAgain
    BY <1>1, <1>2, <1>5, DiscoverExplains DEF DiscoverAgain, VisualizersRight
  <1>6. ASSUME NEW n \in Visualizers, ReloadVisualizer(n) PROVE VisualizerIndInv'
    <2>1. UNCHANGED registryVars /\ entries' \in [Visualizers -> EntryPoints] /\ OfferedIsExplained'
      BY <1>1, <1>6 DEF ReloadVisualizer, OfferedIsExplained, VisualizersRight
    <2> QED
      BY <1>2, <2>1
  <1>7. ASSUME NEW n \in Visualizers, EntryChanges(n) PROVE VisualizerIndInv'
    <2>1. UNCHANGED registryVars /\ OfferedIsExplained'
      BY <1>1, <1>7 DEF EntryChanges, OfferedIsExplained
    <2>2. entries' \in [Visualizers -> EntryPoints]
      BY <1>1, <1>7 DEF EntryChanges, VisualizersRight
    <2> QED
      BY <1>2, <2>1, <2>2
  <1> QED
    BY <1>3, <1>4, <1>5, <1>6, <1>7, RegisterRight, UnregisterRight, EngineRight DEF VisualizersNext

-----------------------------------------------------------------------------
(* What is called and shown *)

\* The decorators try, wait and cache as they say, and the registry of visualizers stays
\* consistent, in every part of the system of plugins.
THEOREM CalledAndShownRight == Spec => []CallsInv
  <1> DEFINE I == WrapIndInv /\ VisualizerIndInv
  <1>1. Init => I
    BY WrapInitially, VisualizersInitially DEF Init
  <1>2. I /\ [Next]_pluginsVars => I'
    <2> SUFFICES ASSUME I, [Next]_pluginsVars PROVE I'
      OBVIOUS
    <2>1. [WrapNext]_wrapVars /\ [VisualizersNext]_visualizerVars
      BY DEF Next, pluginsVars
    <2> QED
      BY <2>1, WrapStepKeeps, VisualizersStepKeeps
  <1>3. I => CallsInv
    BY WrapIndInvImplies DEF CallsInv, VisualizerIndInv
  <1> QED
    BY <1>1, <1>2, <1>3, PTL DEF Spec

-----------------------------------------------------------------------------
(* The connection pool: how many users are where *)

\* The users in a state, and how many they are.
In(state) == {u \in Users : hold[u] = state}
Num(state) == Cardinality(In(state))

States == {"idle", "starting", "using", "closing", "dropping"}
Stats == [requests : Nat, created : Nat, closed : Nat, failed : Nat, peak : Nat]

\* Disjoint sets are counted separately.
LEMMA DisjointUnion ==
  ASSUME NEW S, IsFiniteSet(S), NEW T, IsFiniteSet(T), S \cap T = {}
  PROVE  IsFiniteSet(S \cup T) /\ Cardinality(S \cup T) = Cardinality(S) + Cardinality(T)
  <1>1. Cardinality(S) \in Nat /\ Cardinality(T) \in Nat
    BY FS_CardinalityType
  <1> QED
    BY <1>1, FS_Union, FS_EmptySet

\* A number of users.
LEMMA NumType == \A state : IsFiniteSet(In(state)) /\ Num(state) \in Nat
  BY PoolAssumption, FS_Subset, FS_CardinalityType DEF In, Num

\* A user that goes from one state to another is counted there.
LEMMA NumMoves ==
  ASSUME hold \in [Users -> States], NEW u \in Users, NEW a \in States, NEW b \in States, a # b,
         hold[u] = a, hold' = [hold EXCEPT ![u] = b]
  PROVE  /\ Num(a)' = Num(a) - 1
         /\ Num(b)' = Num(b) + 1
         /\ \A s \in States \ {a, b} : Num(s)' = Num(s)
         /\ Num(a) >= 1
  <1>1. In(a)' = In(a) \ {u} /\ u \in In(a)
    BY DEF In
  <1>2. In(b)' = In(b) \cup {u} /\ u \notin In(b)
    BY DEF In
  <1>3. \A s \in States \ {a, b} : In(s)' = In(s)
    BY DEF In
  <1>4. Num(a)' = Num(a) - 1 /\ Num(a)' \in Nat
    <2>1. IsFiniteSet(In(a) \ {u})
      BY NumType, FS_RemoveElement
    <2> QED
      BY <1>1, <2>1, NumType, FS_RemoveElement, FS_CardinalityType DEF Num
  <1>5. Num(b)' = Num(b) + 1
    BY <1>2, NumType, FS_AddElement DEF Num
  <1> QED
    BY <1>3, <1>4, <1>5, NumType DEF Num

\* Users that hold a connection, and those that are busy.
LEMMA NumSums ==
  ASSUME hold \in [Users -> States]
  PROVE  /\ Cardinality(Holding) = Num("using") + Num("closing")
         /\ Cardinality({u \in Users : hold[u] # "idle"})
               = Num("starting") + Num("using") + Num("closing") + Num("dropping")
         /\ Cardinality({u \in Users : hold[u] = "starting"}) = Num("starting")
         /\ Cardinality(Holding) <= Cardinality(Users)
         /\ Cardinality(Users) \in Nat
  <1>1. \A s, t \in States : s # t => In(s) \cap In(t) = {}
    BY DEF In
  <1>2. Holding = In("using") \cup In("closing")
    BY DEF Holding, In
  <1>3. Cardinality(Holding) = Num("using") + Num("closing")
    <2>1. In("using") \cap In("closing") = {}
      BY <1>1 DEF States
    <2> QED
      BY <1>2, <2>1, NumType, DisjointUnion DEF Num
  <1> DEFINE rest == In("starting") \cup In("dropping")
  <1>4. Cardinality(rest) = Num("starting") + Num("dropping") /\ IsFiniteSet(rest)
    <2>1. In("starting") \cap In("dropping") = {}
      BY <1>1 DEF States
    <2> QED
      BY <2>1, NumType, DisjointUnion DEF Num
  <1>5. Cardinality(Holding \cup rest) = Cardinality(Holding) + Cardinality(rest)
    <2>1. Holding \cap rest = {}
      BY <1>1, <1>2 DEF States
    <2>2. IsFiniteSet(Holding)
      BY PoolAssumption, FS_Subset DEF Holding
    <2> QED
      BY <1>4, <2>1, <2>2, DisjointUnion
  <1>6. {u \in Users : hold[u] # "idle"} = Holding \cup rest
    BY <1>2 DEF In, States
  <1>7. Cardinality(Holding) <= Cardinality(Users) /\ Cardinality(Users) \in Nat
    BY PoolAssumption, FS_Subset, FS_CardinalityType DEF Holding
  <1>8. Cardinality({u \in Users : hold[u] = "starting"}) = Num("starting")
    BY DEF Num, In
  <1>9. /\ Num("starting") \in Nat /\ Num("using") \in Nat
        /\ Num("closing") \in Nat /\ Num("dropping") \in Nat
    BY NumType
  <1>10. Cardinality({u \in Users : hold[u] # "idle"})
            = (Num("using") + Num("closing")) + (Num("starting") + Num("dropping"))
    BY <1>3, <1>4, <1>5, <1>6
  <1> QED
    BY <1>3, <1>7, <1>8, <1>9, <1>10

\* Why PoolInv is inductive.  The counter is too low by the connections that did not start
\* only once those have been closed; every busy user, close and failed close stands for a
\* request of its own.
PoolCounts ==
    /\ hold \in [Users -> States] /\ active \in Nat /\ poolStats \in Stats
    /\ requests \in Nat /\ badStarts \in Nat /\ badCloses \in Nat
    /\ drain \in {"idle", "polling", "drained", "expired"}
    /\ Num("using") + Num("closing") + Num("dropping") - badStarts <= active
    /\ active <= Num("using") + Num("closing") + badCloses
    /\ poolStats.requests <= requests
    /\ poolStats.created + Num("starting") <= requests
    /\ poolStats.failed + Num("starting") + Num("using") <= requests
    /\ poolStats.closed + badCloses + Num("starting") + Num("using") + Num("closing")
          + Num("dropping") <= requests
    /\ poolStats.peak <= requests

\* The statistics, unless they are reset while connections are counted: then the counter
\* lies below the peak as well.
StatsCount ==
    /\ poolStats.requests <= poolStats.created + poolStats.failed + Num("starting")
    /\ poolStats.closed + Num("starting") + Num("using") + Num("closing")
          + Num("dropping") <= poolStats.requests
    /\ active <= poolStats.peak /\ poolStats.peak <= poolStats.created

CountsInv == PoolCounts /\ (~resetInUse => StatsCount)

\* It implies what the runs check.
LEMMA CountsImply == CountsInv => PoolInv
  <1> SUFFICES ASSUME CountsInv PROVE PoolInv
    OBVIOUS
  <1>0. PoolCounts
    BY DEF CountsInv
  <1> USE DEF PoolCounts
  <1> DEFINE h == Cardinality(Holding)
             s == Num("starting")
             us == Num("using")
             cl == Num("closing")
             dr == Num("dropping")
  <1>1. /\ h = us + cl /\ h <= Cardinality(Users) /\ Cardinality(Users) \in Nat
        /\ Cardinality({u \in Users : hold[u] # "idle"}) = s + us + cl + dr
        /\ Cardinality({u \in Users : hold[u] = "starting"}) = s
    BY <1>0, NumSums
  <1>2. s \in Nat /\ us \in Nat /\ cl \in Nat /\ dr \in Nat
    BY NumType
  <1> HIDE DEF h, s, us, cl, dr
  <1>3. ActiveTracksUse
    BY <1>0, <1>1, <1>2 DEF ActiveTracksUse, h, s, us, cl, dr
  <1>4. StatsAgree
    <2>1. ASSUME StatsCount
          PROVE  /\ poolStats.requests <= poolStats.created + poolStats.failed + s
                 /\ poolStats.closed + (s + us + cl + dr) <= poolStats.requests
                 /\ h - badStarts <= poolStats.peak /\ poolStats.peak <= poolStats.created
      BY <1>0, <1>1, <1>2, <2>1 DEF StatsCount, h, s, us, cl, dr, Stats
    <2> QED
      BY <1>1, <2>1, Zenon DEF StatsAgree, CountsInv, h, s
  <1>5. PoolTypeOK
    <2>1. active \in 0 .. Cardinality(Users) + badCloses
      BY <1>0, <1>1, <1>2 DEF h, us, cl
    <2>2. \A f \in DOMAIN poolStats : poolStats[f] \in 0 .. requests
      BY <1>0, <1>2 DEF Stats, s, us, cl, dr
    <2> QED
      BY <1>0, <2>1, <2>2 DEF PoolTypeOK, States
  <1> QED
    BY <1>3, <1>4, <1>5 DEF PoolInv

LEMMA CountsInit == PoolInit => CountsInv
  <1> SUFFICES ASSUME PoolInit PROVE CountsInv
    OBVIOUS
  <1>1. \A state \in States \ {"idle"} : Num(state) = 0
    BY FS_EmptySet DEF PoolInit, Num, In
  <1>2. hold \in [Users -> States]
    BY DEF PoolInit, States
  <1>3. PoolCounts
    BY <1>1, <1>2 DEF PoolInit, PoolCounts, States, Stats, Zero
  <1>4. StatsCount
    BY <1>1 DEF PoolInit, StatsCount, States, Zero
  <1> QED
    BY <1>3, <1>4 DEF CountsInv

\* One more connection created, and a new peak.
LEMMA CreatedStats ==
  ASSUME NEW stats \in Stats, NEW top \in Nat
  PROVE  LET now == [stats EXCEPT !.created = @ + 1, !.peak = top]
         IN  /\ now \in Stats /\ now.created = stats.created + 1 /\ now.peak = top
             /\ now.requests = stats.requests /\ now.closed = stats.closed
             /\ now.failed = stats.failed
  <1> DEFINE now == [stats EXCEPT !.created = @ + 1, !.peak = top]
  <1>2. /\ now.created = stats.created + 1 /\ now.peak = top
        /\ now.requests = stats.requests /\ now.closed = stats.closed /\ now.failed = stats.failed
    BY DEF Stats
  <1>3. now \in Stats
    <2> DEFINE created == [stats EXCEPT !.created = @ + 1]
    <2>1. created \in Stats
      BY DEF Stats
    <2>2. now = [created EXCEPT !.peak = top]
      OBVIOUS
    <2> HIDE DEF created, now
    <2> QED
      BY <2>1, <2>2 DEF Stats
  <1> QED
    BY <1>2, <1>3

\* A step in which a user goes from one state to another.
LEMMA PoolCountsStep ==
  ASSUME PoolCounts, NEW u \in Users, Ask(u) \/ PoolStep(u)
  PROVE  PoolCounts' /\ (StatsCount => StatsCount')
  <1> USE DEF PoolCounts, StatsCount
  <1>1. \A state : Num(state) \in Nat
    BY NumType
  <1>2. CASE Ask(u)
    <2>1. /\ Num("starting")' = Num("starting") + 1 /\ Num("using")' = Num("using")
          /\ Num("closing")' = Num("closing") /\ Num("dropping")' = Num("dropping")
      BY <1>2, NumMoves DEF Ask, States
    <2>2. hold' \in [Users -> States]
      BY <1>2 DEF Ask, States
    <2> QED
      BY <1>1, <1>2, <2>1, <2>2 DEF Ask, Stats
  <1>3. CASE Starts(u)
    <2>1. /\ Num("starting")' = Num("starting") - 1 /\ Num("using")' = Num("using") + 1
          /\ Num("closing")' = Num("closing") /\ Num("dropping")' = Num("dropping")
          /\ Num("starting") >= 1
      BY <1>3, NumMoves DEF Starts, States
    <2>2. hold' \in [Users -> States]
      BY <1>3 DEF Starts, States
    <2> DEFINE top == Peak(poolStats.peak)
    <2>3. /\ active' = active + 1
          /\ poolStats' = [poolStats EXCEPT !.created = @ + 1, !.peak = top]
          /\ UNCHANGED <<drain, requests, badStarts, badCloses>>
      BY <1>3 DEF Starts
    <2>4. /\ poolStats.requests \in Nat /\ poolStats.created \in Nat /\ poolStats.closed \in Nat
          /\ poolStats.failed \in Nat /\ poolStats.peak \in Nat
      BY DEF Stats
    <2>5. top \in Nat /\ top \in {active + 1, poolStats.peak}
          /\ top >= active + 1 /\ top >= poolStats.peak
      BY <2>4 DEF Peak
    <2> HIDE DEF top
    <2>6. /\ poolStats' \in Stats
          /\ poolStats'.created = poolStats.created + 1 /\ poolStats'.peak = top
          /\ poolStats'.requests = poolStats.requests /\ poolStats'.closed = poolStats.closed
          /\ poolStats'.failed = poolStats.failed
      <3>1. poolStats \in Stats
        OBVIOUS
      <3> HIDE DEF PoolCounts, StatsCount
      <3> QED
        BY <2>3, <2>5, <3>1, CreatedStats, Zenon
    <2>7. PoolCounts'
      BY <1>1, <2>1, <2>2, <2>3, <2>4, <2>5, <2>6
    <2>8. StatsCount => StatsCount'
      BY <1>1, <2>1, <2>3, <2>4, <2>5, <2>6
    <2> QED
      BY <2>7, <2>8
  <1>4. CASE StartFails(u)
    <2>1. /\ Num("starting")' = Num("starting") - 1 /\ Num("using")' = Num("using")
          /\ Num("closing")' = Num("closing") /\ Num("dropping")' = Num("dropping") + 1
      BY <1>4, NumMoves DEF StartFails, States
    <2>2. hold' \in [Users -> States]
      BY <1>4 DEF StartFails, States
    <2> QED
      BY <1>1, <1>4, <2>1, <2>2 DEF StartFails, Stats
  <1>5. ASSUME NEW failed \in BOOLEAN, Done(u, failed) PROVE PoolCounts' /\ (StatsCount => StatsCount')
    <2>1. /\ Num("starting")' = Num("starting") /\ Num("using")' = Num("using") - 1
          /\ Num("closing")' = Num("closing") + 1 /\ Num("dropping")' = Num("dropping")
      BY <1>5, NumMoves DEF Done, States
    <2>2. hold' \in [Users -> States]
      BY <1>5 DEF Done, States
    <2>3. CASE failed = TRUE
      BY <1>1, <1>5, <2>1, <2>2, <2>3 DEF Done, Stats
    <2>4. CASE failed = FALSE
      BY <1>1, <1>5, <2>1, <2>2, <2>4 DEF Done, Stats
    <2> QED
      BY <2>3, <2>4
  <1>6. ASSUME NEW a \in {"closing", "dropping"}, hold[u] = a, Closes(u) \/ CloseFails(u)
        PROVE  PoolCounts' /\ (StatsCount => StatsCount')
    <2>1. /\ Num(a)' = Num(a) - 1 /\ Num(a) >= 1
          /\ \A b \in {"starting", "using", "closing", "dropping"} \ {a} : Num(b)' = Num(b)
      BY <1>6, NumMoves DEF Closes, CloseFails, States
    <2>2. hold' \in [Users -> States]
      BY <1>6 DEF Closes, CloseFails, States
    <2>3. CASE Closes(u) /\ a = "closing"
      BY <1>1, <2>1, <2>2, <2>3 DEF Closes, OneLess, Stats
    <2>4. CASE Closes(u) /\ a = "dropping"
      BY <1>1, <2>1, <2>2, <2>4 DEF Closes, OneLess, Stats
    <2>5. CASE CloseFails(u) /\ a = "closing"
      BY <1>1, <2>1, <2>2, <2>5 DEF CloseFails, Stats
    <2>6. CASE CloseFails(u) /\ a = "dropping"
      BY <1>1, <2>1, <2>2, <2>6 DEF CloseFails, Stats
    <2> QED
      BY <1>6, <2>3, <2>4, <2>5, <2>6
  <1> QED
    BY <1>2, <1>3, <1>4, <1>5, <1>6 DEF PoolStep, Closes, CloseFails

\* A reset of the statistics.
LEMMA PoolCountsReset ==
  ASSUME PoolCounts, ResetStatistics
  PROVE  PoolCounts' /\ (~resetInUse' => StatsCount')
  <1>1. \A state : Num(state)' = Num(state)
    BY DEF ResetStatistics, Num, In
  <1>2. \A state : Num(state) \in Nat
    BY NumType
  <1>3. PoolCounts'
    BY <1>1, <1>2 DEF ResetStatistics, PoolCounts, Zero, Stats
  <1>4. ASSUME ~resetInUse' PROVE StatsCount'
    <2>1. ~(active > 0) /\ \A u \in Users : hold[u] = "idle"
      BY <1>4, Zenon DEF ResetStatistics
    <2>2. ASSUME NEW state \in States \ {"idle"} PROVE Num(state) = 0
      <3>1. In(state) = {}
        BY <2>1 DEF In
      <3> QED
        BY <3>1, FS_EmptySet DEF Num
    <2>3. active = 0 /\ active' = active /\ poolStats' = Zero
      BY <2>1 DEF ResetStatistics, PoolCounts
    <2> QED
      BY <1>1, <2>2, <2>3 DEF StatsCount, Zero, States
  <1> QED
    BY <1>3, <1>4

\* Every step of the pool.
LEMMA CountsNext == CountsInv /\ [PoolNext]_poolVars => CountsInv'
  <1> SUFFICES ASSUME CountsInv, [PoolNext]_poolVars PROVE CountsInv'
    OBVIOUS
  <1>0. PoolCounts
    BY DEF CountsInv
  <1>1. ASSUME NEW u \in Users, Ask(u) \/ PoolStep(u) PROVE CountsInv'
    <2>1. resetInUse' = resetInUse
      BY <1>1 DEF PoolStep, Ask, Starts, StartFails, Done, Closes, CloseFails
    <2> QED
      BY <1>0, <1>1, <2>1, PoolCountsStep, Zenon DEF CountsInv
  <1>2. CASE ResetStatistics
    BY <1>0, <1>2, PoolCountsReset, Zenon DEF CountsInv
  <1>3. ASSUME UNCHANGED <<hold, active, poolStats, requests, badStarts, badCloses, resetInUse>>,
               drain' \in {"idle", "polling", "drained", "expired"}
        PROVE  CountsInv'
    <2>1. \A state : Num(state)' = Num(state)
      BY <1>3 DEF Num, In
    <2>2. PoolCounts' /\ (StatsCount => StatsCount')
      BY <1>0, <1>3, <2>1 DEF PoolCounts, StatsCount
    <2> QED
      BY <1>3, <2>2, Zenon DEF CountsInv
  <1>4. CASE BeginDrain \/ DrainTurn \/ UNCHANGED poolVars
    <2>1. drain' \in {"idle", "polling", "drained", "expired"}
      BY <1>0, <1>4 DEF BeginDrain, DrainTurn, poolVars, PoolCounts
    <2>2. UNCHANGED <<hold, active, poolStats, requests, badStarts, badCloses, resetInUse>>
      BY <1>4 DEF BeginDrain, DrainTurn, poolVars
    <2> QED
      BY <1>3, <2>1, <2>2
  <1> QED
    BY <1>1, <1>2, <1>4 DEF PoolNext

\* The counter the drain relies on and the statistics agree with the connections there are,
\* but for connections that did not start or close, and resets under way.
THEOREM PoolCountsHold == PoolSpec => []PoolInv
  <1> QED
    BY CountsInit, CountsNext, CountsImply, PTL DEF PoolSpec

\* A drain that says so finds no connection in use, unless one did not start.
THEOREM DrainedPoolIsIdle == PoolSpec => DrainedIsIdle
  <1>1. CountsInv /\ [PoolNext]_poolVars =>
          [drain' = "drained" /\ drain' # drain => Cardinality(Holding) <= badStarts]_poolVars
    <2> SUFFICES ASSUME CountsInv, PoolNext, drain' = "drained", drain' # drain
                 PROVE  Cardinality(Holding) <= badStarts
      OBVIOUS
    <2>1. active = 0
      BY DEF PoolNext, PoolStep, Ask, Starts, StartFails, Done, Closes, CloseFails,
             ResetStatistics, BeginDrain, DrainTurn
    <2>2. Cardinality(Holding) - badStarts <= active
      BY CountsImply DEF PoolInv, ActiveTracksUse
    <2>3. Cardinality(Holding) \in Nat /\ badStarts \in Nat
      <3>1. PoolCounts
        BY DEF CountsInv
      <3> QED
        BY <3>1, NumSums, NumType DEF PoolCounts
    <2> QED
      BY <2>1, <2>2, <2>3
  <1> QED
    BY <1>1, CountsInit, CountsNext, PTL DEF PoolSpec, DrainedIsIdle

-----------------------------------------------------------------------------
(* The life of the database manager *)

Does == {"nothing", "stopping", "disposing", "dropping"}
ShuttingDown == {o \in Operators : operator[o].does \in {"stopping", "disposing"}}

\* The shape of the manager's state: whoever is about to dispose of an engine has one.
LifeTypeOK ==
    /\ engines \in 0 .. MaxEngines /\ engine \in (1 .. engines) \cup {NoEngine}
    /\ checking \subseteq 1 .. engines /\ disposed \subseteq 1 .. engines
    /\ operator \in [Operators -> [does : Does, old : (1 .. engines) \cup {NoEngine}]]
    /\ {initialized, overlapped, disposeFailed} \subseteq BOOLEAN
    /\ initialized => engine # NoEngine
    /\ \A o \in Operators :
          /\ operator[o].does = "stopping" => engine # NoEngine
          /\ operator[o].does \in {"disposing", "dropping"} => operator[o].old # NoEngine

\* Why CheckerFollowsManager and NoEngineLost are inductive: a single shutdown works on a
\* manager that is initialised and no longer watched, and disposes of the manager's engine.
SingleShutdown ==
    /\ \A o, p \in ShuttingDown : o = p
    /\ ShuttingDown # {} => initialized /\ checking = {}
    /\ \A o \in Operators : operator[o].does = "disposing" => operator[o].old = engine

Watched ==
    /\ checking \subseteq {engine}
    /\ checking # {} => initialized
    /\ initialized /\ checking = {} => disposeFailed \/ ShuttingDown # {}

EnginesKept ==
    /\ used \subseteq disposed \cup {engine}
    /\ ~initialized => used \subseteq disposed

Undisturbed == SingleShutdown /\ Watched /\ EnginesKept

LifeHolds == LifeTypeOK /\ (~overlapped => Undisturbed)

LEMMA LifeImplies == LifeHolds => CheckerFollowsManager /\ NoEngineLost
  <1>1. ShuttingDown # {} => \E o \in Operators : operator[o].does \in {"stopping", "disposing"}
    BY DEF ShuttingDown
  <1> QED
    BY <1>1, Zenon DEF LifeHolds, Undisturbed, Watched, EnginesKept, CheckerFollowsManager, NoEngineLost

LEMMA LifeInit == ManagerInit => LifeHolds
  <1> SUFFICES ASSUME ManagerInit PROVE LifeHolds
    OBVIOUS
  <1>1. ShuttingDown = {} /\ \A o \in Operators : operator[o].does # "disposing"
    BY DEF ManagerInit, ShuttingDown, Idle
  <1>2. LifeTypeOK
    <2>1. operator \in [Operators -> [does : Does, old : (1 .. engines) \cup {NoEngine}]]
      BY DEF ManagerInit, Idle, Does
    <2>2. \A o \in Operators : operator[o].does = "nothing"
      BY DEF ManagerInit, Idle
    <2> QED
      <3>1. /\ engines = 0 /\ engine = NoEngine /\ checking = {} /\ disposed = {}
            /\ initialized = FALSE /\ overlapped = FALSE /\ disposeFailed = FALSE
        BY DEF ManagerInit
      <3>2. engines \in 0 .. MaxEngines
        BY <3>1, ManagerAssumption
      <3> QED
        BY <2>1, <2>2, <3>1, <3>2 DEF LifeTypeOK
  <1>3. Undisturbed
    BY <1>1 DEF ManagerInit, Undisturbed, SingleShutdown, Watched, EnginesKept
  <1> QED
    BY <1>2, <1>3 DEF LifeHolds

\* A step that leaves the manager's engine, checker and shutdowns alone disturbs nothing.
LEMMA LifeFrame ==
  ASSUME Undisturbed, ShuttingDown' = ShuttingDown, disposed \subseteq disposed',
         UNCHANGED <<initialized, engine, checking, used, disposeFailed>>,
         \A p \in Operators : operator'[p].does = "disposing" => operator'[p] = operator[p]
  PROVE  Undisturbed'
  <1>1. SingleShutdown'
    BY DEF Undisturbed, SingleShutdown
  <1>2. Watched'
    BY DEF Undisturbed, Watched
  <1>3. EnginesKept'
    BY DEF Undisturbed, EnginesKept
  <1> QED
    BY <1>1, <1>2, <1>3 DEF Undisturbed

\* The types survive the making of an engine.
LEMMA LifeTypeInitialize ==
  ASSUME LifeTypeOK, NEW works \in BOOLEAN, Initialize(works)
  PROVE  /\ engines' \in 0 .. MaxEngines /\ engine' \in (1 .. engines') \cup {NoEngine}
         /\ checking' \subseteq 1 .. engines' /\ 1 .. engines \subseteq 1 .. engines'
         /\ {initialized', disposeFailed'} \subseteq BOOLEAN
         /\ initialized' => engine' # NoEngine
         /\ engine # NoEngine => engine' # NoEngine
  <1> USE ManagerAssumption DEF LifeTypeOK
  <1>1. CASE initialized
    BY <1>1 DEF Initialize
  <1>2. CASE ~initialized
    <2>1. /\ engines' = engines + 1 /\ engine' = engines + 1 /\ engines < MaxEngines
          /\ checking' \subseteq checking \cup {engines + 1}
          /\ initialized' = works /\ disposeFailed' = FALSE
      BY <1>2 DEF Initialize
    <2>2. engines + 1 \in 1 .. engines' /\ engines' \in 0 .. MaxEngines
      BY <2>1
    <2>3. 1 .. engines \subseteq 1 .. engines'
      BY <2>1
    <2>4. engine' # NoEngine
      BY <2>1
    <2> QED
      BY <2>1, <2>2, <2>3, <2>4
  <1> QED
    BY <1>1, <1>2

\* Clients leave the manager's life alone.
LEMMA LifeOfClients ==
  ASSUME NEW c \in Clients, Begin(c) \/ ClientStep(c)
  PROVE  UNCHANGED lifeVars
  BY DEF Begin, ClientStep, Becomes, BodyEnds, CommitSucceeds, CommitFails, RolledBack,
         SessionRolledBack, SessionClosed

LEMMA LifeTypeNext == LifeTypeOK /\ [ManagerNext]_dbmVars => LifeTypeOK'
  <1> SUFFICES ASSUME LifeTypeOK, [ManagerNext]_dbmVars PROVE LifeTypeOK'
    OBVIOUS
  <1> USE ManagerAssumption
  <1>1. ASSUME NEW o \in Operators, NEW works \in BOOLEAN, CallInitialize(o, works)
        PROVE  LifeTypeOK'
    <2>1. Initialize(works) /\ UNCHANGED <<disposed, operator, overlapped>>
      BY <1>1 DEF CallInitialize
    <2> QED
      BY <2>1, LifeTypeInitialize DEF LifeTypeOK
  <1>2. ASSUME NEW o \in Operators, NEW works \in BOOLEAN, RecreateEngine(o, works)
        PROVE  LifeTypeOK'
    <2>1. Initialize(works) /\ UNCHANGED <<disposed, overlapped>> /\ engine # NoEngine
      BY <1>2 DEF RecreateEngine
    <2>2. \/ operator' = operator
          \/ operator' = [operator EXCEPT ![o] = [does |-> "dropping", old |-> engine]]
      BY <1>2 DEF RecreateEngine
    <2> QED
      BY <2>1, <2>2, LifeTypeInitialize DEF LifeTypeOK, Does
  <1>3. ASSUME NEW o \in Operators, BeginShutdown(o) PROVE LifeTypeOK'
    BY <1>3 DEF BeginShutdown, LifeTypeOK, Does
  <1>4. ASSUME NEW o \in Operators, ShutdownStep(o) PROVE LifeTypeOK'
    <2>1. CASE CheckerStopped(o)
      BY <2>1 DEF CheckerStopped, LifeTypeOK, Does
    <2>2. CASE DisposeFails(o)
      BY <2>2 DEF DisposeFails, LifeTypeOK, Does, Idle
    <2>3. CASE EngineDisposed(o)
      <3>1. operator[o].old \in 1 .. engines
        BY <2>3 DEF EngineDisposed, LifeTypeOK
      <3>2. disposed' \subseteq 1 .. engines /\ initialized' = FALSE
        BY <2>3, <3>1 DEF EngineDisposed, LifeTypeOK
      <3> QED
        BY <2>3, <3>2 DEF EngineDisposed, LifeTypeOK, Does, Idle
    <2> QED
      BY <1>4, <2>1, <2>2, <2>3 DEF ShutdownStep
  <1>5. ASSUME NEW o \in Operators, NEW works \in BOOLEAN, OldEngineGone(o, works)
        PROVE  LifeTypeOK'
    BY <1>5 DEF OldEngineGone, LifeTypeOK, Does, Idle
  <1>6. CASE UNCHANGED lifeVars
    BY <1>6 DEF lifeVars, LifeTypeOK
  <1>7. UNCHANGED dbmVars => UNCHANGED lifeVars
    BY DEF dbmVars, lifeVars
  <1> QED
    BY <1>1, <1>2, <1>3, <1>4, <1>5, <1>6, <1>7, LifeOfClients DEF ManagerNext

\* An engine is made while no shutdown is under way.
LEMMA LifeInitialize ==
  ASSUME LifeTypeOK, Undisturbed, NEW o \in Operators, NEW works \in BOOLEAN,
         CallInitialize(o, works) \/ RecreateEngine(o, works)
  PROVE  Undisturbed'
  <1>1. Initialize(works) /\ disposed' = disposed /\ operator[o] = Idle
    BY DEF CallInitialize, RecreateEngine
  <1>2. /\ ShuttingDown' = ShuttingDown
        /\ \A p \in Operators : operator'[p].does = "disposing" => operator'[p] = operator[p]
    BY <1>1 DEF CallInitialize, RecreateEngine, ShuttingDown, LifeTypeOK, Idle
  <1>3. CASE initialized
    <2>1. UNCHANGED <<initialized, engine, checking, used, disposeFailed>>
      BY <1>1, <1>3 DEF Initialize
    <2> QED
      BY <1>1, <1>2, <2>1, LifeFrame
  <1>4. CASE ~initialized
    <2>1. ShuttingDown = {} /\ checking = {} /\ used \subseteq disposed
      BY <1>4 DEF Undisturbed, SingleShutdown, Watched, EnginesKept
    <2>2. \A p \in Operators : operator'[p].does # "disposing"
      BY <1>2, <2>1 DEF ShuttingDown
    <2>3. /\ initialized' = works
          /\ checking' = IF works THEN {engine'} ELSE {}
          /\ used' = IF works THEN used \cup {engine'} ELSE used
      BY <1>1, <1>4, <2>1 DEF Initialize
    <2>4. SingleShutdown'
      BY <1>2, <2>1, <2>2 DEF SingleShutdown
    <2>5. Watched'
      BY <2>3 DEF Watched
    <2>6. EnginesKept'
      BY <1>1, <2>1, <2>3 DEF EnginesKept
    <2> QED
      BY <2>4, <2>5, <2>6 DEF Undisturbed
  <1> QED
    BY <1>3, <1>4

\* A shutdown begins while there is no other.
LEMMA LifeBeginShutdown ==
  ASSUME LifeTypeOK, Undisturbed, NEW o \in Operators, BeginShutdown(o), ShuttingDown = {}
  PROVE  Undisturbed'
  <1>1. ShuttingDown' = {o} /\ \A p \in Operators : operator'[p].does # "disposing"
    BY DEF BeginShutdown, ShuttingDown, LifeTypeOK
  <1>2. /\ checking' = {} /\ initialized /\ disposed' = disposed
        /\ UNCHANGED <<initialized, engine, used, disposeFailed>>
    BY DEF BeginShutdown, Undisturbed, Watched
  <1>3. SingleShutdown'
    BY <1>1, <1>2 DEF SingleShutdown
  <1>4. Watched'
    BY <1>1, <1>2 DEF Watched
  <1>5. EnginesKept'
    BY <1>2 DEF Undisturbed, EnginesKept
  <1> QED
    BY <1>3, <1>4, <1>5 DEF Undisturbed

\* A shutdown goes on.
LEMMA LifeShutdownStep ==
  ASSUME LifeTypeOK, Undisturbed, NEW o \in Operators, ShutdownStep(o)
  PROVE  Undisturbed'
  <1>1. operator \in [Operators -> [does : Does, old : (1 .. engines) \cup {NoEngine}]]
    BY DEF LifeTypeOK
  <1>2. ShuttingDown = {o} /\ initialized /\ checking = {}
    <2>1. o \in ShuttingDown
      BY DEF ShutdownStep, CheckerStopped, EngineDisposed, DisposeFails, ShuttingDown
    <2> QED
      BY <2>1 DEF Undisturbed, SingleShutdown
  <1>3. CASE CheckerStopped(o)
    <2>1. /\ ShuttingDown' = {o}
          /\ UNCHANGED <<initialized, engine, checking, used, disposed, disposeFailed>>
      BY <1>1, <1>2, <1>3 DEF CheckerStopped, ShuttingDown
    <2>2. \A p \in Operators : operator'[p].does = "disposing" => operator'[p].old = engine
      BY <1>1, <1>2, <1>3 DEF CheckerStopped, ShuttingDown
    <2>3. SingleShutdown'
      BY <1>2, <2>1, <2>2 DEF SingleShutdown
    <2>4. Watched'
      BY <1>2, <2>1 DEF Undisturbed, Watched
    <2>5. EnginesKept'
      BY <2>1 DEF Undisturbed, EnginesKept
    <2> QED
      BY <2>3, <2>4, <2>5 DEF Undisturbed
  <1>4. CASE EngineDisposed(o) \/ DisposeFails(o)
    <2>1. operator[o].does = "disposing" /\ operator' = [operator EXCEPT ![o] = Idle]
      BY <1>4 DEF EngineDisposed, DisposeFails
    <2>2. ShuttingDown' = {} /\ operator[o].old = engine
      <3>1. operator[o].old = engine
        BY <2>1 DEF Undisturbed, SingleShutdown
      <3>2. \A p \in Operators : operator'[p] = IF p = o THEN Idle ELSE operator[p]
        BY <1>1, <2>1
      <3>3. ShuttingDown' = {}
        BY <1>2, <3>2 DEF ShuttingDown, Idle
      <3> QED
        BY <3>1, <3>3
    <2>3. \A p \in Operators : operator'[p].does # "disposing"
      BY <2>2 DEF ShuttingDown
    <2>4. SingleShutdown'
      BY <2>2, <2>3 DEF SingleShutdown
    <2>5. checking' = {} /\ engine' = engine /\ used' = used
      BY <1>2, <1>4 DEF EngineDisposed, DisposeFails
    <2>6. CASE EngineDisposed(o)
      <3>1. ~initialized' /\ disposed' = disposed \cup {engine}
        BY <2>2, <2>6 DEF EngineDisposed
      <3>2. Watched'
        BY <2>5, <3>1 DEF Watched
      <3>3. EnginesKept'
        BY <2>5, <3>1 DEF Undisturbed, EnginesKept
      <3> QED
        BY <2>4, <3>2, <3>3 DEF Undisturbed
    <2>7. CASE DisposeFails(o)
      <3>1. disposeFailed' /\ initialized' /\ disposed' = disposed
        BY <1>2, <2>7 DEF DisposeFails
      <3>2. Watched'
        BY <2>5, <3>1 DEF Watched
      <3>3. EnginesKept'
        BY <2>5, <3>1 DEF Undisturbed, EnginesKept
      <3> QED
        BY <2>4, <3>2, <3>3 DEF Undisturbed
    <2> QED
      BY <1>4, <2>6, <2>7
  <1> QED
    BY <1>3, <1>4 DEF ShutdownStep

\* Every step of operators and clients.
LEMMA LifeNext == LifeHolds /\ [ManagerNext]_dbmVars => LifeHolds'
  <1> SUFFICES ASSUME LifeHolds, [ManagerNext]_dbmVars PROVE LifeHolds'
    OBVIOUS
  <1>1. LifeTypeOK /\ LifeTypeOK' /\ (~overlapped => Undisturbed)
    BY LifeTypeNext DEF LifeHolds
  <1>2. ASSUME NEW o \in Operators, NEW works \in BOOLEAN,
               CallInitialize(o, works) \/ RecreateEngine(o, works)
        PROVE  LifeHolds'
    <2>1. overlapped' = overlapped
      BY <1>2 DEF CallInitialize, RecreateEngine
    <2> QED
      BY <1>1, <1>2, <2>1, LifeInitialize, Zenon DEF LifeHolds
  <1>3. ASSUME NEW o \in Operators, NEW works \in BOOLEAN, OldEngineGone(o, works)
        PROVE  LifeHolds'
    <2>1. /\ ShuttingDown' = ShuttingDown
          /\ \A p \in Operators : operator'[p].does = "disposing" => operator'[p] = operator[p]
      BY <1>1, <1>3 DEF OldEngineGone, ShuttingDown, LifeTypeOK, Idle
    <2>2. /\ UNCHANGED <<used, initialized, engine, checking, overlapped, disposeFailed>>
          /\ disposed \subseteq disposed'
      BY <1>3 DEF OldEngineGone
    <2> QED
      BY <1>1, <2>1, <2>2, LifeFrame, Zenon DEF LifeHolds
  <1>4. ASSUME NEW o \in Operators, BeginShutdown(o) PROVE LifeHolds'
    <2>1. ~overlapped' => ~overlapped /\ ShuttingDown = {}
      <3>1. overlapped' = (overlapped \/ \E p \in Operators : operator[p].does \in {"stopping", "disposing"})
        BY <1>4 DEF BeginShutdown
      <3>2. (~\E p \in Operators : operator[p].does \in {"stopping", "disposing"}) => ShuttingDown = {}
        BY DEF ShuttingDown
      <3> QED
        BY <3>1, <3>2, Zenon
    <2> QED
      BY <1>1, <1>4, <2>1, LifeBeginShutdown, Zenon DEF LifeHolds
  <1>5. ASSUME NEW o \in Operators, ShutdownStep(o) PROVE LifeHolds'
    <2>1. overlapped' = overlapped
      BY <1>5 DEF ShutdownStep, CheckerStopped, EngineDisposed, DisposeFails
    <2> QED
      BY <1>1, <1>5, <2>1, LifeShutdownStep, Zenon DEF LifeHolds
  <1>6. ASSUME UNCHANGED lifeVars PROVE LifeHolds'
    <2>1. ShuttingDown' = ShuttingDown /\ operator' = operator
      BY <1>6 DEF lifeVars, ShuttingDown
    <2>2. UNCHANGED <<used, initialized, engine, checking, disposed, overlapped, disposeFailed>>
      BY <1>6 DEF lifeVars
    <2> QED
      BY <1>1, <2>1, <2>2, LifeFrame DEF LifeHolds
  <1>7. UNCHANGED dbmVars => UNCHANGED lifeVars
    BY DEF dbmVars, lifeVars
  <1> QED
    BY <1>2, <1>3, <1>4, <1>5, <1>6, <1>7, LifeOfClients DEF ManagerNext

\* The transactions under way, and why they are counted.
Counted == {c \in Clients : client[c] \in {"working", "committing", "undoing"}}

CountHolds ==
    /\ client \in [Clients -> {"idle", "working", "committing", "undoing", "undone", "closing"}]
    /\ transactions = Cardinality(Counted)

\* How many transactions are under way is a number, no larger than that of the clients.
LEMMA CountedType ==
  /\ IsFiniteSet(Counted)
  /\ Cardinality(Counted) \in Nat
  /\ Cardinality(Counted) <= Cardinality(Clients)
  BY ManagerAssumption, FS_Subset, FS_CardinalityType DEF Counted

LEMMA CountInit == ManagerInit => CountHolds
  <1> SUFFICES ASSUME ManagerInit PROVE CountHolds
    OBVIOUS
  <1>1. Counted = {}
    BY DEF ManagerInit, Counted
  <1> QED
    BY <1>1, FS_EmptySet DEF ManagerInit, CountHolds

\* A transaction begins, or goes on.
LEMMA CountStep ==
  ASSUME CountHolds, NEW c \in Clients, Begin(c) \/ ClientStep(c)
  PROVE  CountHolds'
  <1>1. client \in [Clients -> {"idle", "working", "committing", "undoing", "undone", "closing"}]
    BY DEF CountHolds
  <1>2. CASE Begin(c)
    <2>1. Counted' = Counted \cup {c} /\ c \notin Counted
      BY <1>1, <1>2 DEF Begin, Counted
    <2>2. Cardinality(Counted') = Cardinality(Counted) + 1
      BY <2>1, CountedType, FS_AddElement
    <2> QED
      BY <1>1, <1>2, <2>2 DEF Begin, CountHolds
  <1>3. CASE CommitSucceeds(c) \/ RolledBack(c)
    <2>1. Counted' = Counted \ {c} /\ c \in Counted
      BY <1>1, <1>3 DEF CommitSucceeds, RolledBack, Becomes, Counted
    <2>2. Cardinality(Counted') = Cardinality(Counted) - 1 /\ Cardinality(Counted) # 0
      BY <2>1, CountedType, FS_RemoveElement, FS_EmptySet
    <2>3. transactions' = transactions - 1
      BY <1>3, <2>2 DEF CommitSucceeds, RolledBack, OneTransactionLess, CountHolds
    <2> QED
      BY <1>1, <1>3, <2>2, <2>3 DEF CommitSucceeds, RolledBack, Becomes, CountHolds
  <1>4. CASE BodyEnds(c) \/ CommitFails(c) \/ SessionRolledBack(c) \/ SessionClosed(c)
    <2>1. PICK state \in {"idle", "committing", "undoing", "closing"} :
             /\ client' = [client EXCEPT ![c] = state] /\ transactions' = transactions
             /\ \/ client[c] \in {"working", "committing"} /\ state \in {"committing", "undoing"}
                \/ client[c] \in {"undone", "closing"} /\ state \in {"closing", "idle"}
      BY <1>4 DEF BodyEnds, CommitFails, SessionRolledBack, SessionClosed, Becomes
    <2>2. Counted' = Counted
      BY <1>1, <2>1 DEF Counted
    <2> QED
      BY <1>1, <2>1, <2>2 DEF CountHolds
  <1> QED
    BY <1>2, <1>3, <1>4 DEF ClientStep

\* Every step of operators and clients.
LEMMA CountNext == CountHolds /\ [ManagerNext]_dbmVars => CountHolds'
  <1> SUFFICES ASSUME CountHolds, [ManagerNext]_dbmVars PROVE CountHolds'
    OBVIOUS
  <1>1. ASSUME UNCHANGED transactionVars PROVE CountHolds'
    BY <1>1 DEF transactionVars, CountHolds, Counted
  <1>2. \/ UNCHANGED transactionVars
        \/ \E c \in Clients : Begin(c) \/ ClientStep(c)
    BY DEF ManagerNext, dbmVars, transactionVars, CallInitialize, RecreateEngine, OldEngineGone,
           BeginShutdown, ShutdownStep, CheckerStopped, EngineDisposed, DisposeFails
  <1> QED
    BY <1>1, <1>2, CountStep

\* As long as shutdowns do not overlap, the engine in use and no other is watched and no
\* engine that was in use is lost; transactions are counted throughout.
THEOREM ManagerIsKept == ManagerSpec => []ManagerInv
  <1>1. ManagerInit => LifeHolds /\ CountHolds
    BY LifeInit, CountInit
  <1>2. LifeHolds /\ CountHolds /\ [ManagerNext]_dbmVars => (LifeHolds /\ CountHolds)'
    BY LifeNext, CountNext
  <1>3. LifeHolds /\ CountHolds => ManagerInv
    <2> SUFFICES ASSUME LifeHolds, CountHolds PROVE ManagerInv
      OBVIOUS
    <2>1. TransactionsCounted
      BY DEF CountHolds, Counted, TransactionsCounted
    <2>2. ManagerTypeOK
      <3>1. transactions \in 0 .. Cardinality(Clients)
        <4>1. Cardinality(Clients) \in Nat
          BY ManagerAssumption, FS_CardinalityType
        <4> QED
          BY <4>1, CountedType DEF CountHolds
      <3>2. \A o \in Operators : operator[o].does \in Does
        BY DEF LifeHolds, LifeTypeOK
      <3> QED
        BY <3>1, <3>2 DEF LifeHolds, LifeTypeOK, CountHolds, ManagerTypeOK, Does
    <2> QED
      BY <2>1, <2>2, LifeImplies DEF ManagerInv
  <1> QED
    BY <1>1, <1>2, <1>3, PTL DEF ManagerSpec

-----------------------------------------------------------------------------
(* The health checker *)

CheckStates == {"idle", "query", "telling", "sleep", "ended"}

\* The shape of the checker's state.
CheckerTypeOK ==
    /\ {isRunning, isHealthy, reset, muddled} \subseteq BOOLEAN
    /\ loops \in 0 .. MaxLoops /\ cancelled \subseteq 1 .. loops
    /\ checkTask \in (1 .. loops) \cup {NoLoop} /\ (isRunning => checkTask # NoLoop)
    /\ checkAt \in [Checking -> CheckStates]
    /\ saying \in [Checking -> BOOLEAN] /\ position \in [Checking -> Nat \ {0}]
    /\ callbacks \in Seq(Callbacks) /\ told \in [Callbacks -> BOOLEAN]
    /\ consecutiveFailures \in Nat /\ checksDone \in Nat /\ consecutiveFailures <= checksDone

\* Why ToldTheTruth is inductive: while calls do not overlap there is one teller at most, it says
\* what the health is, has told those before its position, and whoever is to tell starts at the first.
ToldBefore(n) == \A i \in DOMAIN callbacks : i < n => told[callbacks[i]] = isHealthy

Truthful ==
    /\ \A v, w \in Telling : v = w
    /\ Telling = {} => \A b \in ToSet(callbacks) : told[b] = isHealthy
    /\ \A w \in Telling : saying[w] = isHealthy /\ ToldBefore(position[w])
    /\ \A w \in Checking : checkAt[w] \notin {"telling", "ended"} => position[w] = 1

\* A loop that has not been started does nothing.
Unstarted == \A l \in LoopIds \ (1 .. loops) : checkAt[l] = "idle"

CheckerInv == CheckerTypeOK /\ Unstarted /\ OneLoop /\ HealthFollowsChecks /\ (~muddled => Truthful)

\* What is left of a list when one of its elements is removed.
LEMMA RemoveAtType ==
  ASSUME NEW S, NEW s \in Seq(S), NEW i \in DOMAIN s
  PROVE  RemoveAt(s, i) \in Seq(S)
  <1>1. /\ i \in Int /\ Len(s) \in Nat /\ DOMAIN s = 1 .. Len(s)
        /\ \A j \in 1 .. Len(s) : s[j] \in S
    BY LenProperties
  <1>2. SubSeq(s, 1, i - 1) \in Seq(S)
    <2>1. \A j \in 1 .. i - 1 : s[j] \in S
      BY <1>1
    <2> QED
      BY <1>1, <2>1, SubSeqProperties
  <1>3. SubSeq(s, i + 1, Len(s)) \in Seq(S)
    <2>1. \A j \in i + 1 .. Len(s) : s[j] \in S
      BY <1>1
    <2> QED
      BY <1>1, <2>1, SubSeqProperties
  <1> QED
    BY <1>2, <1>3, ConcatProperties DEF RemoveAt

\* The elements of a list are those of its positions.
LEMMA ToSetType ==
  ASSUME NEW S, NEW s \in Seq(S)
  PROVE  /\ ToSet(s) \subseteq S /\ s \in Seq(ToSet(s))
         /\ \A x : x \in ToSet(s) <=> \E i \in 1 .. Len(s) : s[i] = x
  <1>1. Len(s) \in Nat /\ DOMAIN s = 1 .. Len(s) /\ s \in [1 .. Len(s) -> S]
    BY LenProperties
  <1>2. \A x : x \in ToSet(s) <=> \E i \in 1 .. Len(s) : s[i] = x
    BY <1>1 DEF ToSet
  <1>3. s \in [1 .. Len(s) -> ToSet(s)]
    BY <1>1, <1>2
  <1> QED
    BY <1>1, <1>2, <1>3, SeqDef

\* Loops and askers are different.
LEMMA LoopsAreNoAskers ==
  /\ LoopIds \cap Askers = {} /\ LoopIds \subseteq Checking /\ Askers \subseteq Checking
  /\ \A w \in Checking : After(w) = IF w \in LoopIds THEN "sleep" ELSE "idle"
  BY HealthAssumption DEF LoopIds, Checking, After

LEMMA CheckerInit == HealthInit => CheckerInv
  <1> SUFFICES ASSUME HealthInit PROVE CheckerInv
    OBVIOUS
  <1>1. /\ isRunning = FALSE /\ isHealthy = TRUE /\ reset = FALSE /\ muddled = FALSE
        /\ callbacks = <<>> /\ cancelled = {} /\ Telling = {}
    BY DEF HealthInit, Telling
  <1>2. CheckerTypeOK
    <2>1. checkAt \in [Checking -> CheckStates] /\ saying \in [Checking -> BOOLEAN]
          /\ position \in [Checking -> Nat \ {0}] /\ told \in [Callbacks -> BOOLEAN]
      BY DEF HealthInit, CheckStates
    <2>2. callbacks \in Seq(Callbacks) /\ loops \in 0 .. MaxLoops
      BY HealthAssumption DEF HealthInit
    <2>3. /\ loops = 0 /\ checkTask = NoLoop /\ consecutiveFailures = 0 /\ checksDone = 0
      BY DEF HealthInit
    <2>4. {isRunning, isHealthy, reset, muddled} \subseteq BOOLEAN
      BY <1>1
    <2>5. (isRunning => checkTask # NoLoop) /\ cancelled \subseteq 1 .. loops
      BY <1>1
    <2>6. consecutiveFailures \in Nat /\ checksDone \in Nat /\ consecutiveFailures <= checksDone
      BY <2>3
    <2> QED
      BY <2>1, <2>2, <2>3, <2>4, <2>5, <2>6 DEF CheckerTypeOK
  <1>6. Unstarted
    BY LoopsAreNoAskers DEF HealthInit, Unstarted
  <1>3. OneLoop
    BY <1>1, LoopsAreNoAskers DEF HealthInit, OneLoop
  <1>4. HealthFollowsChecks
    BY HealthAssumption DEF HealthInit, HealthFollowsChecks
  <1>5. Truthful
    <2>1. ToSet(callbacks) = {}
      BY <1>1 DEF ToSet
    <2> QED
      BY <1>1, <2>1 DEF HealthInit, Truthful
  <1> QED
    BY <1>2, <1>3, <1>4, <1>5, <1>6 DEF CheckerInv

-----------------------------------------------------------------------------
(* The checker's types *)

LEMMA CheckerTypeNext == CheckerTypeOK /\ [HealthNext]_hcVars => CheckerTypeOK'
  <1> SUFFICES ASSUME CheckerTypeOK, [HealthNext]_hcVars PROVE CheckerTypeOK'
    OBVIOUS
  <1> USE HealthAssumption, LoopsAreNoAskers DEF CheckerTypeOK, CheckStates
  <1>1. CASE StartMonitoring
    <2>1. loops + 1 \in LoopIds /\ loops' = loops + 1 /\ loops' \in 0 .. MaxLoops
          /\ 1 .. loops \subseteq 1 .. loops' /\ checkTask' \in 1 .. loops'
      BY <1>1 DEF StartMonitoring, LoopIds
    <2>2. checkAt' \in [Checking -> CheckStates]
      BY <1>1, <2>1 DEF StartMonitoring
    <2>3. checkTask' # NoLoop
      BY <2>1
    <2> QED
      BY <1>1, <2>1, <2>2, <2>3 DEF StartMonitoring
  <1>2. CASE StopMonitoring
    <2>1. checkTask \in 1 .. loops
      BY <1>2 DEF StopMonitoring
    <2> QED
      BY <1>2, <2>1 DEF StopMonitoring
  <1>3. CASE ResetMetrics
    BY <1>3 DEF ResetMetrics
  <1>4. ASSUME NEW l \in LoopIds, LoopBreaks(l) PROVE CheckerTypeOK'
    BY <1>4 DEF LoopBreaks
  <1>5. ASSUME NEW l \in LoopIds, LoopWakes(l) PROVE CheckerTypeOK'
    BY <1>5 DEF LoopWakes
  <1>6. ASSUME NEW a \in Askers, ForceCheck(a) PROVE CheckerTypeOK'
    BY <1>6 DEF ForceCheck
  <1>7. ASSUME NEW w \in Checking, NEW changed, NEW health, Queried(w), GoesOn(w, changed, health),
               consecutiveFailures' \in {0, consecutiveFailures + 1},
               isHealthy' \in BOOLEAN, reset' \in BOOLEAN
        PROVE  CheckerTypeOK'
    <2>1. checkAt' \in [Checking -> CheckStates]
      BY <1>7 DEF GoesOn
    <2>2. saying' \in [Checking -> BOOLEAN] /\ position' = position /\ muddled' \in BOOLEAN
      BY <1>7, Zenon DEF GoesOn
    <2>3. /\ consecutiveFailures' \in Nat /\ checksDone' \in Nat
          /\ consecutiveFailures' <= checksDone'
      BY <1>7 DEF Queried
    <2> QED
      BY <1>7, <2>1, <2>2, <2>3 DEF Queried
  <1>8. ASSUME NEW w \in Checking, CheckSucceeds(w) PROVE CheckerTypeOK'
    BY <1>7, <1>8 DEF CheckSucceeds
  <1>9. ASSUME NEW w \in Checking, CheckFails(w) PROVE CheckerTypeOK'
    BY <1>7, <1>9 DEF CheckFails
  <1>10. ASSUME NEW w \in Checking, Tell(w) PROVE CheckerTypeOK'
    <2>1. callbacks[position[w]] \in Callbacks
      BY <1>10, LenProperties DEF Tell
    <2> QED
      BY <1>10, <2>1 DEF Tell
  <1>11. ASSUME NEW w \in Checking, AllTold(w) PROVE CheckerTypeOK'
    BY <1>11 DEF AllTold
  <1>12. ASSUME NEW b \in Callbacks, AddCallback(b) PROVE CheckerTypeOK'
    BY <1>12, AppendProperties DEF AddCallback
  <1>13. ASSUME NEW b \in Callbacks, RemoveCallback(b) PROVE CheckerTypeOK'
    <2>1. callbacks' \in Seq(Callbacks)
      BY <1>13, RemoveAtType DEF RemoveCallback
    <2> QED
      BY <1>13, <2>1 DEF RemoveCallback
  <1>14. CASE UNCHANGED hcVars
    BY <1>14 DEF hcVars
  <1> QED
    BY <1>1, <1>2, <1>3, <1>4, <1>5, <1>6, <1>8, <1>9, <1>10, <1>11, <1>12, <1>13, <1>14
    DEF HealthNext, HealthStep

-----------------------------------------------------------------------------
(* One loop, and a health that follows the checks *)

\* The loops that check and are not asked to stop.
Alive == {l \in LoopIds : checkAt[l] \notin {"idle", "ended"}} \ cancelled

\* A task that goes on between its query, its callbacks and its pause lives on.
LEMMA AliveStays ==
  ASSUME CheckerTypeOK, NEW w \in Checking, NEW state \in CheckStates,
         checkAt' = [checkAt EXCEPT ![w] = state], cancelled' = cancelled,
         w \in LoopIds => checkAt[w] \notin {"idle", "ended"} /\ state \notin {"idle", "ended"}
  PROVE  Alive' = Alive
  BY LoopsAreNoAskers DEF CheckerTypeOK, Alive

LEMMA OneLoopNext == CheckerTypeOK /\ OneLoop /\ [HealthNext]_hcVars => OneLoop'
  <1> SUFFICES ASSUME CheckerTypeOK, OneLoop, [HealthNext]_hcVars PROVE OneLoop'
    OBVIOUS
  <1>1. OneLoop <=> Alive = IF isRunning THEN {checkTask} ELSE {}
    BY DEF OneLoop, Alive
  <1>2. OneLoop' <=> Alive' = IF isRunning' THEN {checkTask'} ELSE {}
    BY DEF OneLoop, Alive
  <1>3. ASSUME Alive' = Alive, UNCHANGED <<isRunning, checkTask>> PROVE OneLoop'
    BY <1>1, <1>2, <1>3
  <1>4. CASE StartMonitoring
    <2>1. loops + 1 \in LoopIds /\ loops + 1 \notin cancelled /\ checkAt' = [checkAt EXCEPT ![loops + 1] = "query"]
          /\ cancelled' = cancelled /\ isRunning' = TRUE /\ checkTask' = loops + 1
      BY <1>4, HealthAssumption DEF StartMonitoring, LoopIds, CheckerTypeOK
    <2>2. Alive = {}
      BY <1>1, <1>4 DEF StartMonitoring, MayBegin
    <2>3. Alive' = Alive \cup {loops + 1}
      BY <2>1, LoopsAreNoAskers DEF Alive, CheckerTypeOK
    <2> QED
      BY <1>2, <2>1, <2>2, <2>3
  <1>5. CASE StopMonitoring
    <2>1. Alive = {checkTask} /\ Alive' = Alive \ {checkTask}
      BY <1>1, <1>5 DEF StopMonitoring, Alive
    <2>2. Alive' = {} /\ isRunning' = FALSE
      BY <1>5, <2>1 DEF StopMonitoring
    <2> QED
      BY <1>2, <2>2
  <1>6. ASSUME NEW l \in LoopIds, LoopBreaks(l) PROVE OneLoop'
    <2>1. Alive' = Alive
      BY <1>6, LoopsAreNoAskers DEF LoopBreaks, Alive, CheckerTypeOK
    <2> QED
      BY <1>3, <1>6, <2>1 DEF LoopBreaks
  <1>7. ASSUME NEW l \in LoopIds, LoopWakes(l) PROVE OneLoop'
    BY <1>3, <1>7, AliveStays, LoopsAreNoAskers DEF LoopWakes, CheckStates
  <1>8. ASSUME NEW a \in Askers, ForceCheck(a) PROVE OneLoop'
    BY <1>3, <1>8, AliveStays, LoopsAreNoAskers DEF ForceCheck, CheckStates
  <1>9. ASSUME NEW w \in Checking, CheckSucceeds(w) \/ CheckFails(w) PROVE OneLoop'
    <2>1. PICK state \in {"telling", After(w)} : checkAt' = [checkAt EXCEPT ![w] = state]
      BY <1>9, Zenon DEF CheckSucceeds, CheckFails, GoesOn
    <2>2. state \in CheckStates /\ (w \in LoopIds => state \notin {"idle", "ended"})
      BY LoopsAreNoAskers DEF CheckStates
    <2>3. checkAt[w] = "query" /\ UNCHANGED <<cancelled, isRunning, checkTask>>
      BY <1>9 DEF CheckSucceeds, CheckFails, Queried
    <2>4. Alive' = Alive
      BY <2>1, <2>2, <2>3, AliveStays
    <2> QED
      BY <1>3, <2>3, <2>4
  <1>10. ASSUME NEW w \in Checking, AllTold(w) PROVE OneLoop'
    <2>1. checkAt' = [checkAt EXCEPT ![w] = After(w)] /\ checkAt[w] = "telling"
          /\ UNCHANGED <<cancelled, isRunning, checkTask>>
      BY <1>10 DEF AllTold, Telling
    <2>2. After(w) \in CheckStates /\ (w \in LoopIds => After(w) \notin {"idle", "ended"})
      BY LoopsAreNoAskers DEF CheckStates
    <2>3. Alive' = Alive
      BY <2>1, <2>2, AliveStays
    <2> QED
      BY <1>3, <2>1, <2>3
  <1>11. ASSUME UNCHANGED <<checkAt, cancelled, isRunning, checkTask>> PROVE OneLoop'
    BY <1>3, <1>11 DEF Alive
  <1>12. \/ StartMonitoring \/ StopMonitoring \/ \E l \in LoopIds : LoopBreaks(l) \/ LoopWakes(l)
         \/ \E a \in Askers : ForceCheck(a)
         \/ \E w \in Checking : CheckSucceeds(w) \/ CheckFails(w) \/ AllTold(w)
         \/ UNCHANGED <<checkAt, cancelled, isRunning, checkTask>>
    BY DEF HealthNext, HealthStep, hcVars, ResetMetrics, Tell, AddCallback, RemoveCallback
  <1> QED
    BY <1>4, <1>5, <1>6, <1>7, <1>8, <1>9, <1>10, <1>11, <1>12

\* The count of failures in a row and the health change together.
LEMMA HealthFollowsNext ==
  CheckerTypeOK /\ HealthFollowsChecks /\ [HealthNext]_hcVars => HealthFollowsChecks'
  <1> SUFFICES ASSUME CheckerTypeOK, HealthFollowsChecks, [HealthNext]_hcVars
               PROVE  HealthFollowsChecks'
    OBVIOUS
  <1> USE HealthAssumption
  <1>1. consecutiveFailures \in Nat
    BY DEF CheckerTypeOK
  <1>2. ASSUME NEW w \in Checking, CheckSucceeds(w) PROVE HealthFollowsChecks'
    <2>1. 0 < FailureThreshold /\ ~(0 >= FailureThreshold)
      OBVIOUS
    <2> QED
      BY <1>2, <2>1 DEF CheckSucceeds, HealthFollowsChecks
  <1>3. ASSUME NEW w \in Checking, CheckFails(w) PROVE HealthFollowsChecks'
    <2> DEFINE n == consecutiveFailures + 1
    <2>1. /\ consecutiveFailures' = n /\ reset' = reset
          /\ isHealthy' = (isHealthy /\ ~(n >= FailureThreshold))
      BY <1>3 DEF CheckFails, Unhealthy
    <2>2. /\ n < FailureThreshold <=> ~(n >= FailureThreshold)
          /\ n < FailureThreshold => consecutiveFailures < FailureThreshold
      BY <1>1
    <2> HIDE DEF n
    <2>3. /\ consecutiveFailures' < FailureThreshold <=> n < FailureThreshold
          /\ consecutiveFailures' >= FailureThreshold <=> n >= FailureThreshold
      BY <2>1
    <2> QED
      BY <2>1, <2>2, <2>3, Zenon DEF HealthFollowsChecks
  <1>4. CASE ResetMetrics
    <2>1. ~(0 >= FailureThreshold) /\ consecutiveFailures' = 0 /\ reset' = TRUE
      BY <1>4 DEF ResetMetrics
    <2> QED
      BY <2>1 DEF HealthFollowsChecks
  <1>5. ASSUME UNCHANGED <<consecutiveFailures, isHealthy, reset>> PROVE HealthFollowsChecks'
    BY <1>5 DEF HealthFollowsChecks
  <1>6. \/ ResetMetrics \/ \E w \in Checking : CheckSucceeds(w) \/ CheckFails(w)
        \/ UNCHANGED <<consecutiveFailures, isHealthy, reset>>
    BY DEF HealthNext, HealthStep, hcVars, StartMonitoring, StopMonitoring, LoopBreaks, LoopWakes,
           ForceCheck, Tell, AllTold, AddCallback, RemoveCallback
  <1> QED
    BY <1>2, <1>3, <1>4, <1>5, <1>6

\* Only start() starts a loop, and it starts the next one.
LEMMA UnstartedNext == CheckerTypeOK /\ Unstarted /\ [HealthNext]_hcVars => Unstarted'
  <1> SUFFICES ASSUME CheckerTypeOK, Unstarted, [HealthNext]_hcVars,
                      NEW l \in LoopIds \ (1 .. loops')
               PROVE  checkAt'[l] = "idle"
    BY DEF Unstarted, LoopIds
  <1>1. l \in Checking /\ loops' \in Nat /\ loops \in Nat /\ (l \notin 1 .. loops => checkAt[l] = "idle")
    BY LoopsAreNoAskers, CheckerTypeNext, HealthAssumption DEF Unstarted, CheckerTypeOK
  <1>2. CASE StartMonitoring
    <2>1. /\ loops' = loops + 1 /\ checkAt' = [checkAt EXCEPT ![loops + 1] = "query"]
      BY <1>2 DEF StartMonitoring
    <2>2. l # loops + 1 /\ l \notin 1 .. loops
      BY <1>1, <2>1
    <2> QED
      BY <1>1, <2>1, <2>2 DEF CheckerTypeOK
  <1>3. ASSUME loops' = loops, NEW w \in Checking, NEW state, w # l,
               checkAt' = [checkAt EXCEPT ![w] = state]
        PROVE  checkAt'[l] = "idle"
    BY <1>1, <1>3 DEF CheckerTypeOK
  <1>4. ASSUME NEW k \in LoopIds, LoopBreaks(k) \/ LoopWakes(k) PROVE checkAt'[l] = "idle"
    <2>1. k \in 1 .. loops /\ loops' = loops
      BY <1>4 DEF LoopBreaks, LoopWakes, CheckerTypeOK, Unstarted
    <2> QED
      BY <1>3, <1>4, <2>1, LoopsAreNoAskers DEF LoopBreaks, LoopWakes
  <1>5. ASSUME NEW a \in Askers, ForceCheck(a) PROVE checkAt'[l] = "idle"
    BY <1>3, <1>5, LoopsAreNoAskers DEF ForceCheck
  <1>6. ASSUME NEW w \in Checking, HealthStep(w) PROVE checkAt'[l] = "idle"
    <2>1. loops' = loops /\ (checkAt[w] \in {"query", "telling"} \/ checkAt' = checkAt)
      BY <1>6 DEF HealthStep, CheckSucceeds, CheckFails, Queried, Tell, AllTold, Telling
    <2>2. checkAt' = checkAt \/ \E state : checkAt' = [checkAt EXCEPT ![w] = state]
      BY <1>6, Zenon DEF HealthStep, CheckSucceeds, CheckFails, GoesOn, Tell, AllTold
    <2> QED
      BY <1>1, <1>3, <2>1, <2>2
  <1>7. CASE UNCHANGED <<checkAt, loops>>
    BY <1>1, <1>7
  <1> QED
    BY <1>2, <1>4, <1>5, <1>6, <1>7
    DEF HealthNext, hcVars, StopMonitoring, ResetMetrics, AddCallback, RemoveCallback

-----------------------------------------------------------------------------
(* Callbacks are told the truth *)

\* As long as calls do not overlap, nothing but a teller's own steps disturbs what is told.
LEMMA TruthfulFrame ==
  ASSUME Truthful, Telling' = Telling, UNCHANGED <<saying, position, isHealthy, told, callbacks>>,
         \A w \in Checking : checkAt'[w] \notin {"telling", "ended"} =>
                                checkAt[w] \notin {"telling", "ended"}
  PROVE  Truthful'
  <1>1. \A n : ToldBefore(n)' <=> ToldBefore(n)
    BY DEF ToldBefore
  <1> QED
    BY <1>1 DEF Truthful

\* A check ends without a change of the health.
LEMMA TruthfulQuiet ==
  ASSUME CheckerTypeOK, Truthful, NEW w \in Checking, checkAt[w] = "query",
         checkAt' = [checkAt EXCEPT ![w] = After(w)], saying' = [saying EXCEPT ![w] = TRUE],
         UNCHANGED <<position, isHealthy, told, callbacks>>
  PROVE  Truthful'
  <1>1. Telling' = Telling /\ w \notin Telling
    BY LoopsAreNoAskers DEF Telling, CheckerTypeOK
  <1>2. \A n : ToldBefore(n)' <=> ToldBefore(n)
    BY DEF ToldBefore
  <1>3. \A v \in Telling : saying'[v] = saying[v] /\ position'[v] = position[v]
    BY <1>1 DEF CheckerTypeOK, Telling
  <1>4. \A v \in Checking : checkAt'[v] \notin {"telling", "ended"} => position'[v] = 1
    BY DEF Truthful, CheckerTypeOK
  <1> QED
    BY <1>1, <1>2, <1>3, <1>4 DEF Truthful

\* A check changes the health while nobody is told of an earlier change.
LEMMA TruthfulChange ==
  ASSUME CheckerTypeOK, Truthful, NEW w \in Checking, checkAt[w] = "query", Telling = {},
         checkAt' = [checkAt EXCEPT ![w] = "telling"],
         saying' = [saying EXCEPT ![w] = isHealthy'],
         UNCHANGED <<position, told, callbacks>>
  PROVE  Truthful'
  <1>1. Telling' = {w}
    BY DEF Telling, CheckerTypeOK
  <1>2. saying'[w] = isHealthy' /\ position'[w] = 1
    BY DEF CheckerTypeOK, Truthful
  <1>3. ToldBefore(position[w])'
    <2>1. \A i \in DOMAIN callbacks : i \in Nat \ {0}
      BY LenProperties DEF CheckerTypeOK
    <2> QED
      BY <1>2, <2>1 DEF ToldBefore
  <1>4. \A v \in Checking : checkAt'[v] \notin {"telling", "ended"} => position'[v] = 1
    BY DEF Truthful, CheckerTypeOK
  <1> QED
    BY <1>1, <1>2, <1>3, <1>4 DEF Truthful

\* The next callback is told.
LEMMA TruthfulTell ==
  ASSUME CheckerTypeOK, Truthful, NEW w \in Checking, Tell(w)
  PROVE  Truthful'
  <1> DEFINE b == callbacks[position[w]]
  <1>1. /\ w \in Telling /\ position[w] \in Nat \ {0} /\ position[w] <= Len(callbacks)
        /\ told' = [told EXCEPT ![b] = saying[w]]
        /\ position' = [position EXCEPT ![w] = position[w] + 1]
        /\ UNCHANGED <<checkAt, saying, callbacks, isHealthy>>
    BY DEF Tell, CheckerTypeOK
  <1>2. Telling' = Telling /\ Telling = {w}
    BY <1>1 DEF Telling, Truthful
  <1>3. saying[w] = isHealthy /\ ToldBefore(position[w])
    BY <1>1 DEF Truthful
  <1>4. position'[w] = position[w] + 1
    BY <1>1 DEF CheckerTypeOK
  <1>5. ToldBefore(position[w])'
    <2>1. ASSUME NEW i \in DOMAIN callbacks, i < position[w] + 1
          PROVE  told'[callbacks[i]] = isHealthy
      <3>1. callbacks[i] \in Callbacks /\ i \in Nat /\ told \in [Callbacks -> BOOLEAN]
        BY LenProperties DEF CheckerTypeOK
      <3>2. CASE callbacks[i] = b
        BY <1>1, <1>3, <3>1, <3>2
      <3>3. CASE callbacks[i] # b
        <4>1. i # position[w]
          BY <3>3
        <4>2. i < position[w]
          BY <1>1, <2>1, <3>1, <4>1
        <4>3. told'[callbacks[i]] = told[callbacks[i]]
          BY <1>1, <3>1, <3>3
        <4> QED
          BY <1>3, <4>2, <4>3 DEF ToldBefore
      <3> QED
        BY <3>2, <3>3
    <2> QED
      BY <1>1, <1>4, <2>1 DEF ToldBefore
  <1>6. \A v \in Checking : checkAt'[v] \notin {"telling", "ended"} => position'[v] = 1
    <2>1. checkAt[w] = "telling"
      BY <1>1 DEF Telling
    <2> QED
      BY <1>1, <2>1 DEF Truthful, CheckerTypeOK
  <1> HIDE DEF b
  <1> QED
    BY <1>1, <1>2, <1>3, <1>5, <1>6 DEF Truthful

\* The last callback has been told.
LEMMA TruthfulAllTold ==
  ASSUME CheckerTypeOK, Truthful, NEW w \in Checking, AllTold(w)
  PROVE  Truthful'
  <1>1. /\ w \in Telling /\ position[w] > Len(callbacks)
        /\ checkAt' = [checkAt EXCEPT ![w] = After(w)]
        /\ position' = [position EXCEPT ![w] = 1]
        /\ UNCHANGED <<callbacks, isHealthy, told>>
    BY DEF AllTold
  <1>2. Telling = {w}
    BY <1>1 DEF Truthful
  <1>3. Telling' = {}
    BY <1>1, <1>2, LoopsAreNoAskers DEF Telling, CheckerTypeOK
  <1>4. \A c \in ToSet(callbacks) : told[c] = isHealthy
    <2>1. ToldBefore(position[w])
      BY <1>1 DEF Truthful
    <2>2. \A i \in DOMAIN callbacks : i < position[w]
      <3>1. DOMAIN callbacks = 1 .. Len(callbacks) /\ Len(callbacks) \in Nat /\ position[w] \in Nat
        BY LenProperties DEF CheckerTypeOK
      <3> QED
        BY <1>1, <3>1
    <2> QED
      BY <2>1, <2>2 DEF ToldBefore, ToSet
  <1>5. \A v \in Checking : checkAt'[v] \notin {"telling", "ended"} => position'[v] = 1
    BY <1>1, <1>2 DEF Truthful, CheckerTypeOK, Telling
  <1> QED
    BY <1>1, <1>3, <1>4, <1>5 DEF Truthful

\* Callbacks come and go while nobody is told anything.
LEMMA TruthfulCallbacks ==
  ASSUME CheckerTypeOK, Truthful, NEW b \in Callbacks, Telling = {},
         AddCallback(b) \/ RemoveCallback(b)
  PROVE  Truthful'
  <1>1. Telling' = {} /\ UNCHANGED <<checkAt, position, isHealthy>>
    BY DEF AddCallback, RemoveCallback, Telling
  <1>2. \A c \in ToSet(callbacks)' : told'[c] = isHealthy
    <2>1. \A c \in ToSet(callbacks) : told[c] = isHealthy /\ c \in Callbacks
      BY ToSetType DEF Truthful, CheckerTypeOK
    <2>2. callbacks \in Seq(ToSet(callbacks)) /\ callbacks \in Seq(Callbacks)
      BY ToSetType DEF CheckerTypeOK
    <2>3. CASE AddCallback(b)
      <3>1. callbacks' = Append(callbacks, b) /\ told' = [told EXCEPT ![b] = isHealthy]
        BY <2>3 DEF AddCallback
      <3>2. callbacks' \in Seq(ToSet(callbacks) \cup {b})
        <4>1. callbacks \in Seq(ToSet(callbacks) \cup {b})
          BY <2>2
        <4> QED
          BY <3>1, <4>1, AppendProperties
      <3>3. ToSet(callbacks)' \subseteq ToSet(callbacks) \cup {b}
        BY <3>2, ToSetType
      <3> QED
        BY <2>1, <3>1, <3>3 DEF CheckerTypeOK
    <2>4. CASE RemoveCallback(b)
      <3>1. callbacks' \in Seq(ToSet(callbacks)) /\ told' = told
        BY <2>2, <2>4, RemoveAtType DEF RemoveCallback
      <3>2. ToSet(callbacks)' \subseteq ToSet(callbacks)
        BY <3>1, ToSetType
      <3> QED
        BY <2>1, <3>1, <3>2
    <2> QED
      BY <2>3, <2>4
  <1> QED
    BY <1>1, <1>2 DEF Truthful

\* Every step of the checker, unless calls overlap.
LEMMA TruthfulNext ==
  CheckerTypeOK /\ Unstarted /\ (~muddled => Truthful) /\ [HealthNext]_hcVars
    => (~muddled' => Truthful')
  <1> SUFFICES ASSUME CheckerTypeOK, Unstarted, ~muddled => Truthful, [HealthNext]_hcVars, ~muddled'
               PROVE  Truthful'
    OBVIOUS
  <1>1. ASSUME NEW w \in Checking, CheckSucceeds(w) PROVE Truthful'
    <2>1. /\ checkAt[w] = "query" /\ isHealthy' = TRUE /\ UNCHANGED <<told, callbacks>>
          /\ GoesOn(w, ~isHealthy, TRUE)
      BY <1>1 DEF CheckSucceeds, Queried
    <2>2. ~muddled /\ Truthful
      BY <2>1, Zenon DEF GoesOn
    <2>3. CASE isHealthy
      <3>1. /\ checkAt' = [checkAt EXCEPT ![w] = After(w)] /\ saying' = [saying EXCEPT ![w] = TRUE]
            /\ position' = position
        BY <2>1, <2>3 DEF GoesOn
      <3>2. isHealthy' = isHealthy
        BY <2>1, <2>3 DEF CheckerTypeOK
      <3> QED
        BY <2>1, <2>2, <3>1, <3>2, TruthfulQuiet
    <2>4. CASE ~isHealthy
      <3>1. /\ checkAt' = [checkAt EXCEPT ![w] = "telling"] /\ saying' = [saying EXCEPT ![w] = TRUE]
            /\ position' = position /\ Telling = {}
        BY <2>1, <2>4 DEF GoesOn
      <3> QED
        BY <2>1, <2>2, <3>1, TruthfulChange
    <2> QED
      BY <2>3, <2>4
  <1>2. ASSUME NEW w \in Checking, CheckFails(w) PROVE Truthful'
    <2> DEFINE changed == isHealthy /\ Unhealthy(consecutiveFailures + 1)
    <2>1. /\ checkAt[w] = "query" /\ UNCHANGED <<told, callbacks>>
          /\ GoesOn(w, changed, FALSE)
          /\ isHealthy' = (isHealthy /\ ~Unhealthy(consecutiveFailures + 1))
      BY <1>2 DEF CheckFails, Queried
    <2>2. ~muddled /\ Truthful
      BY <2>1, Zenon DEF GoesOn
    <2>3. isHealthy' = IF changed THEN FALSE ELSE isHealthy
      BY <2>1 DEF CheckerTypeOK
    <2> HIDE DEF changed
    <2>4. CASE ~changed
      <3>1. /\ checkAt' = [checkAt EXCEPT ![w] = After(w)] /\ saying' = [saying EXCEPT ![w] = TRUE]
            /\ position' = position
        BY <2>1, <2>4 DEF GoesOn
      <3> QED
        BY <2>1, <2>2, <2>3, <2>4, <3>1, TruthfulQuiet
    <2>5. CASE changed
      <3>1. /\ checkAt' = [checkAt EXCEPT ![w] = "telling"] /\ saying' = [saying EXCEPT ![w] = FALSE]
            /\ position' = position /\ Telling = {}
        BY <2>1, <2>5 DEF GoesOn
      <3> QED
        BY <2>1, <2>2, <2>3, <2>5, <3>1, TruthfulChange
    <2> QED
      BY <2>4, <2>5
  <1>3. ASSUME NEW w \in Checking, Tell(w) PROVE Truthful'
    BY <1>3, TruthfulTell DEF Tell
  <1>4. ASSUME NEW w \in Checking, AllTold(w) PROVE Truthful'
    BY <1>4, TruthfulAllTold DEF AllTold
  <1>5. ASSUME NEW b \in Callbacks, AddCallback(b) \/ RemoveCallback(b) PROVE Truthful'
    <2>1. ~muddled /\ Telling = {}
      BY <1>5, Zenon DEF AddCallback, RemoveCallback
    <2> QED
      BY <1>5, <2>1, TruthfulCallbacks
  <1>6. ASSUME NEW l \in LoopIds, LoopBreaks(l) PROVE Truthful'
    <2>1. ~muddled /\ checkAt[l] # "telling"
      BY <1>6, Zenon DEF LoopBreaks
    <2>2. checkAt' = [checkAt EXCEPT ![l] = "ended"]
          /\ UNCHANGED <<saying, position, isHealthy, told, callbacks>>
      BY <1>6 DEF LoopBreaks
    <2>3. Telling' = Telling
      BY <2>1, <2>2 DEF Telling, CheckerTypeOK
    <2>4. \A w \in Checking : checkAt'[w] \notin {"telling", "ended"} =>
                                 checkAt[w] \notin {"telling", "ended"}
      BY <2>2 DEF CheckerTypeOK
    <2> QED
      BY <2>1, <2>2, <2>3, <2>4, TruthfulFrame
  <1>7. ASSUME NEW w \in Checking, NEW from \in {"idle", "sleep"}, checkAt[w] = from,
               checkAt' = [checkAt EXCEPT ![w] = "query"],
               UNCHANGED <<saying, position, isHealthy, told, callbacks, muddled>>
        PROVE  Truthful'
    <2>1. Telling' = Telling
      BY <1>7 DEF Telling, CheckerTypeOK
    <2>2. \A v \in Checking : checkAt'[v] \notin {"telling", "ended"} =>
                                 checkAt[v] \notin {"telling", "ended"}
      BY <1>7 DEF CheckerTypeOK
    <2> QED
      BY <1>7, <2>1, <2>2, TruthfulFrame
  <1>8. ASSUME NEW l \in LoopIds, LoopWakes(l) PROVE Truthful'
    BY <1>7, <1>8, LoopsAreNoAskers DEF LoopWakes
  <1>9. ASSUME NEW a \in Askers, ForceCheck(a) PROVE Truthful'
    BY <1>7, <1>9, LoopsAreNoAskers DEF ForceCheck
  <1>10. ASSUME UNCHANGED <<checkAt, saying, position, isHealthy, told, callbacks, muddled>>
         PROVE  Truthful'
    BY <1>10, TruthfulFrame DEF Telling
  <1>11. CASE StartMonitoring
    <2>1. /\ checkAt' = [checkAt EXCEPT ![loops + 1] = "query"]
          /\ UNCHANGED <<saying, position, isHealthy, told, callbacks, muddled>>
      BY <1>11 DEF StartMonitoring
    <2>2. loops + 1 \in Checking /\ checkAt[loops + 1] = "idle"
      BY <1>11, HealthAssumption, LoopsAreNoAskers
      DEF StartMonitoring, CheckerTypeOK, Unstarted, LoopIds
    <2> QED
      BY <1>7, <2>1, <2>2
  <1>12. \/ StartMonitoring \/ \E l \in LoopIds : LoopBreaks(l) \/ LoopWakes(l)
         \/ \E a \in Askers : ForceCheck(a)
         \/ \E w \in Checking : CheckSucceeds(w) \/ CheckFails(w) \/ Tell(w) \/ AllTold(w)
         \/ \E b \in Callbacks : AddCallback(b) \/ RemoveCallback(b)
         \/ UNCHANGED <<checkAt, saying, position, isHealthy, told, callbacks, muddled>>
    BY DEF HealthNext, HealthStep, hcVars, ResetMetrics, StopMonitoring
  <1> QED
    BY <1>1, <1>2, <1>3, <1>4, <1>5, <1>6, <1>8, <1>9, <1>10, <1>11, <1>12

\* One loop checks while the checker runs, the health is what the last checks say, and every
\* callback was told of it, unless calls overlapped.
THEOREM CheckerIsRight == HealthSpec => []HealthInv
  <1>1. CheckerInv /\ [HealthNext]_hcVars => CheckerInv'
    BY CheckerTypeNext, UnstartedNext, OneLoopNext, HealthFollowsNext, TruthfulNext, Zenon DEF CheckerInv
  <1>2. CheckerInv => HealthInv
    <2> SUFFICES ASSUME CheckerInv PROVE HealthInv
      OBVIOUS
    <2>1. HealthTypeOK
      BY ToSetType DEF CheckerInv, CheckerTypeOK, CheckStates, HealthTypeOK
    <2>2. ToldTheTruth
      BY Zenon DEF CheckerInv, Truthful, ToldTheTruth
    <2> QED
      BY <2>1, <2>2 DEF CheckerInv, HealthInv
  <1> QED
    BY CheckerInit, <1>1, <1>2, PTL DEF HealthSpec

================================================================================
