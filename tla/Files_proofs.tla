---------------------------- MODULE Files_proofs ----------------------------
(* A file's way through the agent, for every number of directories, uploads, *)
(* chunks and crashes: what is sent is whole and kept while it is sent       *)
(* (TransfersSound), the root's bytes are within the cap and its reservations*)
(* are what somebody holds (PayloadsAccounted), and an offer is kept only if *)
(* a window was told of it (KeptOfferWasTold).  Sums over the directories    *)
(* are proved by taking a least set on which a claim fails: the library's    *)
(* induction rules have operator parameters, its well-founded orderings do   *)
(* not.                                                                      *)
EXTENDS MCFiles, FiniteSetTheorems, TLAPS

-----------------------------------------------------------------------------
(* Sums.                                                                   *)

\* A set of finite sets has a least one.
LEMMA LeastSet ==
    ASSUME NEW S, IsFiniteSet(S), NEW T, T \subseteq SUBSET S, T # {}
    PROVE  \E m \in T : \A u \in T : u \subseteq m => u = m
<1>1. IsWellFoundedOn(StrictSubsetOrdering(S), SUBSET S)
  BY FS_StrictSubsetOrderingWellFounded, FS_FiniteSubsetsOfFinite
<1>2. PICK m \in T : \A u \in T : ~(<<u, m>> \in StrictSubsetOrdering(S))
  BY <1>1, WFMin
<1>3. ASSUME NEW u \in T, u \subseteq m, u # m PROVE FALSE
  <2>1. u \in SUBSET S /\ m \in SUBSET S
    OBVIOUS
  <2>2. <<u, m>> \in StrictSubsetOrdering(S)
    BY <1>3, <2>1 DEF StrictSubsetOrdering
  <2> QED
    BY <1>2, <2>2
<1> QED
  BY <1>3

One(s) == CHOOSE x \in s : TRUE

LEMMA OneOf == ASSUME NEW s, s # {} PROVE One(s) \in s
BY DEF One

\* g adds up f over every set below S.
Adds(g, f, S) ==
    \A s \in SUBSET S : g[s] = IF s = {} THEN 0 ELSE f[One(s)] + g[s \ {One(s)}]

LEMMA AddsOnce ==
    ASSUME NEW S, IsFiniteSet(S), NEW f, NEW g, NEW h, Adds(g, f, S), Adds(h, f, S)
    PROVE  \A s \in SUBSET S : g[s] = h[s]
<1>0. PICK T : T = {s \in SUBSET S : g[s] # h[s]}
  OBVIOUS
<1> SUFFICES ASSUME T # {} PROVE FALSE
  BY <1>0
<1>1. PICK m \in T : \A u \in T : u \subseteq m => u = m
  <2>1. T \subseteq SUBSET S
    BY <1>0
  <2> QED
    BY <2>1, LeastSet
<1>2. m \in SUBSET S /\ g[m] # h[m]
  BY <1>0, <1>1
<1>3. m # {}
  BY <1>2 DEF Adds
<1>4. One(m) \in m /\ m \ {One(m)} \in SUBSET S
  BY <1>2, <1>3, OneOf
<1>5. g[m \ {One(m)}] = h[m \ {One(m)}]
  BY <1>0, <1>1, <1>4
<1> QED
  BY <1>2, <1>3, <1>4, <1>5 DEF Adds

LEMMA AddsExists ==
    ASSUME NEW S, IsFiniteSet(S), NEW f
    PROVE  \E g : Adds(g, f, S) /\ DOMAIN g = SUBSET S
<1>0. PICK Bad : Bad = {t \in SUBSET S : ~ \E g : Adds(g, f, t)}
  OBVIOUS
<1>1. Bad = {}
  <2> SUFFICES ASSUME Bad # {} PROVE FALSE
    OBVIOUS
  <2>1. PICK m \in Bad : \A u \in Bad : u \subseteq m => u = m
    <3>1. Bad \subseteq SUBSET S
      BY <1>0
    <3> QED
      BY <3>1, LeastSet
  <2>2. m \in SUBSET S /\ ~ \E g : Adds(g, f, m)
    BY <1>0, <2>1
  <2>3. \A u \in SUBSET m : u # m => \E g : Adds(g, f, u)
    BY <1>0, <2>1, <2>2
  <2> DEFINE G(u) == CHOOSE g : Adds(g, f, u)
             b == [s \in SUBSET m |-> IF s = {} THEN 0
                                      ELSE f[One(s)] + G(s \ {One(s)})[s \ {One(s)}]]
  <2>4. \A u \in SUBSET m : u # m => Adds(G(u), f, u)
    BY <2>3
  <2>5. ASSUME NEW s \in SUBSET m, s # {} PROVE b[s] = f[One(s)] + b[s \ {One(s)}]
    <3>1. One(s) \in s
      BY <2>5, OneOf
    <3>2. PICK t : t = s \ {One(s)}
      OBVIOUS
    <3>3. t \in SUBSET m /\ t # m /\ t \in SUBSET t
      BY <3>1, <3>2
    <3>4. Adds(G(t), f, t)
      BY <2>4, <3>3
    <3>5. CASE t = {}
      <4>1. G(t)[t] = 0
        BY <3>3, <3>4, <3>5 DEF Adds
      <4>2. b[t] = 0
        BY <3>3, <3>5
      <4> QED
        BY <2>5, <3>2, <4>1, <4>2
    <3>6. CASE t # {}
      <4>1. PICK r : r = t \ {One(t)}
        OBVIOUS
      <4>2. One(t) \in t /\ r \in SUBSET t /\ r \in SUBSET m /\ r # m /\ r \in SUBSET r
        BY <3>3, <3>6, <4>1, OneOf
      <4>3. Adds(G(r), f, r)
        BY <2>4, <4>2
      <4>4. Adds(G(t), f, r)
        BY <3>4, <4>2 DEF Adds
      <4>5. IsFiniteSet(r)
        BY <2>2, <4>2, FS_Subset
      <4> HIDE DEF G
      <4>6. G(t)[r] = G(r)[r]
        BY <4>2, <4>3, <4>4, <4>5, AddsOnce
      <4>7. G(t)[t] = f[One(t)] + G(t)[r]
        BY <3>3, <3>4, <3>6, <4>1 DEF Adds
      <4>8. b[t] = f[One(t)] + G(r)[r]
        BY <3>3, <3>6, <4>1
      <4>9. b[s] = f[One(s)] + G(t)[t]
        BY <2>5, <3>2
      <4> QED
        BY <3>2, <4>6, <4>7, <4>8, <4>9
    <3> QED
      BY <3>5, <3>6
  <2>6. b[{}] = 0
    OBVIOUS
  <2> HIDE DEF b
  <2>7. Adds(b, f, m)
    BY <2>5, <2>6 DEF Adds
  <2> QED
    BY <2>2, <2>7
<1>2. PICK g : Adds(g, f, S)
  BY <1>0, <1>1
<1>3. PICK h : h = [s \in SUBSET S |-> g[s]]
  OBVIOUS
<1>4. \A s \in SUBSET S : s \ {One(s)} \in SUBSET S
  OBVIOUS
<1>5. Adds(h, f, S)
  BY <1>2, <1>3, <1>4 DEF Adds
<1> QED
  BY <1>3, <1>5

LEMMA SumIs ==
    ASSUME NEW S, IsFiniteSet(S), NEW f, NEW g, Adds(g, f, S), DOMAIN f = S
    PROVE  SumFunction(f) = g[S]
<1> DEFINE it == CHOOSE iter : iter = [s \in SUBSET S |-> IF s = {} THEN 0 ELSE f[One(s)] + iter[s \ {One(s)}]]
<1>1. SumFunction(f) = it[S]
  BY DEF SumFunction, SumFunctionOnSet, FoldFunctionOnSet, MapThenFoldSet, One
<1>2. PICK h : Adds(h, f, S) /\ DOMAIN h = SUBSET S
  BY AddsExists
<1>3. PICK k : k = [s \in SUBSET S |-> h[s]]
  OBVIOUS
<1>4. k = [s \in SUBSET S |-> IF s = {} THEN 0 ELSE f[One(s)] + k[s \ {One(s)}]]
  <2>1. \A s \in SUBSET S : s \ {One(s)} \in SUBSET S
    OBVIOUS
  <2>2. \A s \in SUBSET S : k[s] = IF s = {} THEN 0 ELSE f[One(s)] + k[s \ {One(s)}]
    BY <1>2, <1>3, <2>1 DEF Adds
  <2> QED
    BY <1>3, <2>2
<1>5. it = [s \in SUBSET S |-> IF s = {} THEN 0 ELSE f[One(s)] + it[s \ {One(s)}]]
  BY <1>4
<1> HIDE DEF it
<1>6. Adds(it, f, S)
  <2>1. \A s \in SUBSET S : it[s] = IF s = {} THEN 0 ELSE f[One(s)] + it[s \ {One(s)}]
    BY <1>5
  <2> QED
    BY <2>1 DEF Adds
<1>7. S \in SUBSET S
  OBVIOUS
<1> QED
  BY <1>1, <1>6, <1>7, AddsOnce

\* The sum follows a change of one value,
LEMMA SumStep ==
    ASSUME NEW S, IsFiniteSet(S), NEW f \in [S -> Int], NEW g \in [S -> Int], NEW a \in S,
           \A b \in S : b # a => g[b] = f[b]
    PROVE  SumFunction(g) = SumFunction(f) + g[a] - f[a]
<1>1. PICK p : Adds(p, f, S)
  BY AddsExists
<1>2. PICK q : Adds(q, g, S)
  BY AddsExists
<1>3. PICK T : T = {s \in SUBSET S : ~(/\ p[s] \in Int /\ q[s] \in Int
                                        /\ q[s] = p[s] + IF a \in s THEN g[a] - f[a] ELSE 0)}
  OBVIOUS
<1>4. ASSUME T # {} PROVE FALSE
  <2>1. T \subseteq SUBSET S
    BY <1>3
  <2>2. PICK m \in T : \A u \in T : u \subseteq m => u = m
    BY <1>4, <2>1, LeastSet
  <2>3. m # {}
    <3>1. SUFFICES ASSUME m = {} PROVE FALSE
      OBVIOUS
    <3>2. p[m] = 0 /\ q[m] = 0
      BY <1>1, <1>2, <2>1, <3>1 DEF Adds
    <3> QED
      BY <1>3, <3>1, <3>2
  <2>4. PICK x : x = One(m)
    OBVIOUS
  <2>5. PICK r : r = m \ {x}
    OBVIOUS
  <2>6. x \in m /\ x \in S /\ r \in SUBSET S /\ r \subseteq m /\ r # m
    BY <2>1, <2>3, <2>4, <2>5, OneOf
  <2>7. p[r] \in Int /\ q[r] \in Int /\ q[r] = p[r] + IF a \in r THEN g[a] - f[a] ELSE 0
    BY <1>3, <2>2, <2>6
  <2>8. p[m] = f[x] + p[r] /\ q[m] = g[x] + q[r]
    BY <1>1, <1>2, <2>1, <2>3, <2>4, <2>5 DEF Adds
  <2>9. f[x] \in Int /\ g[x] \in Int /\ f[a] \in Int /\ g[a] \in Int
    BY <2>6
  <2>10. p[m] \in Int /\ q[m] \in Int
    BY <2>7, <2>8, <2>9
  <2>11. CASE x = a
    <3>1. a \in m /\ a \notin r
      BY <2>5, <2>6, <2>11
    <3>2. q[m] = p[m] + (g[a] - f[a])
      BY <2>7, <2>8, <2>9, <2>11, <3>1
    <3> QED
      BY <1>3, <2>2, <2>10, <3>1, <3>2
  <2>12. CASE x # a
    <3>1. (a \in m <=> a \in r) /\ g[x] = f[x]
      BY <2>5, <2>6, <2>12
    <3>2. q[m] = p[m] + IF a \in m THEN g[a] - f[a] ELSE 0
      BY <2>7, <2>8, <2>9, <3>1
    <3> QED
      BY <1>3, <2>2, <2>10, <3>2
  <2> QED
    BY <2>11, <2>12
<1>5. S \in SUBSET S /\ q[S] = p[S] + (g[a] - f[a]) /\ p[S] \in Int
  BY <1>3, <1>4
<1>6. SumFunction(f) = p[S] /\ SumFunction(g) = q[S]
  BY <1>1, <1>2, SumIs
<1> QED
  BY <1>5, <1>6

\* and is an integer.
LEMMA SumType ==
    ASSUME NEW S, IsFiniteSet(S), NEW f \in [S -> Int]
    PROVE  SumFunction(f) \in Int
<1>1. PICK p : Adds(p, f, S)
  BY AddsExists
<1>2. PICK T : T = {s \in SUBSET S : p[s] \notin Int}
  OBVIOUS
<1>3. ASSUME T # {} PROVE FALSE
  <2>1. T \subseteq SUBSET S
    BY <1>2
  <2>2. PICK m \in T : \A u \in T : u \subseteq m => u = m
    BY <1>3, <2>1, LeastSet
  <2>3. m # {}
    <3>1. SUFFICES ASSUME m = {} PROVE FALSE
      OBVIOUS
    <3>2. p[m] = 0
      BY <1>1, <2>1, <3>1 DEF Adds
    <3> QED
      BY <1>2, <3>1, <3>2
  <2>4. One(m) \in m /\ One(m) \in S /\ m \ {One(m)} \in SUBSET S /\ m \ {One(m)} # m
    BY <2>1, <2>3, OneOf
  <2>5. p[m \ {One(m)}] \in Int
    BY <1>2, <2>2, <2>4
  <2>6. p[m] = f[One(m)] + p[m \ {One(m)}]
    BY <1>1, <2>1, <2>3 DEF Adds
  <2> QED
    BY <1>2, <2>2, <2>4, <2>5, <2>6
<1> QED
  BY <1>1, <1>2, <1>3, SumIs

\* Of nothing but zeros it is zero.
LEMMA SumZero ==
    ASSUME NEW S, IsFiniteSet(S), NEW f, DOMAIN f = S, \A x \in S : f[x] = 0
    PROVE  SumFunction(f) = 0
<1>1. PICK p : p = [s \in SUBSET S |-> 0]
  OBVIOUS
<1>2. ASSUME NEW s \in SUBSET S, s # {} PROVE p[s] = f[One(s)] + p[s \ {One(s)}]
  <2>1. One(s) \in S /\ s \ {One(s)} \in SUBSET S
    BY <1>2, OneOf
  <2> QED
    BY <1>1, <2>1
<1>3. Adds(p, f, S)
  BY <1>1, <1>2 DEF Adds
<1> QED
  BY <1>1, <1>3, SumIs

\* It is monotone,
LEMMA SumMono ==
    ASSUME NEW S, IsFiniteSet(S), NEW f \in [S -> Int], NEW g \in [S -> Int], \A b \in S : f[b] <= g[b]
    PROVE  SumFunction(f) <= SumFunction(g)
<1>1. PICK p : Adds(p, f, S)
  BY AddsExists
<1>2. PICK q : Adds(q, g, S)
  BY AddsExists
<1>3. PICK T : T = {s \in SUBSET S : ~(p[s] \in Int /\ q[s] \in Int /\ p[s] <= q[s])}
  OBVIOUS
<1>4. ASSUME T # {} PROVE FALSE
  <2>1. T \subseteq SUBSET S
    BY <1>3
  <2>2. PICK m \in T : \A u \in T : u \subseteq m => u = m
    BY <1>4, <2>1, LeastSet
  <2>3. m # {}
    <3>1. SUFFICES ASSUME m = {} PROVE FALSE
      OBVIOUS
    <3>2. p[m] = 0 /\ q[m] = 0
      BY <1>1, <1>2, <2>1, <3>1 DEF Adds
    <3> QED
      BY <1>3, <3>1, <3>2
  <2>4. PICK x : x = One(m)
    OBVIOUS
  <2>5. PICK r : r = m \ {x}
    OBVIOUS
  <2>6. x \in m /\ x \in S /\ r \in SUBSET S /\ r \subseteq m /\ r # m
    BY <2>1, <2>3, <2>4, <2>5, OneOf
  <2>7. p[r] \in Int /\ q[r] \in Int /\ p[r] <= q[r]
    BY <1>3, <2>2, <2>6
  <2>8. p[m] = f[x] + p[r] /\ q[m] = g[x] + q[r]
    BY <1>1, <1>2, <2>1, <2>3, <2>4, <2>5 DEF Adds
  <2>9. f[x] \in Int /\ g[x] \in Int /\ f[x] <= g[x]
    BY <2>6
  <2>10. p[m] \in Int /\ q[m] \in Int /\ p[m] <= q[m]
    BY <2>7, <2>8, <2>9
  <2> QED
    BY <1>3, <2>2, <2>10
<1>5. S \in SUBSET S /\ p[S] <= q[S]
  BY <1>3, <1>4
<1>6. SumFunction(f) = p[S] /\ SumFunction(g) = q[S]
  BY <1>1, <1>2, SumIs
<1> QED
  BY <1>5, <1>6

\* additive,
LEMMA SumAdd ==
    ASSUME NEW S, IsFiniteSet(S), NEW f \in [S -> Int], NEW g \in [S -> Int], NEW h \in [S -> Int],
           \A b \in S : h[b] = f[b] + g[b]
    PROVE  SumFunction(h) = SumFunction(f) + SumFunction(g)
<1>1. PICK p : Adds(p, f, S)
  BY AddsExists
<1>2. PICK q : Adds(q, g, S)
  BY AddsExists
<1>3. PICK w : Adds(w, h, S)
  BY AddsExists
<1>4. PICK T : T = {s \in SUBSET S : ~(p[s] \in Int /\ q[s] \in Int /\ w[s] = p[s] + q[s])}
  OBVIOUS
<1>5. ASSUME T # {} PROVE FALSE
  <2>1. T \subseteq SUBSET S
    BY <1>4
  <2>2. PICK m \in T : \A u \in T : u \subseteq m => u = m
    BY <1>5, <2>1, LeastSet
  <2>3. m # {}
    <3>1. SUFFICES ASSUME m = {} PROVE FALSE
      OBVIOUS
    <3>2. p[m] = 0 /\ q[m] = 0 /\ w[m] = 0
      BY <1>1, <1>2, <1>3, <2>1, <3>1 DEF Adds
    <3> QED
      BY <1>4, <3>1, <3>2
  <2>4. PICK x : x = One(m)
    OBVIOUS
  <2>5. PICK r : r = m \ {x}
    OBVIOUS
  <2>6. x \in m /\ x \in S /\ r \in SUBSET S /\ r \subseteq m /\ r # m
    BY <2>1, <2>3, <2>4, <2>5, OneOf
  <2>7. p[r] \in Int /\ q[r] \in Int /\ w[r] = p[r] + q[r]
    BY <1>4, <2>2, <2>6
  <2>8. p[m] = f[x] + p[r] /\ q[m] = g[x] + q[r] /\ w[m] = h[x] + w[r]
    BY <1>1, <1>2, <1>3, <2>1, <2>3, <2>4, <2>5 DEF Adds
  <2>9. f[x] \in Int /\ g[x] \in Int /\ h[x] = f[x] + g[x]
    BY <2>6
  <2>10. p[m] \in Int /\ q[m] \in Int /\ w[m] = p[m] + q[m]
    BY <2>7, <2>8, <2>9
  <2> QED
    BY <1>4, <2>2, <2>10
<1>6. S \in SUBSET S /\ w[S] = p[S] + q[S]
  BY <1>4, <1>5
<1>7. SumFunction(f) = p[S] /\ SumFunction(g) = q[S] /\ SumFunction(h) = w[S]
  BY <1>1, <1>2, <1>3, SumIs
<1> QED
  BY <1>6, <1>7

\* and within a bound for each value that is not zero.
LEMMA SumBound ==
    ASSUME NEW S, IsFiniteSet(S), NEW f \in [S -> Int], NEW c \in Nat, NEW P \in SUBSET S,
           \A b \in S : f[b] <= IF b \in P THEN c ELSE 0
    PROVE  SumFunction(f) <= c * Cardinality(P)
<1>1. PICK p : Adds(p, f, S)
  BY AddsExists
<1>2. PICK T : T = {s \in SUBSET S : ~(p[s] \in Int /\ p[s] <= c * Cardinality(s \cap P))}
  OBVIOUS
<1>3. ASSUME T # {} PROVE FALSE
  <2>1. T \subseteq SUBSET S
    BY <1>2
  <2>2. PICK m \in T : \A u \in T : u \subseteq m => u = m
    BY <1>3, <2>1, LeastSet
  <2>3. m # {}
    <3>1. SUFFICES ASSUME m = {} PROVE FALSE
      OBVIOUS
    <3>2. p[m] = 0
      BY <1>1, <2>1, <3>1 DEF Adds
    <3>3. m \cap P = {} /\ Cardinality({}) = 0
      BY <3>1, FS_EmptySet
    <3>4. p[m] \in Int /\ p[m] <= c * Cardinality(m \cap P)
      BY <3>2, <3>3
    <3> QED
      BY <1>2, <2>2, <3>4
  <2>4. PICK x : x = One(m)
    OBVIOUS
  <2>5. PICK r : r = m \ {x}
    OBVIOUS
  <2>6. x \in m /\ x \in S /\ r \in SUBSET S /\ r \subseteq m /\ r # m
    BY <2>1, <2>3, <2>4, <2>5, OneOf
  <2>7. p[r] \in Int /\ p[r] <= c * Cardinality(r \cap P)
    BY <1>2, <2>2, <2>6
  <2>8. p[m] = f[x] + p[r]
    BY <1>1, <2>1, <2>3, <2>4, <2>5 DEF Adds
  <2>9. f[x] \in Int /\ f[x] <= IF x \in P THEN c ELSE 0
    BY <2>6
  <2>10. PICK k : k = Cardinality(r \cap P)
    OBVIOUS
  <2>11. IsFiniteSet(r \cap P) /\ k \in Nat
    BY <2>6, <2>10, FS_Subset, FS_CardinalityType
  <2>12. c * k \in Int
    BY <2>11
  <2>13. CASE x \in P
    <3>1. m \cap P = (r \cap P) \cup {x} /\ x \notin r \cap P
      BY <2>5, <2>6, <2>13
    <3>2. Cardinality(m \cap P) = k + 1
      BY <2>10, <2>11, <3>1, FS_AddElement
    <3>3. c * (k + 1) = c * k + c
      BY <2>11
    <3>4. p[m] \in Int /\ p[m] <= c * k + c
      BY <2>7, <2>8, <2>9, <2>10, <2>12, <2>13
    <3> QED
      BY <1>2, <2>2, <3>2, <3>3, <3>4
  <2>14. CASE x \notin P
    <3>1. m \cap P = r \cap P
      BY <2>5, <2>6, <2>14
    <3>2. p[m] \in Int /\ p[m] <= c * k
      BY <2>7, <2>8, <2>9, <2>10, <2>12, <2>14
    <3> QED
      BY <1>2, <2>2, <2>10, <3>1, <3>2
  <2> QED
    BY <2>13, <2>14
<1>4. S \in SUBSET S /\ p[S] <= c * Cardinality(S \cap P) /\ S \cap P = P
  BY <1>2, <1>3
<1>5. SumFunction(f) = p[S]
  BY <1>1, SumIs
<1> QED
  BY <1>4, <1>5

-----------------------------------------------------------------------------
(* Payloads on their way.                                                  *)

DirAt == {"none", "root", "reserved", "fits", "written", "over", "staged", "resolved", "built", "sent"}
DirRec ==
    [at : DirAt, staged : BOOLEAN, id : Ids \cup {None}, size : Nat, len : Nat, disk : Nat, held : Nat,
     seen : Int, to_peer : BOOLEAN, sdk : {"none", "asked", "refused", "open", "unowned", "ended"},
     watched : BOOLEAN, timer : BOOLEAN, old : BOOLEAN, orphan : BOOLEAN]
UploadRec == [dir : Dirs, total : Nat, received : Nat, writing : BOOLEAN, rest : Nat]

\* The state of the sends as values: directories D, table T, chunks being written A,
\* directories being removed R, ids used U.
Typed(D, T, A, R, U) ==
    /\ D \in [Dirs -> DirRec]
    /\ T \in [Ids -> UploadRec \cup {None}]
    /\ A \in [Dirs -> Int]
    /\ R \subseteq Dirs /\ U \subseteq Ids

InTable(T, d) == \E i \in Ids : T[i] # None /\ T[i].dir = d

Unsettled(w) == IF w < 0 THEN 0 - w ELSE 0
Size(w) == IF w < 0 THEN 0 - w ELSE w

\* Before its bytes are all written, a directory is its task's; after that it is kept
\* until nothing owns it, and what is sent was written whole.
Writing == {"reserved", "fits", "written"}
DirOk(e, w, owned, going) ==
    /\ e.at = "none" => ~e.staged
    /\ e.at \in {"none", "root"} \cup Writing => ~e.timer /\ ~e.orphan /\ ~e.old
    /\ e.at \in {"none", "root", "reserved", "fits"} => e.disk = 0
    /\ e.held = IF e.at \in Writing THEN e.size ELSE 0
    /\ e.sdk # "none" <=> e.at = "sent"
    /\ e.at \in {"root"} \cup Writing => e.len <= e.size /\ (~e.staged => e.len = e.size)
    /\ e.at = "written" => e.disk = e.len
    /\ e.at \in {"resolved", "built"} \/ e.sdk \in {"asked", "open"} => e.old \/ e.disk = e.size
    /\ w # 0 => e.at = "staged" /\ e.staged /\ Size(w) <= MaxChunk
    /\ owned => e.at = "staged" /\ e.staged
    /\ going => /\ e.at \in {"over", "staged", "sent"} /\ ~owned
                /\ e.at = "sent" => e.sdk \in {"refused", "ended"}

\* The table counts what its directory holds, but for the chunk that has landed and is
\* not settled yet, and holds what is still to come.
UploadOk(i, u, e, w) ==
    /\ e.id = i /\ e.size = u.total
    /\ e.disk = u.received + Unsettled(w) \/ (e.old /\ e.disk = 0)
    /\ u.received + Size(w) <= u.total
    /\ u.rest = u.total - u.received
    /\ u.writing <=> w # 0

\* With an id used once, a staged directory is told by its id.
IdsApart(D, U) ==
    /\ \A d \in Dirs : D[d].staged => D[d].id \in U
    /\ \A d, e \in Dirs : D[d].staged /\ D[e].staged /\ D[d].id = D[e].id => d = e

Good(D, T, A, R, U) ==
    /\ Typed(D, T, A, R, U)
    /\ \A d \in Dirs : DirOk(D[d], A[d], InTable(T, d), d \in R)
    /\ \A i \in Ids : T[i] # None => UploadOk(i, T[i], D[T[i].dir], A[T[i].dir])
    /\ FreshIds => IdsApart(D, U)

\* One directory outside the table changes.
LEMMA OneDir ==
    ASSUME NEW D, NEW T, NEW A, NEW R, NEW U, Good(D, T, A, R, U), NEW d \in Dirs, NEW e \in DirRec,
           D[d].at # "staged" \/ d \in R, e.staged => D[d].staged /\ e.id = D[d].id,
           NEW Q \in SUBSET Dirs, \A b \in Dirs : b # d /\ b \in Q => b \in R,
           DirOk(e, A[d], FALSE, d \in Q)
    PROVE  Good([D EXCEPT ![d] = e], T, A, Q, U)
<1>1. PICK F : F = [D EXCEPT ![d] = e]
  OBVIOUS
<1>2. F \in [Dirs -> DirRec] /\ F[d] = e /\ \A b \in Dirs : b # d => F[b] = D[b]
  BY <1>1 DEF Good, Typed
<1>3. ~InTable(T, d)
  BY DEF Good, DirOk
<1>4. Typed(F, T, A, Q, U)
  BY <1>2 DEF Good, Typed
<1>5. ASSUME NEW b \in Dirs PROVE DirOk(F[b], A[b], InTable(T, b), b \in Q)
  <2>1. CASE b = d
    BY <1>2, <1>3, <2>1 DEF DirOk
  <2>2. CASE b # d
    <3>1. DirOk(D[b], A[b], InTable(T, b), b \in R)
      BY DEF Good
    <3> QED
      BY <1>2, <2>2, <3>1 DEF DirOk
  <2> QED
    BY <2>1, <2>2
<1>6. ASSUME NEW i \in Ids, T[i] # None PROVE UploadOk(i, T[i], F[T[i].dir], A[T[i].dir])
  <2>1. T[i].dir \in Dirs /\ T[i].dir # d
    BY <1>3, <1>6 DEF Good, Typed, UploadRec, InTable
  <2>2. UploadOk(i, T[i], D[T[i].dir], A[T[i].dir])
    BY <1>6 DEF Good
  <2> QED
    BY <1>2, <2>1, <2>2
<1>7. ASSUME FreshIds PROVE IdsApart(F, U)
  <2>1. \A b \in Dirs : F[b].staged => D[b].staged /\ F[b].id = D[b].id
    BY <1>2
  <2> QED
    BY <1>7, <2>1 DEF Good, IdsApart
<1> QED
  BY <1>1, <1>4, <1>5, <1>6, <1>7 DEF Good

\* A directory that has reached its age limit may lose what it holds.
LEMMA OldDir ==
    ASSUME NEW D, NEW T, NEW A, NEW R, NEW U, Good(D, T, A, R, U), NEW d \in Dirs, NEW e \in DirRec,
           e.at = D[d].at, e.staged = D[d].staged, e.id = D[d].id, e.size = D[d].size, e.len = D[d].len,
           e.sdk = D[d].sdk, e.held = D[d].held, e.old, e.disk = D[d].disk \/ e.disk = 0,
           D[d].at \notin {"none", "root"} \cup Writing
    PROVE  Good([D EXCEPT ![d] = e], T, A, R, U)
<1>1. PICK F : F = [D EXCEPT ![d] = e]
  OBVIOUS
<1>2. F \in [Dirs -> DirRec] /\ F[d] = e /\ \A b \in Dirs : b # d => F[b] = D[b]
  BY <1>1 DEF Good, Typed
<1>3. Typed(F, T, A, R, U)
  BY <1>2 DEF Good, Typed
<1>4. ASSUME NEW b \in Dirs PROVE DirOk(F[b], A[b], InTable(T, b), b \in R)
  <2>1. DirOk(D[b], A[b], InTable(T, b), b \in R)
    BY DEF Good
  <2>2. CASE b = d
    BY <1>2, <2>1, <2>2 DEF DirOk, Writing
  <2>3. CASE b # d
    BY <1>2, <2>1, <2>3
  <2> QED
    BY <2>2, <2>3
<1>5. ASSUME NEW i \in Ids, T[i] # None PROVE UploadOk(i, T[i], F[T[i].dir], A[T[i].dir])
  <2>1. T[i].dir \in Dirs /\ UploadOk(i, T[i], D[T[i].dir], A[T[i].dir])
    BY <1>5 DEF Good, Typed, UploadRec
  <2>2. CASE T[i].dir = d
    BY <1>2, <2>1, <2>2 DEF UploadOk
  <2>3. CASE T[i].dir # d
    BY <1>2, <2>1, <2>3
  <2> QED
    BY <2>2, <2>3
<1>6. ASSUME FreshIds PROVE IdsApart(F, U)
  <2>1. \A b \in Dirs : F[b].staged = D[b].staged /\ F[b].id = D[b].id
    BY <1>2
  <2> QED
    BY <1>6, <2>1 DEF Good, IdsApart
<1> QED
  BY <1>1, <1>3, <1>4, <1>5, <1>6 DEF Good

\* Uploads leave the table, some of them for removal.
LEMMA TableShrinks ==
    ASSUME NEW D, NEW T, NEW A, NEW R, NEW U, Good(D, T, A, R, U), NEW V \in [Ids -> UploadRec \cup {None}],
           \A i \in Ids : V[i] # None => V[i] = T[i],
           NEW Q \in SUBSET Dirs,
           \A d \in Q : d \in R \/ (~InTable(V, d) /\ \E i \in Ids : T[i] # None /\ T[i].dir = d)
    PROVE  Good(D, V, A, Q, U)
<1>1. Typed(D, V, A, Q, U)
  BY DEF Good, Typed
<1>2. ASSUME NEW b \in Dirs PROVE DirOk(D[b], A[b], InTable(V, b), b \in Q)
  <2>1. DirOk(D[b], A[b], InTable(T, b), b \in R)
    BY DEF Good
  <2>2. InTable(V, b) => InTable(T, b)
    BY DEF InTable
  <2>3. b \in Q => b \in R \/ (~InTable(V, b) /\ InTable(T, b))
    BY DEF InTable
  <2> QED
    BY <2>1, <2>2, <2>3 DEF DirOk
<1>3. ASSUME NEW i \in Ids, V[i] # None PROVE UploadOk(i, V[i], D[V[i].dir], A[V[i].dir])
  BY <1>3 DEF Good
<1>4. FreshIds => IdsApart(D, U)
  BY DEF Good
<1> QED
  BY <1>1, <1>2, <1>3, <1>4 DEF Good

\* Two uploads have two directories.
LEMMA OneUpload ==
    ASSUME NEW D, NEW T, NEW A, NEW R, NEW U, Good(D, T, A, R, U), NEW i \in Ids, NEW j \in Ids,
           T[i] # None, T[j] # None, T[i].dir = T[j].dir
    PROVE  i = j
BY DEF Good, UploadOk

\* The first chunk of a new id, or a request with its bytes, starts a directory.
LEMMA NewDir ==
    ASSUME NEW D, NEW T, NEW A, NEW R, NEW U, Good(D, T, A, R, U), NEW d \in Dirs, NEW e \in DirRec,
           D[d].at = "none", e.at = "root", e.len <= e.size, e.staged \/ e.len = e.size, e.sdk = "none",
           e.held = 0, e.disk = 0, ~e.timer, ~e.orphan, ~e.old,
           NEW V \in SUBSET Ids, U \subseteq V, e.staged => e.id \in V /\ (FreshIds => e.id \notin U)
    PROVE  Good([D EXCEPT ![d] = e], T, A, R, V)
<1>1. PICK F : F = [D EXCEPT ![d] = e]
  OBVIOUS
<1>2. F \in [Dirs -> DirRec] /\ F[d] = e /\ \A b \in Dirs : b # d => F[b] = D[b]
  BY <1>1 DEF Good, Typed
<1>3. ~InTable(T, d) /\ d \notin R /\ A[d] = 0
  BY DEF Good, DirOk
<1>4. Typed(F, T, A, R, V)
  BY <1>2 DEF Good, Typed
<1>5. ASSUME NEW b \in Dirs PROVE DirOk(F[b], A[b], InTable(T, b), b \in R)
  <2>1. CASE b = d
    BY <1>2, <1>3, <2>1 DEF DirOk, Writing
  <2>2. CASE b # d
    BY <1>2, <2>2 DEF Good
  <2> QED
    BY <2>1, <2>2
<1>6. ASSUME NEW i \in Ids, T[i] # None PROVE UploadOk(i, T[i], F[T[i].dir], A[T[i].dir])
  <2>1. T[i].dir \in Dirs /\ T[i].dir # d
    BY <1>3, <1>6 DEF Good, Typed, UploadRec, InTable
  <2>2. UploadOk(i, T[i], D[T[i].dir], A[T[i].dir])
    BY <1>6 DEF Good
  <2> QED
    BY <1>2, <2>1, <2>2
<1>7. ASSUME FreshIds PROVE IdsApart(F, V)
  <2>1. \A b \in Dirs : b # d => F[b].staged = D[b].staged /\ F[b].id = D[b].id /\ (D[b].staged => D[b].id \in U)
    BY <1>2, <1>7 DEF Good, IdsApart
  <2>2. e.staged => e.id \in V /\ e.id \notin U
    BY <1>7
  <2>3. \A b \in Dirs : F[b].staged => F[b].id \in V
    BY <1>2, <2>1, <2>2
  <2>4. ASSUME NEW b \in Dirs, NEW c \in Dirs, F[b].staged, F[c].staged, F[b].id = F[c].id PROVE b = c
    BY <1>2, <1>7, <2>1, <2>2, <2>4 DEF Good, IdsApart
  <2> QED
    BY <2>3, <2>4 DEF IdsApart
<1> QED
  BY <1>1, <1>4, <1>5, <1>6, <1>7 DEF Good

-----------------------------------------------------------------------------
(* Reservations.                                                           *)

\* What the tasks hold, and what a table's entry holds.
Held(D) == SumFunction([d \in Dirs |-> D[d].held])
Due(u) == IF u = None THEN 0 ELSE u.rest

LEMMA DirsAreFinite == IsFiniteSet(Dirs)
<1>1. 1 \in Nat /\ MaxDirs \in Nat
  BY SendBounds
<1> QED
  BY <1>1, FS_Interval DEF Dirs

LEMMA HeldStep ==
    ASSUME NEW D \in [Dirs -> DirRec], NEW d \in Dirs, NEW e \in DirRec
    PROVE  /\ Held(D) \in Int
           /\ Held([D EXCEPT ![d] = e]) = Held(D) + e.held - D[d].held
<1>1. PICK f : f = [b \in Dirs |-> D[b].held]
  OBVIOUS
<1>2. PICK F : F = [D EXCEPT ![d] = e]
  OBVIOUS
<1>3. PICK g : g = [b \in Dirs |-> F[b].held]
  OBVIOUS
<1>4. \A x \in DirRec : x.held \in Int
  BY DEF DirRec
<1>5. f \in [Dirs -> Int] /\ g \in [Dirs -> Int]
  BY <1>1, <1>2, <1>3, <1>4
<1>6. g[d] = e.held /\ f[d] = D[d].held /\ \A b \in Dirs : b # d => g[b] = f[b]
  BY <1>1, <1>2, <1>3
<1>7. SumFunction(f) \in Int /\ SumFunction(g) = SumFunction(f) + g[d] - f[d]
  BY <1>5, <1>6, DirsAreFinite, SumType, SumStep
<1> QED
  BY <1>1, <1>2, <1>3, <1>6, <1>7 DEF Held

LEMMA RestStep ==
    ASSUME NEW T \in [Ids -> UploadRec \cup {None}], NEW i \in Ids, NEW u \in UploadRec \cup {None}
    PROVE  /\ Rest(T) \in Int
           /\ Rest([T EXCEPT ![i] = u]) = Rest(T) + Due(u) - Due(T[i])
<1>1. PICK f : f = [j \in Ids |-> IF T[j] = None THEN 0 ELSE T[j].rest]
  OBVIOUS
<1>2. PICK V : V = [T EXCEPT ![i] = u]
  OBVIOUS
<1>3. PICK g : g = [j \in Ids |-> IF V[j] = None THEN 0 ELSE V[j].rest]
  OBVIOUS
<1>4. \A x \in UploadRec : x.rest \in Int
  BY DEF UploadRec
<1>5. V \in [Ids -> UploadRec \cup {None}]
  BY <1>2
<1>6. f \in [Ids -> Int] /\ g \in [Ids -> Int]
  BY <1>1, <1>3, <1>4, <1>5
<1>7. g[i] = Due(u) /\ f[i] = Due(T[i]) /\ \A j \in Ids : j # i => g[j] = f[j]
  BY <1>1, <1>2, <1>3 DEF Due
<1>8. SumFunction(f) \in Int /\ SumFunction(g) = SumFunction(f) + g[i] - f[i]
  BY <1>6, <1>7, SendBounds, SumType, SumStep
<1> QED
  BY <1>1, <1>2, <1>3, <1>7, <1>8 DEF Rest

LEMMA RestType ==
    ASSUME NEW T \in [Ids -> UploadRec \cup {None}]
    PROVE  Rest(T) \in Int
<1>1. PICK f : f = [j \in Ids |-> IF T[j] = None THEN 0 ELSE T[j].rest]
  OBVIOUS
<1>2. \A x \in UploadRec : x.rest \in Int
  BY DEF UploadRec
<1>3. f \in [Ids -> Int]
  BY <1>1, <1>2
<1> QED
  BY <1>1, <1>3, SendBounds, SumType DEF Rest

LEMMA HeldType ==
    ASSUME NEW D \in [Dirs -> DirRec]
    PROVE  Held(D) \in Int
<1>1. PICK f : f = [b \in Dirs |-> D[b].held]
  OBVIOUS
<1>2. \A x \in DirRec : x.held \in Int
  BY DEF DirRec
<1>3. f \in [Dirs -> Int]
  BY <1>1, <1>2
<1> QED
  BY <1>1, <1>3, DirsAreFinite, SumType DEF Held

LEMMA NothingHeld ==
    ASSUME NEW D, \A d \in Dirs : D[d].held = 0
    PROVE  Held(D) = 0
<1>1. PICK f : f = [b \in Dirs |-> D[b].held]
  OBVIOUS
<1>2. DOMAIN f = Dirs /\ \A d \in Dirs : f[d] = 0
  BY <1>1
<1> QED
  BY <1>1, <1>2, DirsAreFinite, SumZero DEF Held

LEMMA NothingDue ==
    ASSUME NEW T, \A i \in Ids : T[i] = None
    PROVE  Rest(T) = 0
<1>1. PICK f : f = [j \in Ids |-> IF T[j] = None THEN 0 ELSE T[j].rest]
  OBVIOUS
<1>2. DOMAIN f = Ids /\ \A i \in Ids : f[i] = 0
  BY <1>1
<1> QED
  BY <1>1, <1>2, SendBounds, SumZero DEF Rest

-----------------------------------------------------------------------------
(* The steps.                                                              *)

\* The invariant, before and after a step: the directories and the table agree, and
\* in_flight is what is held.
Sound(F, D, T, A, R, U) == F = Held(D) + Rest(T) /\ Good(D, T, A, R, U)

\* A session that is gone has no uploads.
Absent(s, T) == s = "none" => \A i \in Ids : T[i] = None

Now == Sound(in_flight, dir, uploads, append, removing, used) /\ Absent(session, uploads)
Then == Sound(in_flight', dir', uploads', append', removing', used') /\ Absent(session', uploads')

LEMMA Facts ==
    ASSUME Now, NEW d \in Dirs
    PROVE  /\ dir \in [Dirs -> DirRec] /\ dir[d] \in DirRec
           /\ uploads \in [Ids -> UploadRec \cup {None}]
           /\ append \in [Dirs -> Int] /\ append[d] \in Int
           /\ in_flight \in Int /\ removing \subseteq Dirs
           /\ DirOk(dir[d], append[d], InTable(uploads, d), d \in removing)
<1>1. dir \in [Dirs -> DirRec] /\ uploads \in [Ids -> UploadRec \cup {None}] /\ append \in [Dirs -> Int]
  BY DEF Now, Sound, Good, Typed
<1>2. Held(dir) \in Int /\ Rest(uploads) \in Int
  BY <1>1, HeldType, RestType
<1> QED
  BY <1>1, <1>2 DEF Now, Sound, Good, Typed

\* A task works on its own directory.
LEMMA DirMoves ==
    ASSUME Now, NEW d \in Dirs, NEW e \in DirRec, dir' = [dir EXCEPT ![d] = e],
           uploads' = uploads, append' = append, used' = used, session' = session,
           in_flight' = in_flight + e.held - dir[d].held,
           removing' \subseteq removing \cup {d},
           dir[d].at # "staged" \/ d \in removing, e.staged => dir[d].staged /\ e.id = dir[d].id,
           DirOk(e, append[d], FALSE, d \in removing')
    PROVE  Then
<1>1. Good(dir, uploads, append, removing, used) /\ in_flight = Held(dir) + Rest(uploads)
  BY DEF Now, Sound
<1>2. removing' \in SUBSET Dirs /\ \A b \in Dirs : b # d /\ b \in removing' => b \in removing
  BY Facts
<1>3. PICK F : F = [dir EXCEPT ![d] = e]
  OBVIOUS
<1>4. Good(F, uploads, append, removing', used)
  BY <1>1, <1>2, <1>3, OneDir
<1>5. Held(dir) \in Int /\ Held(F) = Held(dir) + e.held - dir[d].held
  BY <1>3, Facts, HeldStep
<1>6. Rest(uploads) \in Int /\ e.held \in Int /\ dir[d].held \in Int
  BY Facts, RestType DEF DirRec
<1>7. in_flight' = Held(F) + Rest(uploads)
  BY <1>1, <1>5, <1>6
<1> QED
  BY <1>3, <1>4, <1>7 DEF Now, Then, Sound


LEMMA RootRefusedKeeps == ASSUME Now, NEW d \in Dirs, RootRefused(d) PROVE Then
<1>1. /\ dir \in [Dirs -> DirRec] /\ dir[d] \in DirRec /\ in_flight \in Int /\ removing \subseteq Dirs
      /\ DirOk(dir[d], append[d], InTable(uploads, d), d \in removing)
  BY Facts
<1>2. PICK e : e = [dir[d] EXCEPT !.at = "over", !.timer = TRUE]
  OBVIOUS
<1>3. e \in DirRec /\ dir' = [dir EXCEPT ![d] = e]
  BY <1>1, <1>2 DEF RootRefused, DirRec, DirAt
<1>4. e.at = "over" /\ e.staged = dir[d].staged /\ e.id = dir[d].id /\ e.size = dir[d].size /\ e.len = dir[d].len
      /\ e.disk = dir[d].disk /\ e.held = dir[d].held /\ e.sdk = dir[d].sdk /\ e.old = dir[d].old /\ e.timer = TRUE /\ e.orphan = dir[d].orphan
  BY <1>1, <1>2 DEF DirRec
<1>5. dir[d].at = "root"
  BY <1>1 DEF RootRefused
<1>6. DirOk(e, append[d], FALSE, d \in removing')
  BY <1>1, <1>4, <1>5 DEF DirOk, DirRec, Writing
<1>7. uploads' = uploads /\ append' = append /\ used' = used /\ session' = session
      /\ removing' \subseteq removing \cup {d}
  BY DEF RootRefused
<1>8. in_flight' = in_flight + e.held - dir[d].held
  BY <1>1, <1>4, <1>5 DEF RootRefused, DirRec, DirOk, Writing
<1>9. dir[d].at # "staged" \/ d \in removing
  BY <1>1, <1>5 DEF DirOk, Writing
<1> QED
  BY <1>3, <1>4, <1>6, <1>7, <1>8, <1>9, DirMoves

LEMMA ReserveKeeps == ASSUME Now, NEW d \in Dirs, Reserve(d) PROVE Then
<1>1. /\ dir \in [Dirs -> DirRec] /\ dir[d] \in DirRec /\ in_flight \in Int /\ removing \subseteq Dirs
      /\ DirOk(dir[d], append[d], InTable(uploads, d), d \in removing)
  BY Facts
<1>2. PICK e : e = [dir[d] EXCEPT !.at = "reserved", !.held = dir[d].size, !.seen = in_flight]
  OBVIOUS
<1>3. e \in DirRec /\ dir' = [dir EXCEPT ![d] = e]
  BY <1>1, <1>2 DEF Reserve, DirRec, DirAt
<1>4. e.at = "reserved" /\ e.staged = dir[d].staged /\ e.id = dir[d].id /\ e.size = dir[d].size /\ e.len = dir[d].len
      /\ e.disk = dir[d].disk /\ e.held = dir[d].size /\ e.sdk = dir[d].sdk /\ e.old = dir[d].old /\ e.timer = dir[d].timer /\ e.orphan = dir[d].orphan
  BY <1>1, <1>2 DEF DirRec
<1>5. dir[d].at = "root" /\ removing' = removing
  BY <1>1 DEF Reserve
<1>6. DirOk(e, append[d], FALSE, d \in removing')
  BY <1>1, <1>4, <1>5 DEF DirOk, DirRec, Writing
<1>7. uploads' = uploads /\ append' = append /\ used' = used /\ session' = session
      /\ removing' \subseteq removing \cup {d}
  BY DEF Reserve
<1>8. in_flight' = in_flight + e.held - dir[d].held
  BY <1>1, <1>4, <1>5 DEF Reserve, DirRec, DirOk, Writing
<1>9. dir[d].at # "staged" \/ d \in removing
  BY <1>1, <1>5 DEF DirOk, Writing
<1> QED
  BY <1>3, <1>4, <1>6, <1>7, <1>8, <1>9, DirMoves

LEMMA WritePayloadKeeps == ASSUME Now, NEW d \in Dirs, WritePayload(d) PROVE Then
<1>1. /\ dir \in [Dirs -> DirRec] /\ dir[d] \in DirRec /\ in_flight \in Int /\ removing \subseteq Dirs
      /\ DirOk(dir[d], append[d], InTable(uploads, d), d \in removing)
  BY Facts
<1>2. PICK e : e = [dir[d] EXCEPT !.at = "written", !.disk = dir[d].len]
  OBVIOUS
<1>3. e \in DirRec /\ dir' = [dir EXCEPT ![d] = e]
  BY <1>1, <1>2 DEF WritePayload, DirRec, DirAt
<1>4. e.at = "written" /\ e.staged = dir[d].staged /\ e.id = dir[d].id /\ e.size = dir[d].size /\ e.len = dir[d].len
      /\ e.disk = dir[d].len /\ e.held = dir[d].held /\ e.sdk = dir[d].sdk /\ e.old = dir[d].old /\ e.timer = dir[d].timer /\ e.orphan = dir[d].orphan
  BY <1>1, <1>2 DEF DirRec
<1>5. dir[d].at = "fits" /\ removing' = removing
  BY <1>1 DEF WritePayload
<1>6. DirOk(e, append[d], FALSE, d \in removing')
  BY <1>1, <1>4, <1>5 DEF DirOk, DirRec, Writing
<1>7. uploads' = uploads /\ append' = append /\ used' = used /\ session' = session
      /\ removing' \subseteq removing \cup {d}
  BY DEF WritePayload
<1>8. in_flight' = in_flight + e.held - dir[d].held
  BY <1>1, <1>4, <1>5 DEF WritePayload, DirRec, DirOk, Writing
<1>9. dir[d].at # "staged" \/ d \in removing
  BY <1>1, <1>5 DEF DirOk, Writing
<1> QED
  BY <1>3, <1>4, <1>6, <1>7, <1>8, <1>9, DirMoves

LEMMA BytesReadyKeeps == ASSUME Now, NEW d \in Dirs, BytesReady(d) PROVE Then
<1>1. /\ dir \in [Dirs -> DirRec] /\ dir[d] \in DirRec /\ in_flight \in Int /\ removing \subseteq Dirs
      /\ DirOk(dir[d], append[d], InTable(uploads, d), d \in removing)
  BY Facts
<1>2. PICK e : e = [dir[d] EXCEPT !.at = "resolved", !.held = 0, !.timer = TRUE]
  OBVIOUS
<1>3. e \in DirRec /\ dir' = [dir EXCEPT ![d] = e]
  BY <1>1, <1>2 DEF BytesReady, DirRec, DirAt
<1>4. e.at = "resolved" /\ e.staged = dir[d].staged /\ e.id = dir[d].id /\ e.size = dir[d].size /\ e.len = dir[d].len
      /\ e.disk = dir[d].disk /\ e.held = 0 /\ e.sdk = dir[d].sdk /\ e.old = dir[d].old /\ e.timer = TRUE /\ e.orphan = dir[d].orphan
  BY <1>1, <1>2 DEF DirRec
<1>5. dir[d].at = "written" /\ ~dir[d].staged /\ removing' = removing
  BY <1>1 DEF BytesReady
<1>6. DirOk(e, append[d], FALSE, d \in removing')
  BY <1>1, <1>4, <1>5 DEF DirOk, DirRec, Writing
<1>7. uploads' = uploads /\ append' = append /\ used' = used /\ session' = session
      /\ removing' \subseteq removing \cup {d}
  BY DEF BytesReady
<1>8. in_flight' = in_flight + e.held - dir[d].held
  BY <1>1, <1>4, <1>5 DEF BytesReady, DirRec, DirOk, Writing, Release
<1>9. dir[d].at # "staged" \/ d \in removing
  BY <1>1, <1>5 DEF DirOk, Writing
<1> QED
  BY <1>3, <1>4, <1>6, <1>7, <1>8, <1>9, DirMoves

LEMMA AskKeeps == ASSUME Now, NEW d \in Dirs, Ask(d) PROVE Then
<1>1. /\ dir \in [Dirs -> DirRec] /\ dir[d] \in DirRec /\ in_flight \in Int /\ removing \subseteq Dirs
      /\ DirOk(dir[d], append[d], InTable(uploads, d), d \in removing)
  BY Facts
<1>2. PICK e : e = [dir[d] EXCEPT !.at = "sent", !.sdk = "asked", !.watched = TRUE]
  OBVIOUS
<1>3. e \in DirRec /\ dir' = [dir EXCEPT ![d] = e]
  BY <1>1, <1>2 DEF Ask, DirRec, DirAt
<1>4. e.at = "sent" /\ e.staged = dir[d].staged /\ e.id = dir[d].id /\ e.size = dir[d].size /\ e.len = dir[d].len
      /\ e.disk = dir[d].disk /\ e.held = dir[d].held /\ e.sdk = "asked" /\ e.old = dir[d].old /\ e.timer = dir[d].timer /\ e.orphan = dir[d].orphan
  BY <1>1, <1>2 DEF DirRec
<1>5. dir[d].at = "built" /\ removing' = removing
  BY <1>1 DEF Ask
<1>6. DirOk(e, append[d], FALSE, d \in removing')
  BY <1>1, <1>4, <1>5 DEF DirOk, DirRec, Writing
<1>7. uploads' = uploads /\ append' = append /\ used' = used /\ session' = session
      /\ removing' \subseteq removing \cup {d}
  BY DEF Ask
<1>8. in_flight' = in_flight + e.held - dir[d].held
  BY <1>1, <1>4, <1>5 DEF Ask, DirRec, DirOk, Writing
<1>9. dir[d].at # "staged" \/ d \in removing
  BY <1>1, <1>5 DEF DirOk, Writing
<1> QED
  BY <1>3, <1>4, <1>6, <1>7, <1>8, <1>9, DirMoves

LEMMA AskFailsKeeps == ASSUME Now, NEW d \in Dirs, AskFails(d) PROVE Then
<1>1. /\ dir \in [Dirs -> DirRec] /\ dir[d] \in DirRec /\ in_flight \in Int /\ removing \subseteq Dirs
      /\ DirOk(dir[d], append[d], InTable(uploads, d), d \in removing)
  BY Facts
<1>2. PICK e : e = [dir[d] EXCEPT !.at = "over"]
  OBVIOUS
<1>3. e \in DirRec /\ dir' = [dir EXCEPT ![d] = e]
  BY <1>1, <1>2 DEF AskFails, DirRec, DirAt
<1>4. e.at = "over" /\ e.staged = dir[d].staged /\ e.id = dir[d].id /\ e.size = dir[d].size /\ e.len = dir[d].len
      /\ e.disk = dir[d].disk /\ e.held = dir[d].held /\ e.sdk = dir[d].sdk /\ e.old = dir[d].old /\ e.timer = dir[d].timer /\ e.orphan = dir[d].orphan
  BY <1>1, <1>2 DEF DirRec
<1>5. dir[d].at = "built"
  BY <1>1 DEF AskFails
<1>6. DirOk(e, append[d], FALSE, d \in removing')
  BY <1>1, <1>4, <1>5 DEF DirOk, DirRec, Writing
<1>7. uploads' = uploads /\ append' = append /\ used' = used /\ session' = session
      /\ removing' \subseteq removing \cup {d}
  BY DEF AskFails
<1>8. in_flight' = in_flight + e.held - dir[d].held
  BY <1>1, <1>4, <1>5 DEF AskFails, DirRec, DirOk, Writing
<1>9. dir[d].at # "staged" \/ d \in removing
  BY <1>1, <1>5 DEF DirOk, Writing
<1> QED
  BY <1>3, <1>4, <1>6, <1>7, <1>8, <1>9, DirMoves

LEMMA WatchTimesOutKeeps == ASSUME Now, NEW d \in Dirs, WatchTimesOut(d) PROVE Then
<1>1. /\ dir \in [Dirs -> DirRec] /\ dir[d] \in DirRec /\ in_flight \in Int /\ removing \subseteq Dirs
      /\ DirOk(dir[d], append[d], InTable(uploads, d), d \in removing)
  BY Facts
<1>2. PICK e : e = [dir[d] EXCEPT !.watched = FALSE]
  OBVIOUS
<1>3. e \in DirRec /\ dir' = [dir EXCEPT ![d] = e]
  BY <1>1, <1>2 DEF WatchTimesOut, DirRec, DirAt
<1>4. e.at = dir[d].at /\ e.staged = dir[d].staged /\ e.id = dir[d].id /\ e.size = dir[d].size /\ e.len = dir[d].len
      /\ e.disk = dir[d].disk /\ e.held = dir[d].held /\ e.sdk = dir[d].sdk /\ e.old = dir[d].old /\ e.timer = dir[d].timer /\ e.orphan = dir[d].orphan
  BY <1>1, <1>2 DEF DirRec
<1>5. dir[d].sdk = "asked" /\ removing' = removing
  BY <1>1 DEF WatchTimesOut
<1>6. DirOk(e, append[d], FALSE, d \in removing')
  BY <1>1, <1>4, <1>5 DEF DirOk, DirRec, Writing
<1>7. uploads' = uploads /\ append' = append /\ used' = used /\ session' = session
      /\ removing' \subseteq removing \cup {d}
  BY DEF WatchTimesOut
<1>8. in_flight' = in_flight + e.held - dir[d].held
  BY <1>1, <1>4, <1>5 DEF WatchTimesOut, DirRec, DirOk, Writing
<1>9. dir[d].at # "staged" \/ d \in removing
  BY <1>1, <1>5 DEF DirOk, Writing
<1> QED
  BY <1>3, <1>4, <1>6, <1>7, <1>8, <1>9, DirMoves

LEMMA SdkRefusesKeeps == ASSUME Now, NEW d \in Dirs, SdkRefuses(d) PROVE Then
<1>1. /\ dir \in [Dirs -> DirRec] /\ dir[d] \in DirRec /\ in_flight \in Int /\ removing \subseteq Dirs
      /\ DirOk(dir[d], append[d], InTable(uploads, d), d \in removing)
  BY Facts
<1>2. PICK e : e = [dir[d] EXCEPT !.sdk = "refused", !.watched = FALSE]
  OBVIOUS
<1>3. e \in DirRec /\ dir' = [dir EXCEPT ![d] = e]
  BY <1>1, <1>2 DEF SdkRefuses, DirRec, DirAt
<1>4. e.at = dir[d].at /\ e.staged = dir[d].staged /\ e.id = dir[d].id /\ e.size = dir[d].size /\ e.len = dir[d].len
      /\ e.disk = dir[d].disk /\ e.held = dir[d].held /\ e.sdk = "refused" /\ e.old = dir[d].old /\ e.timer = dir[d].timer /\ e.orphan = dir[d].orphan
  BY <1>1, <1>2 DEF DirRec
<1>5. dir[d].sdk = "asked"
  BY <1>1 DEF SdkRefuses
<1>6. DirOk(e, append[d], FALSE, d \in removing')
  BY <1>1, <1>4, <1>5 DEF DirOk, DirRec, Writing
<1>7. uploads' = uploads /\ append' = append /\ used' = used /\ session' = session
      /\ removing' \subseteq removing \cup {d}
  BY DEF SdkRefuses
<1>8. in_flight' = in_flight + e.held - dir[d].held
  BY <1>1, <1>4, <1>5 DEF SdkRefuses, DirRec, DirOk, Writing
<1>9. dir[d].at # "staged" \/ d \in removing
  BY <1>1, <1>5 DEF DirOk, Writing
<1> QED
  BY <1>3, <1>4, <1>6, <1>7, <1>8, <1>9, DirMoves

LEMMA SenderHandleKeeps == ASSUME Now, NEW d \in Dirs, SenderHandle(d) PROVE Then
<1>1. /\ dir \in [Dirs -> DirRec] /\ dir[d] \in DirRec /\ in_flight \in Int /\ removing \subseteq Dirs
      /\ DirOk(dir[d], append[d], InTable(uploads, d), d \in removing)
  BY Facts
<1>2. PICK e : e = [dir[d] EXCEPT !.sdk = IF d \in correlated THEN "open" ELSE "unowned", !.watched = FALSE]
  OBVIOUS
<1>3. e \in DirRec /\ dir' = [dir EXCEPT ![d] = e]
  BY <1>1, <1>2 DEF SenderHandle, DirRec, DirAt
<1>4. e.at = dir[d].at /\ e.staged = dir[d].staged /\ e.id = dir[d].id /\ e.size = dir[d].size /\ e.len = dir[d].len
      /\ e.disk = dir[d].disk /\ e.held = dir[d].held /\ e.sdk = (IF d \in correlated THEN "open" ELSE "unowned") /\ e.old = dir[d].old /\ e.timer = dir[d].timer /\ e.orphan = dir[d].orphan
  BY <1>1, <1>2 DEF DirRec
<1>5. dir[d].sdk = "asked" /\ removing' = removing
  BY <1>1 DEF SenderHandle
<1>6. DirOk(e, append[d], FALSE, d \in removing')
  BY <1>1, <1>4, <1>5 DEF DirOk, DirRec, Writing
<1>7. uploads' = uploads /\ append' = append /\ used' = used /\ session' = session
      /\ removing' \subseteq removing \cup {d}
  BY DEF SenderHandle
<1>8. in_flight' = in_flight + e.held - dir[d].held
  BY <1>1, <1>4, <1>5 DEF SenderHandle, DirRec, DirOk, Writing
<1>9. dir[d].at # "staged" \/ d \in removing
  BY <1>1, <1>5 DEF DirOk, Writing
<1> QED
  BY <1>3, <1>4, <1>6, <1>7, <1>8, <1>9, DirMoves

LEMMA StreamEndsKeeps == ASSUME Now, NEW d \in Dirs, StreamEnds(d) PROVE Then
<1>1. /\ dir \in [Dirs -> DirRec] /\ dir[d] \in DirRec /\ in_flight \in Int /\ removing \subseteq Dirs
      /\ DirOk(dir[d], append[d], InTable(uploads, d), d \in removing)
  BY Facts
<1>2. PICK e : e = [dir[d] EXCEPT !.sdk = "ended"]
  OBVIOUS
<1>3. e \in DirRec /\ dir' = [dir EXCEPT ![d] = e]
  BY <1>1, <1>2 DEF StreamEnds, DirRec, DirAt
<1>4. e.at = dir[d].at /\ e.staged = dir[d].staged /\ e.id = dir[d].id /\ e.size = dir[d].size /\ e.len = dir[d].len
      /\ e.disk = dir[d].disk /\ e.held = dir[d].held /\ e.sdk = "ended" /\ e.old = dir[d].old /\ e.timer = dir[d].timer /\ e.orphan = dir[d].orphan
  BY <1>1, <1>2 DEF DirRec
<1>5. dir[d].sdk \in {"open", "unowned"}
  BY <1>1 DEF StreamEnds
<1>6. DirOk(e, append[d], FALSE, d \in removing')
  BY <1>1, <1>4, <1>5 DEF DirOk, DirRec, Writing
<1>7. uploads' = uploads /\ append' = append /\ used' = used /\ session' = session
      /\ removing' \subseteq removing \cup {d}
  BY DEF StreamEnds
<1>8. in_flight' = in_flight + e.held - dir[d].held
  BY <1>1, <1>4, <1>5 DEF StreamEnds, DirRec, DirOk, Writing
<1>9. dir[d].at # "staged" \/ d \in removing
  BY <1>1, <1>5 DEF DirOk, Writing
<1> QED
  BY <1>3, <1>4, <1>6, <1>7, <1>8, <1>9, DirMoves

LEMMA RemoveDirKeeps == ASSUME Now, NEW d \in Dirs, RemoveDir(d) PROVE Then
<1>1. /\ dir \in [Dirs -> DirRec] /\ dir[d] \in DirRec /\ in_flight \in Int /\ removing \subseteq Dirs
      /\ DirOk(dir[d], append[d], InTable(uploads, d), d \in removing)
  BY Facts
<1>0. PICK left \in Nat : left \in {0, dir[d].disk} /\ dir' = [dir EXCEPT ![d].disk = left]
  BY <1>1 DEF RemoveDir, Left, DirRec
<1>2. PICK e : e = [dir[d] EXCEPT !.disk = left]
  OBVIOUS
<1>3. e \in DirRec /\ dir' = [dir EXCEPT ![d] = e]
  BY <1>0, <1>1, <1>2 DEF DirRec, DirAt
<1>4. e.at = dir[d].at /\ e.staged = dir[d].staged /\ e.id = dir[d].id /\ e.size = dir[d].size /\ e.len = dir[d].len
      /\ e.disk \in {0, dir[d].disk} /\ e.held = dir[d].held /\ e.sdk = dir[d].sdk /\ e.old = dir[d].old /\ e.timer = dir[d].timer /\ e.orphan = dir[d].orphan
  BY <1>0, <1>1, <1>2 DEF DirRec
<1>5. d \in removing /\ removing' = removing \ {d}
  BY <1>1 DEF RemoveDir
<1>6. DirOk(e, append[d], FALSE, d \in removing')
  BY <1>1, <1>4, <1>5 DEF DirOk, DirRec, Writing
<1>7. uploads' = uploads /\ append' = append /\ used' = used /\ session' = session
      /\ removing' \subseteq removing \cup {d}
  BY DEF RemoveDir
<1>8. in_flight' = in_flight + e.held - dir[d].held
  BY <1>1, <1>4, <1>5 DEF RemoveDir, DirRec, DirOk, Writing
<1>9. dir[d].at # "staged" \/ d \in removing
  BY <1>1, <1>5 DEF DirOk, Writing
<1> QED
  BY <1>3, <1>4, <1>6, <1>7, <1>8, <1>9, DirMoves

LEMMA MeasureFits == ASSUME Now, NEW d \in Dirs, Measure(d), fits(d) PROVE Then
<1>1. /\ dir \in [Dirs -> DirRec] /\ dir[d] \in DirRec /\ in_flight \in Int /\ removing \subseteq Dirs
      /\ DirOk(dir[d], append[d], InTable(uploads, d), d \in removing)
  BY Facts
<1>0. PICK z \in Int : z = 0
  OBVIOUS
<1>2. PICK e : e = [dir[d] EXCEPT !.at = "fits", !.seen = z]
  OBVIOUS
<1>3. e \in DirRec /\ dir' = [dir EXCEPT ![d] = e]
  <2>1. dir' = [dir EXCEPT ![d].at = "fits", ![d].seen = z]
    BY <1>0 DEF Measure
  <2>2. e \in DirRec
    BY <1>1, <1>2, <1>0 DEF DirRec, DirAt
  <2> QED
    BY <1>1, <1>2, <2>1, <2>2 DEF DirRec
<1>4. e.at = "fits" /\ e.staged = dir[d].staged /\ e.id = dir[d].id /\ e.size = dir[d].size /\ e.len = dir[d].len
      /\ e.disk = dir[d].disk /\ e.held = dir[d].held /\ e.sdk = dir[d].sdk /\ e.old = dir[d].old /\ e.timer = dir[d].timer /\ e.orphan = dir[d].orphan
  BY <1>1, <1>2 DEF DirRec
<1>5. dir[d].at = "reserved" /\ removing' = removing
  BY <1>1 DEF Measure
<1>6. DirOk(e, append[d], FALSE, d \in removing')
  BY <1>1, <1>4, <1>5 DEF DirOk, DirRec, Writing
<1>7. uploads' = uploads /\ append' = append /\ used' = used /\ session' = session
      /\ removing' \subseteq removing \cup {d}
  BY DEF Measure
<1>8. in_flight' = in_flight + e.held - dir[d].held
  BY <1>1, <1>4, <1>5 DEF Measure, DirRec, DirOk, Writing
<1>9. dir[d].at # "staged" \/ d \in removing
  BY <1>1, <1>5 DEF DirOk, Writing
<1> QED
  BY <1>3, <1>4, <1>6, <1>7, <1>8, <1>9, DirMoves

LEMMA MeasureRefuses == ASSUME Now, NEW d \in Dirs, Measure(d), ~fits(d) PROVE Then
<1>1. /\ dir \in [Dirs -> DirRec] /\ dir[d] \in DirRec /\ in_flight \in Int /\ removing \subseteq Dirs
      /\ DirOk(dir[d], append[d], InTable(uploads, d), d \in removing)
  BY Facts
<1>0. PICK z \in Int : z = 0
  OBVIOUS
<1>2. PICK e : e = [dir[d] EXCEPT !.at = "over", !.held = 0, !.seen = z, !.timer = TRUE]
  OBVIOUS
<1>3. e \in DirRec /\ dir' = [dir EXCEPT ![d] = e]
  <2>1. dir' = [dir EXCEPT ![d].at = "over", ![d].held = 0, ![d].seen = z, ![d].timer = TRUE]
    BY <1>0 DEF Measure
  <2>2. e \in DirRec
    BY <1>1, <1>2, <1>0 DEF DirRec, DirAt
  <2> QED
    BY <1>1, <1>2, <2>1, <2>2 DEF DirRec
<1>4. e.at = "over" /\ e.staged = dir[d].staged /\ e.id = dir[d].id /\ e.size = dir[d].size /\ e.len = dir[d].len
      /\ e.disk = dir[d].disk /\ e.held = 0 /\ e.sdk = dir[d].sdk /\ e.old = dir[d].old /\ e.timer = TRUE /\ e.orphan = dir[d].orphan
  BY <1>1, <1>2 DEF DirRec
<1>5. dir[d].at = "reserved"
  BY <1>1 DEF Measure
<1>6. DirOk(e, append[d], FALSE, d \in removing')
  BY <1>1, <1>4, <1>5 DEF DirOk, DirRec, Writing
<1>7. uploads' = uploads /\ append' = append /\ used' = used /\ session' = session
      /\ removing' \subseteq removing \cup {d}
  BY DEF Measure
<1>8. in_flight' = in_flight + e.held - dir[d].held
  BY <1>1, <1>4, <1>5 DEF Measure, DirRec, DirOk, Writing, Release
<1>9. dir[d].at # "staged" \/ d \in removing
  BY <1>1, <1>5 DEF DirOk, Writing
<1> QED
  BY <1>3, <1>4, <1>6, <1>7, <1>8, <1>9, DirMoves

LEMMA MeasureKeeps == ASSUME Now, NEW d \in Dirs, Measure(d) PROVE Then
BY MeasureFits, MeasureRefuses

LEMMA WriteFailsKeeps == ASSUME Now, NEW d \in Dirs, WriteFails(d) PROVE Then
<1>1. /\ dir \in [Dirs -> DirRec] /\ dir[d] \in DirRec /\ in_flight \in Int /\ removing \subseteq Dirs
      /\ DirOk(dir[d], append[d], InTable(uploads, d), d \in removing)
  BY Facts
<1>0. PICK left \in 0 .. dir[d].len : dir' = [dir EXCEPT ![d].at = "over", ![d].disk = left, ![d].held = 0, ![d].timer = TRUE]
  BY DEF WriteFails
<1>0a. left \in Nat
  BY <1>0, <1>1 DEF DirRec
<1>2. PICK e : e = [dir[d] EXCEPT !.at = "over", !.disk = left, !.held = 0, !.timer = TRUE]
  OBVIOUS
<1>3. e \in DirRec /\ dir' = [dir EXCEPT ![d] = e]
  <2>1. dir' = [dir EXCEPT ![d].at = "over", ![d].disk = left, ![d].held = 0, ![d].timer = TRUE]
    BY <1>0 DEF WriteFails
  <2>2. e \in DirRec
    BY <1>1, <1>2, <1>0a DEF DirRec, DirAt
  <2> QED
    BY <1>1, <1>2, <2>1, <2>2 DEF DirRec
<1>4. e.at = "over" /\ e.staged = dir[d].staged /\ e.id = dir[d].id /\ e.size = dir[d].size /\ e.len = dir[d].len
      /\ e.disk = left /\ e.held = 0 /\ e.sdk = dir[d].sdk /\ e.old = dir[d].old /\ e.timer = TRUE /\ e.orphan = dir[d].orphan
  BY <1>1, <1>2 DEF DirRec
<1>5. dir[d].at = "fits"
  BY <1>1 DEF WriteFails
<1>6. DirOk(e, append[d], FALSE, d \in removing')
  BY <1>1, <1>4, <1>5 DEF DirOk, DirRec, Writing
<1>7. uploads' = uploads /\ append' = append /\ used' = used /\ session' = session
      /\ removing' \subseteq removing \cup {d}
  BY DEF WriteFails
<1>8. in_flight' = in_flight + e.held - dir[d].held
  BY <1>1, <1>4, <1>5 DEF WriteFails, DirRec, DirOk, Writing, Release
<1>9. dir[d].at # "staged" \/ d \in removing
  BY <1>1, <1>5 DEF DirOk, Writing
<1> QED
  BY <1>3, <1>4, <1>6, <1>7, <1>8, <1>9, DirMoves

LEMMA StageReadyRefuses == ASSUME Now, NEW d \in Dirs, StageReady(d),
           ~(session # "none" /\ uploads[dir[d].id] = None) PROVE Then
<1>1. /\ dir \in [Dirs -> DirRec] /\ dir[d] \in DirRec /\ in_flight \in Int /\ removing \subseteq Dirs
      /\ DirOk(dir[d], append[d], InTable(uploads, d), d \in removing)
  BY Facts
<1>2. PICK e : e = [dir[d] EXCEPT !.at = "over", !.held = 0, !.timer = TRUE]
  OBVIOUS
<1>3. e \in DirRec /\ dir' = [dir EXCEPT ![d] = e]
  BY <1>1, <1>2 DEF StageReady, DirRec, DirAt
<1>4. e.at = "over" /\ e.staged = dir[d].staged /\ e.id = dir[d].id /\ e.size = dir[d].size /\ e.len = dir[d].len
      /\ e.disk = dir[d].disk /\ e.held = 0 /\ e.sdk = dir[d].sdk /\ e.old = dir[d].old /\ e.timer = TRUE /\ e.orphan = dir[d].orphan
  BY <1>1, <1>2 DEF DirRec
<1>5. dir[d].at = "written"
  BY <1>1 DEF StageReady
<1>6. DirOk(e, append[d], FALSE, d \in removing')
  BY <1>1, <1>4, <1>5 DEF DirOk, DirRec, Writing
<1>7. uploads' = uploads /\ append' = append /\ used' = used /\ session' = session
      /\ removing' \subseteq removing \cup {d}
  BY DEF StageReady
<1>8. in_flight' = in_flight + e.held - dir[d].held
  BY <1>1, <1>4, <1>5 DEF StageReady, DirRec, DirOk, Writing, Release
<1>9. dir[d].at # "staged" \/ d \in removing
  BY <1>1, <1>5 DEF DirOk, Writing
<1> QED
  BY <1>3, <1>4, <1>6, <1>7, <1>8, <1>9, DirMoves

LEMMA BuildGoes == ASSUME Now, NEW d \in Dirs, Build(d), Reachable(dir[d].to_peer) PROVE Then
<1>1. /\ dir \in [Dirs -> DirRec] /\ dir[d] \in DirRec /\ in_flight \in Int /\ removing \subseteq Dirs
      /\ DirOk(dir[d], append[d], InTable(uploads, d), d \in removing)
  BY Facts
<1>2. PICK e : e = [dir[d] EXCEPT !.at = "built"]
  OBVIOUS
<1>3. e \in DirRec /\ dir' = [dir EXCEPT ![d] = e]
  BY <1>1, <1>2 DEF Build, DirRec, DirAt
<1>4. e.at = "built" /\ e.staged = dir[d].staged /\ e.id = dir[d].id /\ e.size = dir[d].size /\ e.len = dir[d].len
      /\ e.disk = dir[d].disk /\ e.held = dir[d].held /\ e.sdk = dir[d].sdk /\ e.old = dir[d].old /\ e.timer = dir[d].timer /\ e.orphan = dir[d].orphan
  BY <1>1, <1>2 DEF DirRec
<1>5. dir[d].at = "resolved" /\ removing' = removing
  BY <1>1 DEF Build
<1>6. DirOk(e, append[d], FALSE, d \in removing')
  BY <1>1, <1>4, <1>5 DEF DirOk, DirRec, Writing
<1>7. uploads' = uploads /\ append' = append /\ used' = used /\ session' = session
      /\ removing' \subseteq removing \cup {d}
  BY DEF Build
<1>8. in_flight' = in_flight + e.held - dir[d].held
  BY <1>1, <1>4, <1>5 DEF Build, DirRec, DirOk, Writing
<1>9. dir[d].at # "staged" \/ d \in removing
  BY <1>1, <1>5 DEF DirOk, Writing
<1> QED
  BY <1>3, <1>4, <1>6, <1>7, <1>8, <1>9, DirMoves

LEMMA BuildRefuses == ASSUME Now, NEW d \in Dirs, Build(d), ~Reachable(dir[d].to_peer) PROVE Then
<1>1. /\ dir \in [Dirs -> DirRec] /\ dir[d] \in DirRec /\ in_flight \in Int /\ removing \subseteq Dirs
      /\ DirOk(dir[d], append[d], InTable(uploads, d), d \in removing)
  BY Facts
<1>2. PICK e : e = [dir[d] EXCEPT !.at = "over"]
  OBVIOUS
<1>3. e \in DirRec /\ dir' = [dir EXCEPT ![d] = e]
  BY <1>1, <1>2 DEF Build, DirRec, DirAt
<1>4. e.at = "over" /\ e.staged = dir[d].staged /\ e.id = dir[d].id /\ e.size = dir[d].size /\ e.len = dir[d].len
      /\ e.disk = dir[d].disk /\ e.held = dir[d].held /\ e.sdk = dir[d].sdk /\ e.old = dir[d].old /\ e.timer = dir[d].timer /\ e.orphan = dir[d].orphan
  BY <1>1, <1>2 DEF DirRec
<1>5. dir[d].at = "resolved"
  BY <1>1 DEF Build
<1>6. DirOk(e, append[d], FALSE, d \in removing')
  BY <1>1, <1>4, <1>5 DEF DirOk, DirRec, Writing
<1>7. uploads' = uploads /\ append' = append /\ used' = used /\ session' = session
      /\ removing' \subseteq removing \cup {d}
  BY DEF Build
<1>8. in_flight' = in_flight + e.held - dir[d].held
  BY <1>1, <1>4, <1>5 DEF Build, DirRec, DirOk, Writing
<1>9. dir[d].at # "staged" \/ d \in removing
  BY <1>1, <1>5 DEF DirOk, Writing
<1> QED
  BY <1>3, <1>4, <1>6, <1>7, <1>8, <1>9, DirMoves

LEMMA BuildKeeps == ASSUME Now, NEW d \in Dirs, Build(d) PROVE Then
BY BuildGoes, BuildRefuses

\* The age limit.
LEMMA DirAges ==
    ASSUME Now, NEW d \in Dirs, NEW e \in DirRec, dir' = [dir EXCEPT ![d] = e],
           UNCHANGED <<session, in_flight, uploads, append, removing, used>>,
           e.at = dir[d].at, e.staged = dir[d].staged, e.id = dir[d].id, e.size = dir[d].size, e.len = dir[d].len,
           e.sdk = dir[d].sdk, e.held = dir[d].held, e.old, e.disk = dir[d].disk \/ e.disk = 0,
           dir[d].timer \/ dir[d].orphan
    PROVE  Then
<1>1. /\ dir \in [Dirs -> DirRec] /\ dir[d] \in DirRec
      /\ DirOk(dir[d], append[d], InTable(uploads, d), d \in removing)
  BY Facts
<1>2. dir[d].at \notin {"none", "root"} \cup Writing
  BY <1>1 DEF DirOk
<1>3. PICK F : F = [dir EXCEPT ![d] = e]
  OBVIOUS
<1>4. Good(dir, uploads, append, removing, used)
  BY DEF Now, Sound
<1>5. Good(F, uploads, append, removing, used)
  BY <1>2, <1>3, <1>4, OldDir
<1>6. Held(dir) \in Int /\ Held(F) = Held(dir) + e.held - dir[d].held
  BY <1>1, <1>3, HeldStep
<1>7. e.held \in Int
  BY DEF DirRec
<1>8. Held(F) = Held(dir)
  BY <1>6, <1>7
<1> QED
  BY <1>3, <1>5, <1>8 DEF Now, Then, Sound

LEMMA AgesKeeps == ASSUME Now, NEW d \in Dirs, Ages(d) PROVE Then
<1>1. dir \in [Dirs -> DirRec] /\ dir[d] \in DirRec
  BY Facts
<1>2. PICK e : e = [dir[d] EXCEPT !.old = TRUE]
  OBVIOUS
<1>3. e \in DirRec /\ dir' = [dir EXCEPT ![d] = e]
  BY <1>1, <1>2 DEF Ages, DirRec
<1>4. /\ e.at = dir[d].at /\ e.staged = dir[d].staged /\ e.id = dir[d].id /\ e.size = dir[d].size
      /\ e.len = dir[d].len /\ e.sdk = dir[d].sdk /\ e.held = dir[d].held /\ e.old /\ e.disk = dir[d].disk
  BY <1>1, <1>2 DEF DirRec
<1>5. UNCHANGED <<session, in_flight, uploads, append, removing, used>> /\ (dir[d].timer \/ dir[d].orphan)
  BY DEF Ages
<1> QED
  BY <1>3, <1>4, <1>5, DirAges

LEMMA TimerFiresKeeps == ASSUME Now, NEW d \in Dirs, TimerFires(d) PROVE Then
<1>1. dir \in [Dirs -> DirRec] /\ dir[d] \in DirRec
  BY Facts
<1>0. PICK left \in {0, dir[d].disk} : dir' = [dir EXCEPT ![d].timer = FALSE, ![d].disk = left, ![d].orphan = left > 0]
  BY DEF TimerFires, Left
<1>6. left \in Nat
  BY <1>0, <1>1 DEF DirRec
<1>2. PICK e : e = [dir[d] EXCEPT !.timer = FALSE, !.disk = left, !.orphan = left > 0]
  OBVIOUS
<1>3. e \in DirRec /\ dir' = [dir EXCEPT ![d] = e]
  <2>1. (left > 0) \in BOOLEAN
    OBVIOUS
  <2>2. e \in DirRec
    BY <1>1, <1>2, <1>6, <2>1 DEF DirRec
  <2> QED
    BY <1>0, <1>1, <1>2, <2>2
<1>4. /\ e.at = dir[d].at /\ e.staged = dir[d].staged /\ e.id = dir[d].id /\ e.size = dir[d].size
      /\ e.len = dir[d].len /\ e.sdk = dir[d].sdk /\ e.held = dir[d].held /\ e.old = dir[d].old /\ e.disk \in {0, dir[d].disk}
  BY <1>0, <1>1, <1>2 DEF DirRec
<1>5. UNCHANGED <<session, in_flight, uploads, append, removing, used>> /\ dir[d].timer /\ dir[d].old
  BY DEF TimerFires
<1> QED
  BY <1>3, <1>4, <1>5, DirAges

\* A new directory.
LEMMA DirStarts ==
    ASSUME NEW F, NEW D, NEW T, NEW A, NEW R, NEW U, Sound(F, D, T, A, R, U), NEW d \in Dirs, NEW e \in DirRec,
           D[d].at = "none", e.at = "root", e.len <= e.size, e.staged \/ e.len = e.size, e.sdk = "none",
           e.held = 0, e.disk = 0, ~e.timer, ~e.orphan, ~e.old,
           NEW V \in SUBSET Ids, U \subseteq V, e.staged => e.id \in V /\ (FreshIds => e.id \notin U)
    PROVE  Sound(F, [D EXCEPT ![d] = e], T, A, R, V)
<1>1. Good(D, T, A, R, U) /\ F = Held(D) + Rest(T)
  BY DEF Sound
<1>2. D \in [Dirs -> DirRec] /\ DirOk(D[d], A[d], InTable(T, d), d \in R)
  BY <1>1 DEF Good, Typed
<1>3. PICK E : E = [D EXCEPT ![d] = e]
  OBVIOUS
<1>4. Good(E, T, A, R, V)
  BY <1>1, <1>3, NewDir
<1>5. D[d].held = 0
  BY <1>2 DEF DirOk, Writing
<1>6. Held(D) \in Int /\ Held(E) = Held(D) + e.held - D[d].held
  BY <1>2, <1>3, HeldStep
<1>7. Held(E) = Held(D)
  BY <1>5, <1>6
<1> QED
  BY <1>1, <1>3, <1>4, <1>7 DEF Sound

LEMMA SendBytesKeeps == ASSUME Now, NEW d \in Dirs, SendBytes(d) PROVE Then
<1>1. Sound(in_flight, dir, uploads, append, removing, used) /\ used \in SUBSET Ids
  BY DEF Now, Sound, Good, Typed
<1>2. PICK n \in 1 .. MAX_BYTE_CONTENTS_BYTES, to_peer \in BOOLEAN :
        Fresh(d, [NoDir EXCEPT !.at = "root", !.size = n, !.len = n, !.to_peer = to_peer])
  BY DEF SendBytes
<1>3. n \in Nat
  BY <1>2, SendBounds DEF MAX_BYTE_CONTENTS_BYTES
<1>4. PICK z \in Int : z = 0
  OBVIOUS
<1>5. PICK e : e = [NoDir EXCEPT !.at = "root", !.size = n, !.len = n, !.to_peer = to_peer]
  OBVIOUS
<1>6. e \in DirRec
  BY <1>2, <1>3, <1>4, <1>5 DEF NoDir, DirRec, DirAt
<1>7. /\ e.at = "root" /\ e.len = e.size /\ e.size \in Nat /\ ~e.staged /\ e.sdk = "none" /\ e.held = 0 /\ e.disk = 0
      /\ ~e.timer /\ ~e.orphan /\ ~e.old
  BY <1>3, <1>5 DEF NoDir
<1>8. dir[d].at = "none" /\ dir' = [dir EXCEPT ![d] = e]
  BY <1>2, <1>5 DEF Fresh
<1>9. e.len <= e.size
  BY <1>7
<1>10. Sound(in_flight, [dir EXCEPT ![d] = e], uploads, append, removing, used)
  BY <1>1, <1>6, <1>7, <1>8, <1>9, DirStarts
<1> QED
  BY <1>8, <1>10 DEF Now, Then, SendBytes

\* Every stage call first drops the uploads that are too old.
LEMMA Pruning ==
    ASSUME Now
    PROVE  /\ Sound(in_flight - (Rest(uploads) - Rest(pruned)), dir, pruned, append, removing \cup prunedDirs, used)
           /\ \A i \in Ids : pruned[i] # None => pruned[i] = uploads[i]
<1>1. /\ Good(dir, uploads, append, removing, used) /\ in_flight = Held(dir) + Rest(uploads)
      /\ uploads \in [Ids -> UploadRec \cup {None}] /\ removing \subseteq Dirs /\ dir \in [Dirs -> DirRec]
  BY DEF Now, Sound, Good, Typed
<1>2. /\ pruned \in [Ids -> UploadRec \cup {None}]
      /\ \A i \in Ids : pruned[i] = IF i \in stale THEN None ELSE uploads[i]
  BY <1>1 DEF pruned
<1>3. PICK V : V = pruned
  OBVIOUS
<1>4. PICK Q : Q = removing \cup prunedDirs
  OBVIOUS
<1>5. \A i \in stale : i \in Ids /\ uploads[i] # None /\ uploads[i].dir \in Dirs
  BY <1>1 DEF stale, UploadRec
<1>6. Q \in SUBSET Dirs
  BY <1>1, <1>4, <1>5 DEF prunedDirs
<1>7. ASSUME NEW d \in Q, d \notin removing
      PROVE  ~InTable(V, d) /\ \E i \in Ids : uploads[i] # None /\ uploads[i].dir = d
  <2>1. PICK i \in stale : uploads[i].dir = d
    BY <1>4, <1>7 DEF prunedDirs
  <2>2. ASSUME NEW j \in Ids, V[j] # None, V[j].dir = d PROVE FALSE
    <3>1. j \notin stale /\ V[j] = uploads[j]
      BY <1>2, <1>3, <2>2
    <3>2. i = j
      BY <1>1, <1>5, <2>1, <2>2, <3>1, OneUpload
    <3> QED
      BY <2>1, <3>1, <3>2
  <2> QED
    BY <1>5, <2>1, <2>2 DEF InTable
<1>8. Good(dir, V, append, Q, used)
  BY <1>1, <1>2, <1>3, <1>6, <1>7, TableShrinks
<1>9. Held(dir) \in Int /\ Rest(uploads) \in Int /\ Rest(V) \in Int
  BY <1>1, <1>2, <1>3, HeldType, RestType
<1>10. in_flight - (Rest(uploads) - Rest(V)) = Held(dir) + Rest(V)
  BY <1>1, <1>9
<1> QED
  BY <1>2, <1>3, <1>4, <1>8, <1>10 DEF Sound

LEMMA StageRefusedKeeps == ASSUME Now, StageRefused PROVE Then
<1>1. Sound(in_flight - (Rest(uploads) - Rest(pruned)), dir, pruned, append, removing \cup prunedDirs, used)
  BY Pruning
<1>2. /\ in_flight' = in_flight - (Rest(uploads) - Rest(pruned)) /\ dir' = dir /\ uploads' = pruned
      /\ append' = append /\ removing' = removing \cup prunedDirs /\ used' = used /\ session' # "none"
  BY DEF StageRefused, Prune
<1> QED
  BY <1>1, <1>2 DEF Then, Absent

LEMMA StageStartKeeps == ASSUME Now, NEW d \in Dirs, NEW i \in Ids, StageStart(d, i) PROVE Then
<1>1. PICK F, T, R : F = in_flight - (Rest(uploads) - Rest(pruned)) /\ T = pruned /\ R = removing \cup prunedDirs
  OBVIOUS
<1>2. Sound(F, dir, T, append, R, used)
  BY <1>1, Pruning
<1>3. PICK total \in 1 .. Cap, len \in Chunks :
        /\ plan_chunk(pruned[i], 0, len, total) = "Start"
        /\ Fresh(d, [NoDir EXCEPT !.at = "root", !.staged = TRUE, !.id = i, !.size = total, !.len = len])
  BY DEF StageStart
<1>4. total \in Nat /\ len \in Nat
  BY <1>3, SendBounds DEF Chunks
<1>5. len <= total
  BY <1>3, <1>4 DEF plan_chunk
<1>6. PICK z \in Int : z = 0
  OBVIOUS
<1>7. PICK e : e = [NoDir EXCEPT !.at = "root", !.staged = TRUE, !.id = i, !.size = total, !.len = len]
  OBVIOUS
<1>8. e \in DirRec
  BY <1>4, <1>6, <1>7 DEF NoDir, DirRec, DirAt
<1>9. /\ e.at = "root" /\ e.len = len /\ e.size = total /\ e.staged /\ e.id = i /\ e.sdk = "none" /\ e.held = 0
      /\ e.disk = 0 /\ ~e.timer /\ ~e.orphan /\ ~e.old
  BY <1>7 DEF NoDir
<1>10. dir[d].at = "none" /\ dir' = [dir EXCEPT ![d] = e]
  BY <1>3, <1>7 DEF Fresh
<1>11. PICK V : V = used \cup {i}
  OBVIOUS
<1>12. used \subseteq Ids
  BY DEF Now, Sound, Good, Typed
<1>13. V \in SUBSET Ids /\ used \subseteq V /\ i \in V /\ (FreshIds => i \notin used)
  BY <1>11, <1>12 DEF StageStart
<1>14. Sound(F, [dir EXCEPT ![d] = e], T, append, R, V)
  BY <1>2, <1>5, <1>8, <1>9, <1>10, <1>13, DirStarts
<1>15. /\ in_flight' = F /\ uploads' = T /\ append' = append /\ removing' = R /\ used' = V /\ session' # "none"
  BY <1>1, <1>11 DEF StageStart, Prune
<1> QED
  BY <1>10, <1>14, <1>15 DEF Then, Absent

\* An upload in the table starts to write its next chunk.
LEMMA ChunkStarts ==
    ASSUME NEW F, NEW D, NEW T, NEW A, NEW R, NEW U, Sound(F, D, T, A, R, U), NEW i \in Ids, T[i] # None,
           ~T[i].writing, NEW len \in Nat, len > 0, len <= MaxChunk, T[i].received + len <= T[i].total
    PROVE  Sound(F, D, [T EXCEPT ![i].writing = TRUE], [A EXCEPT ![T[i].dir] = len], R, U)
<1>1. Good(D, T, A, R, U) /\ F = Held(D) + Rest(T)
  BY DEF Sound
<1>2. /\ D \in [Dirs -> DirRec] /\ T \in [Ids -> UploadRec \cup {None}] /\ A \in [Dirs -> Int]
      /\ T[i] \in UploadRec /\ T[i].dir \in Dirs
  BY <1>1 DEF Good, Typed, UploadRec
<1>3. PICK d \in Dirs : d = T[i].dir
  BY <1>2
<1>4. UploadOk(i, T[i], D[d], A[d]) /\ DirOk(D[d], A[d], InTable(T, d), d \in R) /\ InTable(T, d)
  BY <1>1, <1>3 DEF Good, InTable
<1>5. PICK u : u = [T[i] EXCEPT !.writing = TRUE]
  OBVIOUS
<1>6. /\ u \in UploadRec /\ u # None /\ u.dir = d /\ u.total = T[i].total /\ u.received = T[i].received
      /\ u.rest = T[i].rest /\ u.writing
  BY <1>2, <1>3, <1>5, SendBounds DEF UploadRec, Dirs
<1>7. PICK V : V = [T EXCEPT ![i] = u]
  OBVIOUS
<1>8. PICK B : B = [A EXCEPT ![d] = len]
  OBVIOUS
<1>9. /\ V \in [Ids -> UploadRec \cup {None}] /\ V[i] = u /\ \A j \in Ids : j # i => V[j] = T[j]
      /\ B \in [Dirs -> Int] /\ B[d] = len /\ \A b \in Dirs : b # d => B[b] = A[b]
  BY <1>2, <1>6, <1>7, <1>8
<1>10. [T EXCEPT ![i].writing = TRUE] = V /\ [A EXCEPT ![T[i].dir] = len] = B
  BY <1>3, <1>5, <1>7, <1>8
<1>11. \A b \in Dirs : InTable(V, b) <=> InTable(T, b)
  BY <1>3, <1>6, <1>9 DEF InTable
<1>12. A[d] = 0
  BY <1>2, <1>4, SendBounds DEF UploadOk
<1>13. Typed(D, V, B, R, U)
  BY <1>1, <1>9 DEF Good, Typed
<1>14. ASSUME NEW b \in Dirs PROVE DirOk(D[b], B[b], InTable(V, b), b \in R)
  <2>1. CASE b = d
    BY <1>4, <1>9, <1>11, <2>1 DEF DirOk, Size
  <2>2. CASE b # d
    <3>1. DirOk(D[b], A[b], InTable(T, b), b \in R)
      BY <1>1 DEF Good
    <3> QED
      BY <1>9, <1>11, <2>2, <3>1 DEF DirOk
  <2> QED
    BY <2>1, <2>2
<1>15. ASSUME NEW j \in Ids, V[j] # None PROVE UploadOk(j, V[j], D[V[j].dir], B[V[j].dir])
  <2>1. CASE j = i
    <3>1. UploadOk(i, u, D[d], len)
      BY <1>4, <1>6, <1>12 DEF UploadOk, Unsettled, Size
    <3> QED
      BY <1>6, <1>9, <2>1, <3>1
  <2>2. CASE j # i
    <3>1. V[j] = T[j] /\ T[j].dir \in Dirs
      BY <1>2, <1>9, <1>15, <2>2 DEF UploadRec
    <3>2. T[j].dir # d
      BY <1>1, <1>3, <1>15, <2>2, <3>1, OneUpload
    <3> QED
      BY <1>1, <1>9, <1>15, <3>1, <3>2 DEF Good
  <2> QED
    BY <2>1, <2>2
<1>16. Good(D, V, B, R, U)
  BY <1>1, <1>13, <1>14, <1>15 DEF Good
<1>17. Rest(V) = Rest(T)
  <2>1. Rest(T) \in Int /\ Rest(V) = Rest(T) + Due(u) - Due(T[i])
    BY <1>2, <1>6, <1>7, RestStep
  <2>2. Due(u) = T[i].rest /\ Due(T[i]) = T[i].rest /\ T[i].rest \in Int
    BY <1>2, <1>6 DEF Due, UploadRec
  <2> QED
    BY <2>1, <2>2
<1> QED
  BY <1>1, <1>10, <1>16, <1>17 DEF Sound

LEMMA StageAppendKeeps == ASSUME Now, NEW i \in Ids, StageAppend(i) PROVE Then
<1>1. PICK F, T, R : F = in_flight - (Rest(uploads) - Rest(pruned)) /\ T = pruned /\ R = removing \cup prunedDirs
  OBVIOUS
<1>2. Sound(F, dir, T, append, R, used)
  BY <1>1, Pruning
<1>3. T[i] # None
  BY <1>1 DEF StageAppend
<1>4. PICK len \in Chunks :
        /\ plan_chunk(T[i], T[i].received, len, T[i].total) = "Append"
        /\ uploads' = [T EXCEPT ![i].writing = TRUE]
        /\ append' = [append EXCEPT ![T[i].dir] = len]
  BY <1>1 DEF StageAppend
<1>5. T[i] \in UploadRec
  BY <1>2, <1>3 DEF Sound, Good, Typed
<1>6. len \in Nat /\ len > 0 /\ len <= MaxChunk
  BY <1>4, SendBounds DEF Chunks
<1>7. ~T[i].writing /\ T[i].received + len <= T[i].total
  BY <1>3, <1>4, <1>5, <1>6 DEF plan_chunk, UploadRec
<1>8. Sound(F, dir, [T EXCEPT ![i].writing = TRUE], [append EXCEPT ![T[i].dir] = len], R, used)
  BY <1>2, <1>3, <1>6, <1>7, ChunkStarts
<1>9. in_flight' = F /\ dir' = dir /\ removing' = R /\ used' = used /\ session' # "none"
  BY <1>1 DEF StageAppend, Prune
<1> QED
  BY <1>4, <1>8, <1>9 DEF Then, Absent

LEMMA SessionChangesKeeps == ASSUME Now, NEW s \in {"none", "server", "peer"}, SessionChanges(s) PROVE Then
<1>1. /\ Good(dir, uploads, append, removing, used) /\ in_flight = Held(dir) + Rest(uploads)
      /\ uploads \in [Ids -> UploadRec \cup {None}] /\ removing \in SUBSET Dirs /\ dir \in [Dirs -> DirRec]
  BY DEF Now, Sound, Good, Typed
<1>2. CASE s # "none"
  BY <1>2 DEF SessionChanges, Now, Then, Absent
<1>3. CASE s = "none"
  <2>1. PICK V : V = [i \in Ids |-> None]
    OBVIOUS
  <2>2. V \in [Ids -> UploadRec \cup {None}] /\ \A i \in Ids : V[i] = None
    BY <2>1
  <2>3. \A d \in removing : d \in removing \/ (~InTable(V, d) /\ \E i \in Ids : uploads[i] # None /\ uploads[i].dir = d)
    OBVIOUS
  <2>4. Good(dir, V, append, removing, used)
    BY <1>1, <2>2, <2>3, TableShrinks
  <2>5. Held(dir) \in Int /\ Rest(uploads) \in Int /\ Rest(V) = 0
    BY <1>1, <2>2, HeldType, RestType, NothingDue
  <2>6. in_flight - Rest(uploads) = Held(dir) + Rest(V)
    BY <1>1, <2>5
  <2>7. /\ uploads' = V /\ in_flight' = in_flight - Rest(uploads)
        /\ dir' = dir /\ append' = append /\ removing' = removing /\ used' = used
    BY <1>3, <2>1 DEF SessionChanges
  <2> QED
    BY <2>2, <2>4, <2>6, <2>7 DEF Then, Sound, Absent
<1> QED
  BY <1>2, <1>3

\* A first chunk's upload enters the table.
LEMMA StageReadyTakes ==
    ASSUME FreshIds, Now, NEW d \in Dirs, StageReady(d), session # "none" /\ uploads[dir[d].id] = None
    PROVE  Then
<1>1. /\ Good(dir, uploads, append, removing, used) /\ in_flight = Held(dir) + Rest(uploads)
      /\ uploads \in [Ids -> UploadRec \cup {None}] /\ used \subseteq Ids
      /\ dir \in [Dirs -> DirRec] /\ dir[d] \in DirRec /\ append \in [Dirs -> Int]
      /\ IdsApart(dir, used)
  BY DEF Now, Sound, Good, Typed
<1>2. DirOk(dir[d], append[d], InTable(uploads, d), d \in removing) /\ dir[d].at = "written" /\ dir[d].staged
  BY <1>1 DEF Good, StageReady
<1>3. /\ append[d] = 0 /\ ~InTable(uploads, d) /\ d \notin removing /\ dir[d].held = dir[d].size
      /\ dir[d].len <= dir[d].size /\ dir[d].disk = dir[d].len
  BY <1>2 DEF DirOk, Writing
<1>4. PICK i \in Ids : i = dir[d].id
  BY <1>1, <1>2 DEF IdsApart
<1>5. PICK rest : rest = dir[d].size - dir[d].len
  OBVIOUS
<1>6. rest \in Nat /\ landed(dir[d].held, dir[d].len) = rest /\ dir[d].size \in Nat /\ dir[d].len \in Nat
  BY <1>1, <1>3, <1>5 DEF landed, DirRec
<1>7. PICK e : e = [dir[d] EXCEPT !.at = "staged", !.held = 0, !.timer = TRUE]
  OBVIOUS
<1>8. e \in DirRec
  BY <1>1, <1>7 DEF DirRec, DirAt
<1>9. /\ e.at = "staged" /\ e.held = 0 /\ e.staged /\ e.id = i /\ e.size = dir[d].size /\ e.disk = dir[d].len
      /\ e.sdk = dir[d].sdk
  BY <1>1, <1>2, <1>3, <1>4, <1>7 DEF DirRec
<1>10. PICK u : u = StagedUpload(d, dir[d].size, dir[d].len, rest)
  OBVIOUS
<1>11. u.dir = d /\ u.total = dir[d].size /\ u.received = dir[d].len /\ u.rest = rest /\ ~u.writing
  BY <1>10 DEF StagedUpload
<1>12. u \in UploadRec /\ u # None
  <2>1. u \in UploadRec
    BY <1>6, <1>10 DEF StagedUpload, UploadRec
  <2> QED
    BY <2>1, SendBounds DEF UploadRec, Dirs
<1>13. PICK D : D = [dir EXCEPT ![d] = e]
  OBVIOUS
<1>14. PICK T : T = [uploads EXCEPT ![i] = u]
  OBVIOUS
<1>15. /\ D \in [Dirs -> DirRec] /\ D[d] = e /\ \A b \in Dirs : b # d => D[b] = dir[b]
       /\ T \in [Ids -> UploadRec \cup {None}] /\ T[i] = u /\ \A j \in Ids : j # i => T[j] = uploads[j]
  BY <1>1, <1>8, <1>12, <1>13, <1>14
<1>16. dir' = D /\ uploads' = T /\ in_flight' = in_flight - (dir[d].held - rest)
  BY <1>1, <1>4, <1>6, <1>7, <1>10, <1>13, <1>14 DEF StageReady
<1>17. removing' = removing /\ append' = append /\ used' = used /\ session' = session
  BY DEF StageReady
<1>18. \A b \in Dirs : b # d => (InTable(T, b) <=> InTable(uploads, b))
  BY <1>4, <1>11, <1>15 DEF InTable
<1>19. Typed(D, T, append, removing, used)
  BY <1>1, <1>15 DEF Good, Typed
<1>20. ASSUME NEW b \in Dirs PROVE DirOk(D[b], append[b], InTable(T, b), b \in removing)
  <2>1. CASE b = d
    <3>1. DirOk(e, append[d], TRUE, FALSE)
      BY <1>2, <1>3, <1>9 DEF DirOk, Writing
    <3>2. DirOk(e, append[d], InTable(T, d), d \in removing)
      BY <1>3, <3>1, <1>9 DEF DirOk
    <3> QED
      BY <1>15, <2>1, <3>2
  <2>2. CASE b # d
    <3>1. DirOk(dir[b], append[b], InTable(uploads, b), b \in removing)
      BY <1>1 DEF Good
    <3> QED
      BY <1>15, <1>18, <2>2, <3>1 DEF DirOk
  <2> QED
    BY <2>1, <2>2
<1>21. ASSUME NEW j \in Ids, T[j] # None PROVE UploadOk(j, T[j], D[T[j].dir], append[T[j].dir])
  <2>1. CASE j = i
    <3>1. UploadOk(i, u, e, 0)
      BY <1>3, <1>5, <1>6, <1>9, <1>11 DEF UploadOk, Unsettled, Size
    <3> QED
      BY <1>3, <1>11, <1>15, <2>1, <3>1
  <2>2. CASE j # i
    <3>1. T[j] = uploads[j] /\ T[j].dir \in Dirs
      BY <1>1, <1>15, <1>21, <2>2 DEF UploadRec
    <3>2. T[j].dir # d
      BY <1>3, <1>21, <3>1 DEF InTable
    <3> QED
      BY <1>1, <1>15, <1>21, <3>1, <3>2 DEF Good
  <2> QED
    BY <2>1, <2>2
<1>22. IdsApart(D, used)
  <2>1. \A b \in Dirs : (D[b].staged <=> dir[b].staged) /\ D[b].id = dir[b].id
    BY <1>2, <1>4, <1>9, <1>15
  <2> QED
    BY <1>1, <2>1 DEF IdsApart
<1>23. Good(D, T, append, removing, used)
  BY <1>19, <1>20, <1>21, <1>22 DEF Good
<1>24. in_flight - (dir[d].held - rest) = Held(D) + Rest(T)
  <2>1. Held(dir) \in Int /\ Held(D) = Held(dir) + e.held - dir[d].held
    BY <1>1, <1>8, <1>13, HeldStep
  <2>2. Rest(uploads) \in Int /\ Rest(T) = Rest(uploads) + Due(u) - Due(uploads[i])
    BY <1>1, <1>12, <1>14, RestStep
  <2>3. Due(u) = rest /\ Due(uploads[i]) = 0
    BY <1>4, <1>11, <1>12 DEF Due
  <2> QED
    BY <1>1, <1>3, <1>6, <1>9, <2>1, <2>2, <2>3
<1> QED
  BY <1>16, <1>17, <1>23, <1>24 DEF Then, Sound, Absent

LEMMA StageReadyKeeps == ASSUME FreshIds, Now, NEW d \in Dirs, StageReady(d) PROVE Then
BY StageReadyTakes, StageReadyRefuses

\* With an id used once, the table's entry of a directory's id is that directory's.
LEMMA EntryIsOwn ==
    ASSUME FreshIds, Now, NEW d \in Dirs, append[d] # 0
    PROVE  /\ dir[d].id \in Ids
           /\ uploads[dir[d].id] # None => uploads[dir[d].id].dir = d
           /\ InTable(uploads, d) => uploads[dir[d].id] # None
<1>1. /\ Good(dir, uploads, append, removing, used) /\ used \subseteq Ids /\ IdsApart(dir, used)
      /\ uploads \in [Ids -> UploadRec \cup {None}]
  BY DEF Now, Sound, Good, Typed
<1>2. dir[d].staged /\ dir[d].id \in Ids
  BY <1>1 DEF Good, DirOk, IdsApart
<1>3. ASSUME uploads[dir[d].id] # None PROVE uploads[dir[d].id].dir = d
  <2>1. PICK i \in Ids : i = dir[d].id
    BY <1>2
  <2>2. PICK b \in Dirs : b = uploads[i].dir
    BY <1>1, <1>3, <2>1 DEF UploadRec
  <2>3. UploadOk(i, uploads[i], dir[b], append[b]) /\ DirOk(dir[b], append[b], InTable(uploads, b), b \in removing)
    BY <1>1, <1>3, <2>1, <2>2 DEF Good
  <2>4. InTable(uploads, b)
    BY <1>3, <2>1, <2>2 DEF InTable
  <2>5. dir[b].id = i /\ dir[b].staged
    BY <2>3, <2>4 DEF UploadOk, DirOk
  <2> QED
    BY <1>1, <1>2, <2>1, <2>2, <2>5 DEF IdsApart
<1>4. ASSUME InTable(uploads, d) PROVE uploads[dir[d].id] # None
  <2>1. PICK i \in Ids : uploads[i] # None /\ uploads[i].dir = d
    BY <1>4 DEF InTable
  <2>2. dir[d].id = i
    BY <1>1, <2>1 DEF Good, UploadOk
  <2> QED
    BY <2>1, <2>2
<1> QED
  BY <1>2, <1>3, <1>4

\* A chunk that was being written lands on its file.
LEMMA ChunkLands ==
    ASSUME Now, NEW d \in Dirs, append[d] > 0, dir[d].disk > 0,
           dir' = [dir EXCEPT ![d].disk = @ + append[d]], append' = [append EXCEPT ![d] = 0 - append[d]],
           UNCHANGED <<session, in_flight, uploads, removing, used>>
    PROVE  Then
<1>1. /\ Good(dir, uploads, append, removing, used) /\ in_flight = Held(dir) + Rest(uploads)
      /\ uploads \in [Ids -> UploadRec \cup {None}]
      /\ dir \in [Dirs -> DirRec] /\ dir[d] \in DirRec /\ append \in [Dirs -> Int] /\ append[d] \in Int
  BY DEF Now, Sound, Good, Typed
<1>2. DirOk(dir[d], append[d], InTable(uploads, d), d \in removing)
  BY <1>1 DEF Good
<1>3. PICK len \in Nat : len = append[d]
  BY <1>1
<1>4. PICK more \in Nat : more = dir[d].disk + len
  BY <1>1, <1>3 DEF DirRec
<1>5. PICK e : e = [dir[d] EXCEPT !.disk = more]
  OBVIOUS
<1>6. e \in DirRec
  BY <1>1, <1>4, <1>5 DEF DirRec
<1>7. /\ e.at = dir[d].at /\ (e.staged <=> dir[d].staged) /\ e.id = dir[d].id /\ e.size = dir[d].size
      /\ e.held = dir[d].held /\ e.sdk = dir[d].sdk /\ e.disk = more
  BY <1>1, <1>5 DEF DirRec
<1>8. PICK D : D = [dir EXCEPT ![d] = e]
  OBVIOUS
<1>9. PICK A : A = [append EXCEPT ![d] = 0 - len]
  OBVIOUS
<1>10. /\ D \in [Dirs -> DirRec] /\ D[d] = e /\ \A b \in Dirs : b # d => D[b] = dir[b]
       /\ A \in [Dirs -> Int] /\ A[d] = 0 - len /\ \A b \in Dirs : b # d => A[b] = append[b]
  BY <1>1, <1>6, <1>8, <1>9
<1>11. dir' = D /\ append' = A
  BY <1>1, <1>3, <1>4, <1>5, <1>8, <1>9
<1>12. Typed(D, uploads, A, removing, used)
  BY <1>1, <1>10 DEF Good, Typed
<1>13. ASSUME NEW b \in Dirs PROVE DirOk(D[b], A[b], InTable(uploads, b), b \in removing)
  <2>1. CASE b = d
    <3>1. dir[d].at = "staged" /\ dir[d].staged /\ len <= MaxChunk
      BY <1>2, <1>3 DEF DirOk, Size
    <3>2. Size(A[d]) = len
      BY <1>3, <1>10 DEF Size
    <3> QED
      BY <1>2, <1>7, <1>10, <2>1, <3>1, <3>2 DEF DirOk, Writing
  <2>2. CASE b # d
    <3>1. DirOk(dir[b], append[b], InTable(uploads, b), b \in removing)
      BY <1>1 DEF Good
    <3> QED
      BY <1>10, <2>2, <3>1
  <2> QED
    BY <2>1, <2>2
<1>14. ASSUME NEW j \in Ids, uploads[j] # None PROVE UploadOk(j, uploads[j], D[uploads[j].dir], A[uploads[j].dir])
  <2>1. uploads[j] \in UploadRec /\ uploads[j].dir \in Dirs
    BY <1>1, <1>14 DEF UploadRec
  <2>2. UploadOk(j, uploads[j], dir[uploads[j].dir], append[uploads[j].dir])
    BY <1>1, <1>14 DEF Good
  <2>3. CASE uploads[j].dir = d
    <3>1. UploadOk(j, uploads[j], e, 0 - len)
      BY <1>3, <1>4, <1>7, <2>1, <2>2, <2>3 DEF UploadOk, Unsettled, Size, UploadRec
    <3> QED
      BY <1>10, <2>3, <3>1
  <2>4. CASE uploads[j].dir # d
    BY <1>10, <2>1, <2>2, <2>4
  <2> QED
    BY <2>3, <2>4
<1>15. ASSUME FreshIds PROVE IdsApart(D, used)
  <2>1. \A b \in Dirs : (D[b].staged <=> dir[b].staged) /\ D[b].id = dir[b].id
    BY <1>7, <1>10
  <2> QED
    BY <1>1, <1>15, <2>1 DEF Good, IdsApart
<1>16. Good(D, uploads, A, removing, used)
  BY <1>12, <1>13, <1>14, <1>15 DEF Good
<1>17. Held(D) = Held(dir)
  <2>1. Held(dir) \in Int /\ Held(D) = Held(dir) + e.held - dir[d].held
    BY <1>1, <1>6, <1>8, HeldStep
  <2>2. dir[d].held \in Int
    BY <1>1 DEF DirRec
  <2> QED
    BY <1>7, <2>1, <2>2
<1> QED
  BY <1>1, <1>11, <1>16, <1>17 DEF Now, Then, Sound, Absent

\* A chunk is over for a directory outside the table.
LEMMA ChunkForgotten ==
    ASSUME NEW F, NEW D, NEW T, NEW A, NEW R, NEW U, Sound(F, D, T, A, R, U), NEW d \in Dirs, ~InTable(T, d)
    PROVE  Sound(F, D, T, [A EXCEPT ![d] = 0], R, U)
<1>1. /\ Good(D, T, A, R, U) /\ A \in [Dirs -> Int] /\ T \in [Ids -> UploadRec \cup {None}]
  BY DEF Sound, Good, Typed
<1>2. PICK B : B = [A EXCEPT ![d] = 0]
  OBVIOUS
<1>3. B \in [Dirs -> Int] /\ B[d] = 0 /\ \A b \in Dirs : b # d => B[b] = A[b]
  BY <1>1, <1>2
<1>4. Typed(D, T, B, R, U)
  BY <1>1, <1>3 DEF Good, Typed
<1>5. ASSUME NEW b \in Dirs PROVE DirOk(D[b], B[b], InTable(T, b), b \in R)
  <2>1. DirOk(D[b], A[b], InTable(T, b), b \in R)
    BY <1>1 DEF Good
  <2>2. DirOk(D[b], 0, InTable(T, b), b \in R)
    BY <2>1 DEF DirOk
  <2> QED
    BY <1>3, <2>1, <2>2
<1>6. ASSUME NEW j \in Ids, T[j] # None PROVE UploadOk(j, T[j], D[T[j].dir], B[T[j].dir])
  <2>1. T[j].dir \in Dirs /\ T[j].dir # d
    BY <1>1, <1>6 DEF UploadRec, InTable
  <2> QED
    BY <1>1, <1>3, <1>6, <2>1 DEF Good
<1>7. Good(D, T, B, R, U)
  BY <1>1, <1>4, <1>5, <1>6 DEF Good
<1> QED
  BY <1>2, <1>7 DEF Sound

\* An upload is dropped from the table for removal.
LEMMA UploadDropped ==
    ASSUME NEW F, NEW D, NEW T, NEW A, NEW R, NEW U, Sound(F, D, T, A, R, U), NEW i \in Ids, T[i] # None
    PROVE  /\ Sound(F - T[i].rest, D, [T EXCEPT ![i] = None], A, R \cup {T[i].dir}, U)
           /\ ~InTable([T EXCEPT ![i] = None], T[i].dir)
<1>1. /\ Good(D, T, A, R, U) /\ F = Held(D) + Rest(T) /\ D \in [Dirs -> DirRec] /\ R \subseteq Dirs
      /\ T \in [Ids -> UploadRec \cup {None}] /\ T[i] \in UploadRec /\ T[i].dir \in Dirs
  BY DEF Sound, Good, Typed, UploadRec
<1>2. PICK d \in Dirs : d = T[i].dir
  BY <1>1
<1>3. PICK V : V = [T EXCEPT ![i] = None]
  OBVIOUS
<1>4. V \in [Ids -> UploadRec \cup {None}] /\ V[i] = None /\ \A j \in Ids : j # i => V[j] = T[j]
  BY <1>1, <1>3
<1>5. ~InTable(V, d)
  BY <1>1, <1>2, <1>4, OneUpload DEF InTable
<1>6. PICK Q : Q = R \cup {d}
  OBVIOUS
<1>7. Q \in SUBSET Dirs
      /\ \A b \in Q : b \in R \/ (~InTable(V, b) /\ \E j \in Ids : T[j] # None /\ T[j].dir = b)
  BY <1>1, <1>2, <1>5, <1>6
<1>8. Good(D, V, A, Q, U)
  BY <1>1, <1>4, <1>7, TableShrinks
<1>9. Held(D) \in Int /\ Rest(T) \in Int /\ Rest(V) = Rest(T) + Due(V[i]) - Due(T[i])
  BY <1>1, <1>3, <1>4, HeldType, RestStep
<1>10. Due(V[i]) = 0 /\ Due(T[i]) = T[i].rest /\ T[i].rest \in Int
  BY <1>1, <1>4 DEF Due, UploadRec
<1>11. F - T[i].rest = Held(D) + Rest(V)
  BY <1>1, <1>9, <1>10
<1> QED
  BY <1>2, <1>3, <1>5, <1>6, <1>8, <1>11 DEF Sound

\* What a staged directory that nothing owns holds is nobody's count.
LEMMA StagedDisk ==
    ASSUME NEW F, NEW D, NEW T, NEW A, NEW R, NEW U, Sound(F, D, T, A, R, U), NEW d \in Dirs, D[d].at = "staged",
           ~InTable(T, d), NEW k \in Nat
    PROVE  Sound(F, [D EXCEPT ![d].disk = k], T, A, R, U)
<1>1. /\ Good(D, T, A, R, U) /\ F = Held(D) + Rest(T) /\ D \in [Dirs -> DirRec] /\ D[d] \in DirRec
      /\ T \in [Ids -> UploadRec \cup {None}]
  BY DEF Sound, Good, Typed
<1>2. PICK e : e = [D[d] EXCEPT !.disk = k]
  OBVIOUS
<1>3. /\ e \in DirRec /\ e.at = D[d].at /\ (e.staged <=> D[d].staged) /\ e.id = D[d].id /\ e.size = D[d].size
      /\ e.len = D[d].len /\ e.held = D[d].held /\ e.sdk = D[d].sdk /\ e.old = D[d].old /\ e.timer = D[d].timer /\ e.orphan = D[d].orphan
  BY <1>1, <1>2 DEF DirRec
<1>4. PICK E : E = [D EXCEPT ![d] = e]
  OBVIOUS
<1>5. E \in [Dirs -> DirRec] /\ E[d] = e /\ (\A b \in Dirs : b # d => E[b] = D[b]) /\ E = [D EXCEPT ![d].disk = k]
  BY <1>1, <1>2, <1>3, <1>4
<1>6. Typed(E, T, A, R, U)
  BY <1>1, <1>5 DEF Good, Typed
<1>7. ASSUME NEW b \in Dirs PROVE DirOk(E[b], A[b], InTable(T, b), b \in R)
  <2>1. DirOk(D[b], A[b], InTable(T, b), b \in R)
    BY <1>1 DEF Good
  <2>2. CASE b = d
    BY <1>3, <1>5, <2>1, <2>2 DEF DirOk, Writing
  <2> QED
    BY <1>5, <2>1, <2>2
<1>8. ASSUME NEW j \in Ids, T[j] # None PROVE UploadOk(j, T[j], E[T[j].dir], A[T[j].dir])
  <2>1. T[j].dir \in Dirs /\ T[j].dir # d
    BY <1>1, <1>8 DEF UploadRec, InTable
  <2> QED
    BY <1>1, <1>5, <1>8, <2>1 DEF Good
<1>9. ASSUME FreshIds PROVE IdsApart(E, U)
  <2>1. \A b \in Dirs : (E[b].staged <=> D[b].staged) /\ E[b].id = D[b].id
    BY <1>3, <1>5
  <2> QED
    BY <1>1, <1>9, <2>1 DEF Good, IdsApart
<1>10. Held(D) \in Int /\ Held(E) = Held(D) + e.held - D[d].held
  BY <1>1, <1>3, <1>4, HeldStep
<1>12. e.held \in Int
  BY <1>3 DEF DirRec
<1>11. Held(E) = Held(D)
  BY <1>3, <1>10, <1>12
<1> QED
  BY <1>1, <1>5, <1>6, <1>7, <1>8, <1>9, <1>11 DEF Sound, Good

LEMMA AppendLandsKeeps == ASSUME FreshIds, Now, NEW d \in Dirs, AppendLands(d) PROVE Then
<1>1. /\ dir \in [Dirs -> DirRec] /\ dir[d] \in DirRec /\ append \in [Dirs -> Int] /\ append[d] \in Int
      /\ append[d] > 0 /\ append[d] # 0
  BY Facts DEF AppendLands
<1>2. /\ dir[d].id \in Ids
      /\ uploads[dir[d].id] # None => uploads[dir[d].id].dir = d
      /\ InTable(uploads, d) => uploads[dir[d].id] # None
  BY <1>1, EntryIsOwn
<1>3. PICK n \in 0 .. append[d] :
        /\ n > 0 => dir[d].disk > 0
        /\ dir' = [dir EXCEPT ![d].disk = @ + n]
        /\ append' = [append EXCEPT ![d] = IF n = append[d] THEN 0 - append[d] ELSE 0]
        /\ IF n < append[d] /\ session # "none" /\ uploads[dir[d].id] # None
           THEN Abandon(dir[d].id)
           ELSE UNCHANGED <<uploads, in_flight, removing>>
  BY DEF AppendLands
<1>4. session' = session /\ used' = used
  BY DEF AppendLands
<1>5. CASE n = append[d]
  <2>1. /\ dir[d].disk > 0
        /\ dir' = [dir EXCEPT ![d].disk = @ + append[d]] /\ append' = [append EXCEPT ![d] = 0 - append[d]]
        /\ UNCHANGED <<session, in_flight, uploads, removing, used>>
    BY <1>1, <1>3, <1>4, <1>5
  <2> QED
    BY <1>1, <2>1, ChunkLands
<1>6. CASE n # append[d]
  <2>0. n < append[d] /\ n \in Nat /\ dir[d].disk \in Nat
    BY <1>1, <1>3, <1>6 DEF DirRec
  <2>6. PICK k \in Nat : k = dir[d].disk + n
    BY <2>0
  <2>1. dir' = [dir EXCEPT ![d].disk = k]
    BY <1>3, <2>6
  <2>2. append' = [append EXCEPT ![d] = 0]
    BY <1>3, <1>6
  <2>5. dir[d].at = "staged"
    <3>1. DirOk(dir[d], append[d], InTable(uploads, d), d \in removing)
      BY Facts
    <3> QED
      BY <1>1, <3>1 DEF DirOk
  <2>3. CASE session # "none" /\ uploads[dir[d].id] # None
    <3>1. PICK i \in Ids : i = dir[d].id
      BY <1>2
    <3>2. PICK T : T = [uploads EXCEPT ![i] = None]
      OBVIOUS
    <3>3. PICK F, R : F = in_flight - uploads[i].rest /\ R = removing \cup {uploads[i].dir}
      OBVIOUS
    <3>4. uploads' = T /\ in_flight' = F /\ removing' = R
      BY <1>3, <2>0, <2>3, <3>1, <3>2, <3>3 DEF Abandon
    <3>5. Sound(F, dir, T, append, R, used) /\ ~InTable(T, d)
      BY <1>2, <2>3, <3>1, <3>2, <3>3, UploadDropped DEF Now
    <3>6. Sound(F, dir, T, [append EXCEPT ![d] = 0], R, used)
      BY <3>5, ChunkForgotten
    <3>7. Sound(F, [dir EXCEPT ![d].disk = k], T, [append EXCEPT ![d] = 0], R, used)
      BY <2>5, <3>5, <3>6, StagedDisk
    <3> QED
      BY <1>4, <2>1, <2>2, <2>3, <3>4, <3>7 DEF Then, Absent
  <2>4. CASE ~(session # "none" /\ uploads[dir[d].id] # None)
    <3>1. ~InTable(uploads, d)
      BY <1>2, <2>4 DEF Now, Absent
    <3>2. Sound(in_flight, dir, uploads, [append EXCEPT ![d] = 0], removing, used)
      BY <3>1, ChunkForgotten DEF Now
    <3>3. UNCHANGED <<uploads, in_flight, removing>>
      BY <1>3, <2>4
    <3>4. Sound(in_flight, [dir EXCEPT ![d].disk = k], uploads, [append EXCEPT ![d] = 0], removing, used)
      BY <2>5, <3>1, <3>2, StagedDisk
    <3> QED
      BY <1>4, <2>1, <2>2, <3>3, <3>4 DEF Now, Then, Absent
  <2> QED
    BY <2>3, <2>4
<1> QED
  BY <1>5, <1>6

\* The chunk that landed is counted for its upload.
LEMMA ChunkSettles ==
    ASSUME Now, NEW d \in Dirs, append[d] < 0, NEW i \in Ids, uploads[i] # None, uploads[i].dir = d,
           append' = [append EXCEPT ![d] = 0], Credit(i, 0 - append[d]),
           UNCHANGED <<session, dir, removing, used>>
    PROVE  Then
<1>1. /\ Good(dir, uploads, append, removing, used) /\ in_flight = Held(dir) + Rest(uploads)
      /\ uploads \in [Ids -> UploadRec \cup {None}] /\ uploads[i] \in UploadRec
      /\ dir \in [Dirs -> DirRec] /\ dir[d] \in DirRec /\ append \in [Dirs -> Int] /\ append[d] \in Int
  BY DEF Now, Sound, Good, Typed
<1>2. UploadOk(i, uploads[i], dir[d], append[d])
  BY <1>1 DEF Good
<1>3. PICK len \in Nat : len = 0 - append[d]
  BY <1>1
<1>4. PICK rest, received : rest = uploads[i].rest - len /\ received = uploads[i].received + len
  OBVIOUS
<1>5. /\ rest \in Nat /\ received \in Nat /\ landed(uploads[i].rest, len) = rest
      /\ uploads[i].rest \in Nat /\ received <= uploads[i].total /\ rest = uploads[i].total - received
  BY <1>1, <1>2, <1>3, <1>4 DEF UploadOk, UploadRec, landed, Size
<1>6. PICK u : u = [uploads[i] EXCEPT !.writing = FALSE, !.received = received, !.rest = rest]
  OBVIOUS
<1>7. u \in UploadRec
  BY <1>1, <1>5, <1>6 DEF UploadRec
<1>8. u # None
  BY <1>7, SendBounds DEF UploadRec, Dirs
<1>9. u.dir = d /\ u.total = uploads[i].total /\ u.received = received /\ u.rest = rest /\ ~u.writing
  BY <1>1, <1>6 DEF UploadRec
<1>10. PICK T : T = [uploads EXCEPT ![i] = u]
  OBVIOUS
<1>11. PICK A : A = [append EXCEPT ![d] = 0]
  OBVIOUS
<1>12. /\ T \in [Ids -> UploadRec \cup {None}] /\ T[i] = u /\ \A j \in Ids : j # i => T[j] = uploads[j]
       /\ A \in [Dirs -> Int] /\ A[d] = 0 /\ \A b \in Dirs : b # d => A[b] = append[b]
  BY <1>1, <1>7, <1>10, <1>11
<1>13. in_flight' = in_flight - (uploads[i].rest - rest)
  BY <1>3, <1>5 DEF Credit
<1>14. uploads' = T
  <2>1. uploads' = [uploads EXCEPT ![i].writing = FALSE, ![i].received = @ + len, ![i].rest = rest]
    BY <1>3, <1>5 DEF Credit
  <2>2. [uploads[i] EXCEPT !.writing = FALSE, !.received = @ + len, !.rest = rest] = u
    BY <1>1, <1>4, <1>6 DEF UploadRec
  <2> QED
    BY <1>1, <1>10, <2>1, <2>2 DEF UploadRec
<1>15. \A b \in Dirs : InTable(T, b) <=> InTable(uploads, b)
  BY <1>8, <1>9, <1>12 DEF InTable
<1>16. Typed(dir, T, A, removing, used)
  BY <1>1, <1>12 DEF Good, Typed
<1>17. ASSUME NEW b \in Dirs PROVE DirOk(dir[b], A[b], InTable(T, b), b \in removing)
  <2>1. DirOk(dir[b], append[b], InTable(uploads, b), b \in removing)
    BY <1>1 DEF Good
  <2>2. DirOk(dir[b], append[b], InTable(T, b), b \in removing)
    BY <1>15, <2>1 DEF DirOk
  <2>3. DirOk(dir[b], 0, InTable(T, b), b \in removing)
    BY <2>2 DEF DirOk
  <2> QED
    BY <1>12, <2>2, <2>3
<1>18. ASSUME NEW j \in Ids, T[j] # None PROVE UploadOk(j, T[j], dir[T[j].dir], A[T[j].dir])
  <2>1. CASE j = i
    <3>1. UploadOk(i, u, dir[d], 0)
      BY <1>1, <1>2, <1>3, <1>4, <1>5, <1>9 DEF UploadOk, Unsettled, Size, UploadRec
    <3> QED
      BY <1>9, <1>12, <2>1, <3>1
  <2>2. CASE j # i
    <3>1. T[j] = uploads[j] /\ T[j].dir \in Dirs
      BY <1>1, <1>12, <1>18, <2>2 DEF UploadRec
    <3>2. T[j].dir # d
      BY <1>1, <1>18, <2>2, <3>1, OneUpload
    <3> QED
      BY <1>1, <1>12, <1>18, <3>1, <3>2 DEF Good
  <2> QED
    BY <2>1, <2>2
<1>19. Good(dir, T, A, removing, used)
  BY <1>1, <1>16, <1>17, <1>18 DEF Good
<1>20. in_flight - (uploads[i].rest - rest) = Held(dir) + Rest(T)
  <2>1. Held(dir) \in Int /\ Rest(uploads) \in Int /\ Rest(T) = Rest(uploads) + Due(u) - Due(uploads[i])
    BY <1>1, <1>7, <1>10, HeldType, RestStep
  <2>2. Due(u) = rest /\ Due(uploads[i]) = uploads[i].rest
    BY <1>8, <1>9 DEF Due
  <2> QED
    BY <1>1, <1>5, <2>1, <2>2
<1>21. session # "none"
  BY DEF Now, Absent
<1> QED
  BY <1>11, <1>13, <1>14, <1>19, <1>20, <1>21 DEF Then, Sound, Absent

LEMMA AppendSettlesKeeps == ASSUME FreshIds, Now, NEW d \in Dirs, AppendSettles(d) PROVE Then
<1>1. append[d] < 0 /\ append[d] # 0
  BY Facts DEF AppendSettles
<1>2. /\ dir[d].id \in Ids
      /\ uploads[dir[d].id] # None => uploads[dir[d].id].dir = d
      /\ InTable(uploads, d) => uploads[dir[d].id] # None
  BY <1>1, EntryIsOwn
<1>3. append' = [append EXCEPT ![d] = 0] /\ UNCHANGED <<session, dir, removing, used>>
  BY DEF AppendSettles
<1>4. CASE session # "none" /\ uploads[dir[d].id] # None
  <2>1. Credit(dir[d].id, 0 - append[d])
    BY <1>4 DEF AppendSettles
  <2> QED
    BY <1>1, <1>2, <1>3, <1>4, <2>1, ChunkSettles
<1>5. CASE ~(session # "none" /\ uploads[dir[d].id] # None)
  <2>1. ~InTable(uploads, d)
    BY <1>2, <1>5 DEF Now, Absent
  <2>2. Sound(in_flight, dir, uploads, [append EXCEPT ![d] = 0], removing, used)
    BY <2>1, ChunkForgotten DEF Now
  <2>3. UNCHANGED <<uploads, in_flight>>
    BY <1>5 DEF AppendSettles
  <2> QED
    BY <1>3, <2>2, <2>3 DEF Now, Then, Absent
<1> QED
  BY <1>4, <1>5

LEMMA SendStagedKeeps == ASSUME Now, NEW i \in Ids, SendStaged(i) PROVE Then
<1>1. /\ Good(dir, uploads, append, removing, used) /\ in_flight = Held(dir) + Rest(uploads)
      /\ uploads \in [Ids -> UploadRec \cup {None}] /\ removing \subseteq Dirs
      /\ dir \in [Dirs -> DirRec] /\ append \in [Dirs -> Int]
  BY DEF Now, Sound, Good, Typed
<1>2. uploads[i] # None /\ ~uploads[i].writing /\ uploads[i].received >= uploads[i].total
  BY DEF SendStaged, take_complete
<1>3. uploads[i] \in UploadRec
  BY <1>1, <1>2
<1>4. PICK d \in Dirs : d = uploads[i].dir
  BY <1>3 DEF UploadRec
<1>5. /\ UploadOk(i, uploads[i], dir[d], append[d]) /\ InTable(uploads, d) /\ dir[d] \in DirRec
      /\ DirOk(dir[d], append[d], InTable(uploads, d), d \in removing)
  BY <1>1, <1>2, <1>4 DEF Good, InTable
<1>6. /\ append[d] = 0 /\ dir[d].at = "staged" /\ dir[d].held = 0 /\ d \notin removing
      /\ dir[d].old \/ dir[d].disk = dir[d].size
  BY <1>1, <1>2, <1>3, <1>5 DEF UploadOk, DirOk, UploadRec, Unsettled, Size, Writing
<1>7. PICK to_peer \in BOOLEAN : dir' = [dir EXCEPT ![d].at = "resolved", ![d].to_peer = to_peer]
  BY <1>4 DEF SendStaged
<1>8. PICK e : e = [dir[d] EXCEPT !.at = "resolved", !.to_peer = to_peer]
  OBVIOUS
<1>9. e \in DirRec /\ dir' = [dir EXCEPT ![d] = e]
  BY <1>1, <1>5, <1>7, <1>8 DEF DirRec, DirAt
<1>10. /\ e.at = "resolved" /\ e.staged = dir[d].staged /\ e.id = dir[d].id /\ e.size = dir[d].size
       /\ e.disk = dir[d].disk /\ e.held = 0 /\ e.sdk = dir[d].sdk /\ e.old = dir[d].old
  BY <1>5, <1>6, <1>8 DEF DirRec
<1>11. PICK T : T = [uploads EXCEPT ![i] = None]
  OBVIOUS
<1>12. T \in [Ids -> UploadRec \cup {None}] /\ T[i] = None /\ \A j \in Ids : j # i => T[j] = uploads[j]
  BY <1>1, <1>11
<1>13. ~InTable(T, d)
  BY <1>1, <1>2, <1>4, <1>12, OneUpload DEF InTable
<1>14. PICK Q : Q = removing \cup {d}
  OBVIOUS
<1>15. Q \in SUBSET Dirs
       /\ \A b \in Q : b \in removing \/ (~InTable(T, b) /\ \E j \in Ids : uploads[j] # None /\ uploads[j].dir = b)
  BY <1>1, <1>2, <1>4, <1>13, <1>14
<1>16. Good(dir, T, append, Q, used)
  BY <1>1, <1>12, <1>15, TableShrinks
<1>17. DirOk(e, append[d], FALSE, d \in removing)
  BY <1>5, <1>6, <1>10 DEF DirOk, Writing
<1>18. \A b \in Dirs : b # d /\ b \in removing => b \in Q
  BY <1>14
<1>19. Good([dir EXCEPT ![d] = e], T, append, removing, used)
  <2>1. d \in Q /\ removing \in SUBSET Dirs
    BY <1>1, <1>14
  <2> QED
    BY <1>9, <1>10, <1>16, <1>17, <1>18, <2>1, OneDir
<1>20. in_flight - uploads[i].rest = Held([dir EXCEPT ![d] = e]) + Rest(T)
  <2>1. Held(dir) \in Int /\ Held([dir EXCEPT ![d] = e]) = Held(dir) + e.held - dir[d].held
    BY <1>1, <1>9, HeldStep
  <2>2. Rest(uploads) \in Int /\ Rest(T) = Rest(uploads) + Due(T[i]) - Due(uploads[i])
    BY <1>1, <1>11, <1>12, RestStep
  <2>3. Due(T[i]) = 0 /\ Due(uploads[i]) = uploads[i].rest /\ uploads[i].rest \in Int
    BY <1>2, <1>3, <1>12 DEF Due, UploadRec
  <2> QED
    BY <1>1, <1>6, <1>10, <2>1, <2>2, <2>3
<1>21. /\ uploads' = T /\ in_flight' = in_flight - uploads[i].rest /\ append' = append /\ removing' = removing
       /\ used' = used /\ session' = session
  BY <1>11 DEF SendStaged
<1>22. Absent(session', T)
  BY <1>12, <1>21 DEF Now, Absent
<1> QED
  BY <1>9, <1>19, <1>20, <1>21, <1>22 DEF Then, Sound

\* A start, or a restart: nothing is held and nothing is under way.
LEMMA Restarts ==
    ASSUME NEW D \in [Dirs -> DirRec], NEW U \in SUBSET Ids,
           \A d \in Dirs : D[d].at \in {"none", "over", "staged"} /\ ~D[d].staged /\ D[d].sdk = "none" /\ D[d].held = 0,
           \A d \in Dirs : D[d].at = "none" => ~D[d].timer /\ ~D[d].orphan /\ ~D[d].old /\ D[d].disk = 0
    PROVE  Sound(0, D, [i \in Ids |-> None], [d \in Dirs |-> 0], {}, U)
<1>1. PICK T : T = [i \in Ids |-> None]
  OBVIOUS
<1>2. PICK A : A = [d \in Dirs |-> 0]
  OBVIOUS
<1>3. /\ T \in [Ids -> UploadRec \cup {None}] /\ \A i \in Ids : T[i] = None
      /\ A \in [Dirs -> Int] /\ \A d \in Dirs : A[d] = 0
  BY <1>1, <1>2
<1>4. Typed(D, T, A, {}, U)
  BY <1>3 DEF Typed
<1>5. ASSUME NEW d \in Dirs PROVE DirOk(D[d], A[d], InTable(T, d), d \in {})
  <2>1. ~InTable(T, d)
    BY <1>3 DEF InTable
  <2> QED
    BY <1>3, <2>1 DEF DirOk, Writing
<1>6. Good(D, T, A, {}, U)
  BY <1>3, <1>4, <1>5 DEF Good, IdsApart
<1>7. Held(D) = 0 /\ Rest(T) = 0
  BY <1>3, NothingHeld, NothingDue
<1> QED
  BY <1>1, <1>2, <1>6, <1>7 DEF Sound

LEMMA CrashKeeps == ASSUME Now, Crash PROVE Then
<1>0. PICK swept \in SUBSET {d \in Dirs : dir[d].old} :
        dir' = [d \in Dirs |->
                 IF dir[d].at = "none" THEN NoDir
                 ELSE [NoDir EXCEPT !.at = IF dir[d].at = "staged" THEN "staged" ELSE "over",
                         !.old = dir[d].old,
                         !.disk = IF d \in swept THEN 0 ELSE dir[d].disk,
                         !.orphan = d \notin swept /\ dir[d].disk > 0]]
  BY DEF Crash
<1>1. dir \in [Dirs -> DirRec] /\ used \in SUBSET Ids
  BY DEF Now, Sound, Good, Typed
<1>2. PICK z \in Int : z = 0
  OBVIOUS
<1>3. NoDir \in DirRec
  BY <1>2 DEF NoDir, DirRec, DirAt
<1>4. ASSUME NEW d \in Dirs
      PROVE  /\ dir'[d] \in DirRec /\ dir'[d].at \in {"none", "over", "staged"} /\ ~dir'[d].staged
             /\ dir'[d].sdk = "none" /\ dir'[d].held = 0
             /\ dir'[d].at = "none" => ~dir'[d].timer /\ ~dir'[d].orphan /\ ~dir'[d].old /\ dir'[d].disk = 0
  <2>1. CASE dir[d].at = "none"
    <3>1. dir'[d] = NoDir
      BY <1>0, <2>1
    <3> QED
      BY <1>3, <3>1 DEF NoDir
  <2>2. CASE dir[d].at # "none"
    <3>1. dir[d] \in DirRec
      BY <1>1
    <3>2. PICK a, o, k, h : /\ a = IF dir[d].at = "staged" THEN "staged" ELSE "over"
                            /\ o = dir[d].old
                            /\ k = IF d \in swept THEN 0 ELSE dir[d].disk
                            /\ h = (d \notin swept /\ dir[d].disk > 0)
      OBVIOUS
    <3>3. a \in DirAt /\ a \in {"over", "staged"} /\ o \in BOOLEAN /\ k \in Nat /\ h \in BOOLEAN
      BY <3>1, <3>2 DEF DirRec, DirAt
    <3>4. PICK e : e = [NoDir EXCEPT !.at = a, !.old = o, !.disk = k, !.orphan = h]
      OBVIOUS
    <3>5. dir'[d] = e
      BY <1>0, <2>2, <3>2, <3>4
    <3>6. e \in DirRec
      BY <1>3, <3>3, <3>4 DEF DirRec
    <3>7. e.at = a /\ ~e.staged /\ e.sdk = "none" /\ e.held = 0
      BY <3>4 DEF NoDir
    <3> QED
      BY <3>3, <3>5, <3>6, <3>7
  <2> QED
    BY <2>1, <2>2
<1>5. dir' \in [Dirs -> DirRec]
  BY <1>0, <1>4
<1>6. PICK D : D = dir'
  OBVIOUS
<1>7. Sound(0, D, [i \in Ids |-> None], [d \in Dirs |-> 0], {}, used)
  BY <1>1, <1>4, <1>5, <1>6, Restarts
<1>8. in_flight' = 0 /\ uploads' = [i \in Ids |-> None] /\ append' = [d \in Dirs |-> 0] /\ removing' = {} /\ used' = used
  BY DEF Crash
<1>9. \A i \in Ids : uploads'[i] = None
  BY <1>8
<1> QED
  BY <1>6, <1>7, <1>8, <1>9 DEF Then, Absent

LEMMA InitIsSound == ASSUME Init PROVE Now
<1>1. PICK z \in Int : z = 0
  OBVIOUS
<1>2. NoDir \in DirRec
  BY <1>1 DEF NoDir, DirRec, DirAt
<1>3. dir \in [Dirs -> DirRec] /\ \A d \in Dirs : dir[d] = NoDir
  BY <1>2 DEF Init
<1>4. Sound(0, dir, [i \in Ids |-> None], [d \in Dirs |-> 0], {}, {})
  <2>1. {} \in SUBSET Ids
    OBVIOUS
  <2>2. \A d \in Dirs : /\ dir[d].at \in {"none", "over", "staged"} /\ ~dir[d].staged /\ dir[d].sdk = "none" /\ dir[d].held = 0
                        /\ dir[d].at = "none" => ~dir[d].timer /\ ~dir[d].orphan /\ ~dir[d].old /\ dir[d].disk = 0
    BY <1>3 DEF NoDir
  <2> QED
    BY <1>3, <2>1, <2>2, Restarts
<1>5. Absent(session, uploads)
  BY DEF Init, Absent
<1> QED
  BY <1>4, <1>5 DEF Init, Now

-----------------------------------------------------------------------------
(* The cap.  A reservation is added to in_flight before the disk is         *)
(* measured, so the reservations are ordered, and each one that was granted *)
(* left room for itself and for all before it.  As values: disk bytes K,    *)
(* sizes Z, the directories with a reservation L, the granted ones P, what   *)
(* each saw in flight S, the bytes x that landed on a directory after its   *)
(* reservation was returned, and the order n of the reservations.           *)

Clear(K, x) == [b \in Dirs |-> K[b] - x[b]]
UpTo(K, Z, L, x, n, m) == [b \in Dirs |-> IF b \in L /\ n[b] <= n[m] THEN Z[b] ELSE K[b] - x[b]]
Ahead(K, Z, L, n, m) == [b \in Dirs |-> IF b \in L /\ n[b] < n[m] THEN Z[b] - K[b] ELSE 0]
Open(K, Z, L) == [b \in Dirs |-> IF b \in L THEN Z[b] - K[b] ELSE 0]

LedgerTyped(K, Z, L, P, S, x, n) ==
    /\ K \in [Dirs -> Nat] /\ Z \in [Dirs -> Nat] /\ x \in [Dirs -> Nat] /\ n \in [Dirs -> Nat] /\ S \in [Dirs -> Int]
    /\ L \subseteq Dirs /\ P \subseteq L
    /\ \A b \in Dirs : x[b] <= K[b]
    /\ \A b \in L : K[b] <= Z[b] /\ x[b] = 0

Ledger(K, Z, L, P, S, x, n) ==
    /\ LedgerTyped(K, Z, L, P, S, x, n)
    /\ \A b, c \in L : n[b] = n[c] => b = c
    /\ SumFunction(Clear(K, x)) <= Cap
    /\ \A m \in P : SumFunction(UpTo(K, Z, L, x, n, m)) <= Cap
    /\ \A m \in L \ P : SumFunction(Ahead(K, Z, L, n, m)) <= S[m]

LEMMA LedgerSums ==
    ASSUME NEW K, NEW Z, NEW L, NEW P, NEW S, NEW x, NEW n, LedgerTyped(K, Z, L, P, S, x, n)
    PROVE  /\ Clear(K, x) \in [Dirs -> Int] /\ SumFunction(Clear(K, x)) \in Int
           /\ \A m \in Dirs : /\ UpTo(K, Z, L, x, n, m) \in [Dirs -> Int]
                              /\ SumFunction(UpTo(K, Z, L, x, n, m)) \in Int
                              /\ Ahead(K, Z, L, n, m) \in [Dirs -> Int]
                              /\ SumFunction(Ahead(K, Z, L, n, m)) \in Int
           /\ Open(K, Z, L) \in [Dirs -> Int] /\ SumFunction(Open(K, Z, L)) \in Int
<1>1. \A b \in Dirs : K[b] \in Int /\ Z[b] \in Int /\ x[b] \in Int /\ K[b] - x[b] \in Int /\ Z[b] - K[b] \in Int
  BY DEF LedgerTyped
<1>2. Clear(K, x) \in [Dirs -> Int] /\ Open(K, Z, L) \in [Dirs -> Int]
  BY <1>1 DEF Clear, Open
<1>3. ASSUME NEW m \in Dirs PROVE UpTo(K, Z, L, x, n, m) \in [Dirs -> Int] /\ Ahead(K, Z, L, n, m) \in [Dirs -> Int]
  BY <1>1 DEF UpTo, Ahead
<1> QED
  BY <1>2, <1>3, DirsAreFinite, SumType

\* Reservations are returned, bytes leave the disk, bytes without one land.
LEMMA LedgerShrinks ==
    ASSUME NEW K, NEW Z, NEW L, NEW P, NEW S, NEW x, NEW n, Ledger(K, Z, L, P, S, x, n),
           NEW k \in [Dirs -> Nat], NEW z \in [Dirs -> Nat], NEW l \in SUBSET L, NEW p, p = P \cap l,
           NEW s \in [Dirs -> Int], NEW y \in [Dirs -> Nat],
           \A b \in Dirs : y[b] <= k[b] /\ k[b] - y[b] <= K[b] - x[b],
           \A b \in l : z[b] = Z[b] /\ k[b] = K[b] /\ y[b] = 0,
           \A b \in l \ P : s[b] = S[b]
    PROVE  Ledger(k, z, l, p, s, y, n)
<1>1. LedgerTyped(K, Z, L, P, S, x, n)
  BY DEF Ledger
<1>2. LedgerTyped(k, z, l, p, s, y, n)
  BY <1>1 DEF LedgerTyped
<1>3. Cap \in Int
  BY SendBounds
<1>4. SumFunction(Clear(k, y)) <= Cap
  <2>1. \A b \in Dirs : Clear(k, y)[b] <= Clear(K, x)[b]
    BY DEF Clear
  <2>2. SumFunction(Clear(k, y)) <= SumFunction(Clear(K, x))
    BY <1>1, <1>2, <2>1, LedgerSums, DirsAreFinite, SumMono
  <2> QED
    BY <1>1, <1>2, <1>3, <2>2, LedgerSums DEF Ledger
<1>5. ASSUME NEW m \in p PROVE SumFunction(UpTo(k, z, l, y, n, m)) <= Cap
  <2>1. m \in P /\ m \in Dirs
    BY <1>1 DEF LedgerTyped
  <2>2. ASSUME NEW b \in Dirs PROVE UpTo(k, z, l, y, n, m)[b] <= UpTo(K, Z, L, x, n, m)[b]
    <3>1. K[b] \in Nat /\ Z[b] \in Nat /\ x[b] \in Nat /\ k[b] \in Nat /\ y[b] \in Nat /\ z[b] \in Nat
      BY <1>1 DEF LedgerTyped
    <3>2. CASE b \in l
      <4>1. b \in L /\ z[b] = Z[b] /\ k[b] = K[b] /\ y[b] = 0 /\ x[b] = 0
        BY <1>1, <3>2 DEF LedgerTyped
      <4> QED
        BY <3>1, <3>2, <4>1 DEF UpTo
    <3>3. CASE b \notin l
      <4>1. UpTo(k, z, l, y, n, m)[b] = k[b] - y[b] /\ k[b] - y[b] <= K[b] - x[b]
        BY <3>3 DEF UpTo
      <4>2. K[b] - x[b] <= UpTo(K, Z, L, x, n, m)[b]
        BY <1>1, <3>1 DEF UpTo, LedgerTyped
      <4>3. UpTo(K, Z, L, x, n, m)[b] \in Int
        BY <3>1 DEF UpTo
      <4> QED
        BY <3>1, <4>1, <4>2, <4>3
    <3> QED
      BY <3>2, <3>3
  <2>3. SumFunction(UpTo(k, z, l, y, n, m)) <= SumFunction(UpTo(K, Z, L, x, n, m))
    BY <1>1, <1>2, <2>1, <2>2, LedgerSums, DirsAreFinite, SumMono
  <2>4. SumFunction(UpTo(K, Z, L, x, n, m)) <= Cap
    BY <2>1 DEF Ledger
  <2> QED
    BY <1>1, <1>2, <1>3, <2>1, <2>3, <2>4, LedgerSums
<1>6. ASSUME NEW m \in l \ p PROVE SumFunction(Ahead(k, z, l, n, m)) <= s[m]
  <2>1. m \in L \ P /\ m \in Dirs /\ s[m] = S[m] /\ s[m] \in Int
    BY <1>1 DEF LedgerTyped
  <2>2. ASSUME NEW b \in Dirs PROVE Ahead(k, z, l, n, m)[b] <= Ahead(K, Z, L, n, m)[b]
    <3>1. K[b] \in Nat /\ Z[b] \in Nat /\ (b \in L => K[b] <= Z[b]) /\ (b \in l => b \in L /\ z[b] = Z[b] /\ k[b] = K[b])
      BY <1>1 DEF LedgerTyped
    <3> QED
      BY <3>1 DEF Ahead
  <2>3. SumFunction(Ahead(k, z, l, n, m)) <= SumFunction(Ahead(K, Z, L, n, m))
    BY <1>1, <1>2, <2>1, <2>2, LedgerSums, DirsAreFinite, SumMono
  <2>4. SumFunction(Ahead(K, Z, L, n, m)) <= S[m]
    BY <2>1 DEF Ledger
  <2> QED
    BY <1>1, <1>2, <2>1, <2>3, <2>4, LedgerSums
<1>7. \A b, c \in l : n[b] = n[c] => b = c
  BY DEF Ledger
<1> QED
  BY <1>2, <1>4, <1>5, <1>6, <1>7 DEF Ledger

\* Bytes land under a granted reservation, which may end with them.
LEMMA LedgerLands ==
    ASSUME NEW K, NEW Z, NEW L, NEW P, NEW S, NEW x, NEW n, Ledger(K, Z, L, P, S, x, n),
           NEW d \in P, NEW k \in [Dirs -> Nat], K[d] <= k[d], k[d] <= Z[d], \A b \in Dirs : b # d => k[b] = K[b],
           NEW l \in SUBSET L, L \ {d} \subseteq l, NEW p, p = P \cap l, NEW s \in [Dirs -> Int],
           \A b \in l \ P : s[b] = S[b]
    PROVE  Ledger(k, Z, l, p, s, x, n)
<1>1. LedgerTyped(K, Z, L, P, S, x, n) /\ d \in Dirs /\ d \in L
  BY DEF Ledger, LedgerTyped
<1>2. k \in [Dirs -> Nat] /\ K[d] <= k[d] /\ k[d] <= Z[d] /\ \A b \in Dirs : b # d => k[b] = K[b]
  OBVIOUS
<1>3. LedgerTyped(k, Z, l, p, s, x, n)
  <2>1. \A b \in Dirs : x[b] <= k[b]
    BY <1>1, <1>2 DEF LedgerTyped
  <2>2. \A b \in l : k[b] <= Z[b] /\ x[b] = 0
    BY <1>1, <1>2 DEF LedgerTyped
  <2> QED
    BY <1>1, <1>2, <2>1, <2>2 DEF LedgerTyped
<1>4. Cap \in Int /\ SumFunction(UpTo(K, Z, L, x, n, d)) <= Cap
  BY SendBounds DEF Ledger
<1>5. \A b \in Dirs : /\ K[b] \in Nat /\ Z[b] \in Nat /\ x[b] \in Nat /\ k[b] \in Nat /\ n[b] \in Nat
                      /\ (b \in L => K[b] <= Z[b] /\ x[b] = 0)
  BY <1>1, <1>2 DEF LedgerTyped
<1>6. \A b \in Dirs : k[b] - x[b] <= UpTo(K, Z, L, x, n, d)[b] /\ UpTo(K, Z, L, x, n, d)[b] \in Int
  <2>1. ASSUME NEW b \in Dirs, b # d PROVE k[b] - x[b] <= UpTo(K, Z, L, x, n, d)[b] /\ UpTo(K, Z, L, x, n, d)[b] \in Int
    BY <1>2, <1>5, <2>1 DEF UpTo
  <2>2. k[d] - x[d] <= UpTo(K, Z, L, x, n, d)[d] /\ UpTo(K, Z, L, x, n, d)[d] \in Int
    BY <1>1, <1>2, <1>5 DEF UpTo
  <2> QED
    BY <2>1, <2>2
<1>7. SumFunction(Clear(k, x)) <= Cap
  <2>1. \A b \in Dirs : Clear(k, x)[b] <= UpTo(K, Z, L, x, n, d)[b]
    BY <1>6 DEF Clear
  <2>2. SumFunction(Clear(k, x)) <= SumFunction(UpTo(K, Z, L, x, n, d))
    BY <1>1, <1>3, <2>1, LedgerSums, DirsAreFinite, SumMono
  <2> QED
    BY <1>1, <1>3, <1>4, <2>2, LedgerSums
<1>8. ASSUME NEW m \in p PROVE SumFunction(UpTo(k, Z, l, x, n, m)) <= Cap
  <2>1. m \in P /\ m \in Dirs /\ m \in L /\ SumFunction(UpTo(K, Z, L, x, n, m)) <= Cap
    BY <1>1 DEF Ledger, LedgerTyped
  <2>2. CASE n[d] <= n[m]
    <3>1. ASSUME NEW b \in Dirs PROVE UpTo(k, Z, l, x, n, m)[b] <= UpTo(K, Z, L, x, n, m)[b]
      <4>1. CASE b # d
        BY <1>2, <1>5, <4>1 DEF UpTo
      <4>2. CASE b = d
        BY <1>1, <1>2, <1>5, <2>2, <4>2 DEF UpTo
      <4> QED
        BY <4>1, <4>2
    <3>2. SumFunction(UpTo(k, Z, l, x, n, m)) <= SumFunction(UpTo(K, Z, L, x, n, m))
      BY <1>1, <1>3, <2>1, <3>1, LedgerSums, DirsAreFinite, SumMono
    <3> QED
      BY <1>1, <1>3, <1>4, <2>1, <3>2, LedgerSums
  <2>3. CASE n[m] < n[d]
    <3>1. ASSUME NEW b \in Dirs PROVE UpTo(k, Z, l, x, n, m)[b] <= UpTo(K, Z, L, x, n, d)[b]
      <4>1. CASE b \in l /\ n[b] <= n[m]
        <5>1. UpTo(k, Z, l, x, n, m)[b] = Z[b]
          BY <4>1 DEF UpTo
        <5>2. n[b] <= n[d] /\ b \in L
          BY <1>1, <1>5, <2>1, <2>3, <4>1
        <5>3. UpTo(K, Z, L, x, n, d)[b] = Z[b]
          BY <5>2 DEF UpTo
        <5> QED
          BY <1>5, <5>1, <5>3
      <4>2. CASE ~(b \in l /\ n[b] <= n[m])
        <5>1. UpTo(k, Z, l, x, n, m)[b] = k[b] - x[b]
          BY <4>2 DEF UpTo
        <5> QED
          BY <1>6, <5>1
      <4> QED
        BY <4>1, <4>2
    <3>2. SumFunction(UpTo(k, Z, l, x, n, m)) <= SumFunction(UpTo(K, Z, L, x, n, d))
      BY <1>1, <1>3, <2>1, <3>1, LedgerSums, DirsAreFinite, SumMono
    <3> QED
      BY <1>1, <1>3, <1>4, <2>1, <3>2, LedgerSums
  <2> QED
    BY <1>1, <1>5, <2>1, <2>2, <2>3
<1>9. ASSUME NEW m \in l \ p PROVE SumFunction(Ahead(k, Z, l, n, m)) <= s[m]
  <2>1. m \in L \ P /\ m \in Dirs /\ s[m] = S[m] /\ s[m] \in Int
    BY <1>1 DEF LedgerTyped
  <2>2. ASSUME NEW b \in Dirs PROVE Ahead(k, Z, l, n, m)[b] <= Ahead(K, Z, L, n, m)[b]
    <3>1. K[b] <= k[b]
      BY <1>1, <1>2, <1>5
    <3> QED
      BY <1>5, <3>1 DEF Ahead
  <2>3. SumFunction(Ahead(k, Z, l, n, m)) <= SumFunction(Ahead(K, Z, L, n, m))
    BY <1>1, <1>3, <2>1, <2>2, LedgerSums, DirsAreFinite, SumMono
  <2>4. SumFunction(Ahead(K, Z, L, n, m)) <= S[m]
    BY <2>1 DEF Ledger
  <2> QED
    BY <1>1, <1>3, <2>1, <2>3, <2>4, LedgerSums
<1>10. \A b, c \in l : n[b] = n[c] => b = c
  BY DEF Ledger
<1> QED
  BY <1>3, <1>7, <1>8, <1>9, <1>10 DEF Ledger

\* A reservation is granted when it fits with all it saw before it.
LEMMA LedgerGrants ==
    ASSUME NEW K, NEW Z, NEW L, NEW P, NEW S, NEW x, NEW n, Ledger(K, Z, L, P, S, x, n),
           NEW d \in L \ P, K[d] = 0, SumFunction(K) + S[d] + Z[d] <= Cap,
           NEW p, p = P \cup {d}, NEW s \in [Dirs -> Int], \A b \in L \ p : s[b] = S[b]
    PROVE  Ledger(K, Z, L, p, s, x, n)
<1>1. LedgerTyped(K, Z, L, P, S, x, n) /\ d \in Dirs /\ d \in L
  BY DEF Ledger, LedgerTyped
<1>2. LedgerTyped(K, Z, L, p, s, x, n)
  BY <1>1 DEF LedgerTyped
<1>3. \A b \in Dirs : /\ K[b] \in Nat /\ Z[b] \in Nat /\ x[b] \in Nat /\ n[b] \in Nat /\ S[b] \in Int
                      /\ (b \in L => K[b] <= Z[b] /\ x[b] = 0)
  BY <1>1 DEF LedgerTyped
<1>4. PICK a : a = Ahead(K, Z, L, n, d)
  OBVIOUS
<1>5. /\ a \in [Dirs -> Int] /\ SumFunction(a) \in Int /\ SumFunction(a) <= S[d] /\ a[d] = 0
      /\ \A b \in Dirs : a[b] = IF b \in L /\ n[b] < n[d] THEN Z[b] - K[b] ELSE 0
  <2>1. a \in [Dirs -> Int] /\ SumFunction(a) \in Int
    BY <1>1, <1>4, LedgerSums
  <2>2. SumFunction(a) <= S[d]
    BY <1>4 DEF Ledger
  <2>3. \A b \in Dirs : a[b] = IF b \in L /\ n[b] < n[d] THEN Z[b] - K[b] ELSE 0
    BY <1>4 DEF Ahead
  <2> QED
    BY <1>1, <1>3, <2>1, <2>2, <2>3
<1>6. K \in [Dirs -> Int] /\ SumFunction(K) \in Int
  <2>1. K \in [Dirs -> Int]
    BY <1>1 DEF LedgerTyped
  <2> QED
    BY <2>1, DirsAreFinite, SumType
<1>7. PICK h : h = [b \in Dirs |-> K[b] + a[b]]
  OBVIOUS
<1>8. h \in [Dirs -> Int] /\ h[d] = 0 /\ \A b \in Dirs : h[b] = K[b] + a[b]
  BY <1>1, <1>3, <1>5, <1>7
<1>9. SumFunction(h) = SumFunction(K) + SumFunction(a)
  <2>1. K \in [Dirs -> Int] /\ a \in [Dirs -> Int] /\ h \in [Dirs -> Int]
    BY <1>5, <1>6, <1>8
  <2>2. \A b \in Dirs : h[b] = K[b] + a[b]
    BY <1>8
  <2> QED
    BY <2>1, <2>2, DirsAreFinite, SumAdd
<1>10. PICK g : g = [h EXCEPT ![d] = Z[d]]
  OBVIOUS
<1>11. g \in [Dirs -> Int] /\ g[d] = Z[d] /\ \A b \in Dirs : b # d => g[b] = h[b]
  BY <1>1, <1>3, <1>8, <1>10
<1>12. SumFunction(g) = SumFunction(h) + g[d] - h[d]
  BY <1>1, <1>8, <1>11, DirsAreFinite, SumStep
<1>13. SumFunction(g) <= Cap /\ SumFunction(g) \in Int
  BY <1>1, <1>3, <1>5, <1>6, <1>8, <1>9, <1>11, <1>12, SendBounds
<1>14. ASSUME NEW b \in Dirs PROVE UpTo(K, Z, L, x, n, d)[b] <= g[b]
  <2>1. CASE b = d
    BY <1>1, <1>3, <1>11, <2>1 DEF UpTo
  <2>2. CASE b # d
    <3>1. b \in L => n[b] # n[d]
      BY <1>1, <2>2 DEF Ledger
    <3>2. g[b] = K[b] + IF b \in L /\ n[b] < n[d] THEN Z[b] - K[b] ELSE 0
      BY <1>5, <1>8, <1>11, <2>2
    <3>3. CASE b \in L /\ n[b] < n[d]
      BY <1>1, <1>3, <3>2, <3>3 DEF UpTo
    <3>4. CASE ~(b \in L /\ n[b] < n[d])
      <4>1. ~(b \in L /\ n[b] <= n[d])
        BY <1>1, <1>3, <3>1, <3>4
      <4> QED
        BY <1>3, <3>2, <3>4, <4>1 DEF UpTo
    <3> QED
      BY <3>3, <3>4
  <2> QED
    BY <2>1, <2>2
<1>15. SumFunction(UpTo(K, Z, L, x, n, d)) <= Cap
  <2>1. SumFunction(UpTo(K, Z, L, x, n, d)) <= SumFunction(g)
    BY <1>1, <1>11, <1>14, LedgerSums, DirsAreFinite, SumMono
  <2>2. SumFunction(UpTo(K, Z, L, x, n, d)) \in Int /\ Cap \in Int
    BY <1>1, LedgerSums, SendBounds
  <2> QED
    BY <1>13, <2>1, <2>2
<1>16. \A m \in L \ p : m \in L \ P /\ SumFunction(Ahead(K, Z, L, n, m)) <= s[m]
  BY DEF Ledger
<1> QED
  BY <1>2, <1>15, <1>16 DEF Ledger

\* A reservation comes after all there are.
LEMMA LedgerAdds ==
    ASSUME NEW K, NEW Z, NEW L, NEW P, NEW S, NEW x, NEW n, Ledger(K, Z, L, P, S, x, n),
           NEW d \in Dirs \ L, K[d] = 0, NEW top \in Nat, \A b \in Dirs : n[b] < top,
           NEW r \in Int, SumFunction(Open(K, Z, L)) <= r,
           NEW l, l = L \cup {d}, NEW s, s = [S EXCEPT ![d] = r], NEW o, o = [n EXCEPT ![d] = top]
    PROVE  Ledger(K, Z, l, P, s, x, o)
<1>1. LedgerTyped(K, Z, L, P, S, x, n) /\ d \in Dirs /\ d \notin L
  BY DEF Ledger
<1>2. \A b \in Dirs : /\ K[b] \in Nat /\ Z[b] \in Nat /\ x[b] \in Nat /\ n[b] \in Nat
                      /\ x[b] <= K[b] /\ (b \in L => K[b] <= Z[b] /\ x[b] = 0)
  BY <1>1 DEF LedgerTyped
<1>3. /\ o \in [Dirs -> Nat] /\ o[d] = top /\ \A b \in Dirs : b # d => o[b] = n[b]
      /\ s \in [Dirs -> Int] /\ s[d] = r /\ \A b \in Dirs : b # d => s[b] = S[b]
  BY <1>1 DEF LedgerTyped
<1>4. x[d] = 0 /\ K[d] <= Z[d]
  BY <1>1, <1>2
<1>5. LedgerTyped(K, Z, l, P, s, x, o)
  BY <1>1, <1>3, <1>4 DEF LedgerTyped
<1>6. \A b, c \in l : o[b] = o[c] => b = c
  <2>1. ASSUME NEW b \in l, NEW c \in l, o[b] = o[c], b # c PROVE FALSE
    <3>1. CASE b # d /\ c # d
      <4>1. b \in L /\ c \in L /\ o[b] = n[b] /\ o[c] = n[c]
        BY <1>1, <1>3, <3>1 DEF LedgerTyped
      <4> QED
        BY <2>1, <4>1 DEF Ledger
    <3>2. CASE b = d \/ c = d
      <4>1. b \in Dirs /\ c \in Dirs
        BY <1>5 DEF LedgerTyped
      <4> QED
        BY <1>2, <1>3, <2>1, <3>2, <4>1
    <3> QED
      BY <3>1, <3>2
  <2> QED
    BY <2>1
<1>7. ASSUME NEW m \in L
      PROVE  UpTo(K, Z, l, x, o, m) = UpTo(K, Z, L, x, n, m) /\ Ahead(K, Z, l, o, m) = Ahead(K, Z, L, n, m)
  <2>1. m \in Dirs /\ m # d /\ o[m] = n[m] /\ n[m] \in Nat
    BY <1>1, <1>2, <1>3 DEF LedgerTyped
  <2>2. \A b \in Dirs : /\ (b \in l /\ o[b] <= o[m]) <=> (b \in L /\ n[b] <= n[m])
                        /\ (b \in l /\ o[b] < o[m]) <=> (b \in L /\ n[b] < n[m])
    <3>1. ~(o[d] <= o[m]) /\ ~(o[d] < o[m])
      BY <1>3, <2>1
    <3> QED
      BY <1>1, <1>3, <2>1, <3>1
  <2> QED
    BY <2>2 DEF UpTo, Ahead
<1>8. Ahead(K, Z, l, o, d) = Open(K, Z, L)
  <2>1. \A b \in Dirs : (b \in l /\ o[b] < o[d]) <=> b \in L
    BY <1>1, <1>3
  <2> QED
    BY <2>1 DEF Ahead, Open
<1>9. \A m \in P : SumFunction(UpTo(K, Z, l, x, o, m)) <= Cap
  <2>1. \A m \in P : m \in L /\ SumFunction(UpTo(K, Z, L, x, n, m)) <= Cap
    BY <1>1 DEF Ledger, LedgerTyped
  <2> QED
    BY <1>7, <2>1
<1>10. ASSUME NEW m \in l \ P PROVE SumFunction(Ahead(K, Z, l, o, m)) <= s[m]
  <2>1. CASE m = d
    BY <1>3, <1>8, <2>1
  <2>2. CASE m # d
    <3>1. m \in L \ P /\ m \in Dirs
      BY <1>1, <2>2 DEF LedgerTyped
    <3>2. SumFunction(Ahead(K, Z, L, n, m)) <= S[m]
      BY <3>1 DEF Ledger
    <3> QED
      BY <1>3, <1>7, <2>2, <3>1, <3>2
  <2> QED
    BY <2>1, <2>2
<1>11. SumFunction(Clear(K, x)) <= Cap
  BY DEF Ledger
<1> QED
  BY <1>5, <1>6, <1>9, <1>10, <1>11 DEF Ledger

-----------------------------------------------------------------------------
(* What is in flight covers what reservations may still write.             *)

\* The upload that owns a directory.
Owner(T, d) == CHOOSE i \in Ids : T[i] # None /\ T[i].dir = d

LEMMA OwnerIs ==
    ASSUME NEW D, NEW T, NEW A, NEW R, NEW U, Good(D, T, A, R, U), NEW i \in Ids, T[i] # None
    PROVE  Owner(T, T[i].dir) = i
<1>1. PICK j : j = Owner(T, T[i].dir)
  OBVIOUS
<1>2. j \in Ids /\ T[j] # None /\ T[j].dir = T[i].dir
  BY <1>1 DEF Owner
<1> QED
  BY <1>1, <1>2, OneUpload

\* What the table holds, told by directory: every upload has a directory of its own.
Kept(T, s) == [d \in Dirs |-> IF \E i \in s : T[i] # None /\ T[i].dir = d THEN T[Owner(T, d)].rest ELSE 0]

LEMMA RestByDir ==
    ASSUME NEW D, NEW T, NEW A, NEW R, NEW U, Good(D, T, A, R, U)
    PROVE  SumFunction(Kept(T, Ids)) = Rest(T)
<1>1. T \in [Ids -> UploadRec \cup {None}] /\ IsFiniteSet(Ids)
  BY SendBounds DEF Good, Typed
<1>2. PICK f : f = [j \in Ids |-> IF T[j] = None THEN 0 ELSE T[j].rest]
  OBVIOUS
<1>3. \A i \in Ids : T[i] # None => T[i].dir \in Dirs /\ T[i].rest \in Int /\ Owner(T, T[i].dir) = i
  BY <1>1, OwnerIs DEF UploadRec
<1>4. f \in [Ids -> Int]
  BY <1>1, <1>2, <1>3
<1>5. ASSUME NEW s \in SUBSET Ids
      PROVE  /\ Kept(T, s) \in [Dirs -> Int] /\ SumFunction(Kept(T, s)) \in Int
             /\ \A d \in Dirs : Kept(T, s)[d] = IF \E i \in s : T[i] # None /\ T[i].dir = d THEN T[Owner(T, d)].rest ELSE 0
  <2>1. ASSUME NEW d \in Dirs
        PROVE  (IF \E i \in s : T[i] # None /\ T[i].dir = d THEN T[Owner(T, d)].rest ELSE 0) \in Int
    BY <1>3
  <2>2. Kept(T, s) \in [Dirs -> Int]
    BY <2>1 DEF Kept
  <2> QED
    BY <2>2, DirsAreFinite, SumType DEF Kept
<1>6. PICK p : Adds(p, f, Ids)
  BY <1>1, AddsExists
<1>7. PICK B : B = {s \in SUBSET Ids : p[s] # SumFunction(Kept(T, s))}
  OBVIOUS
<1>8. ASSUME B # {} PROVE FALSE
  <2>1. B \subseteq SUBSET Ids
    BY <1>7
  <2>2. PICK m \in B : \A u \in B : u \subseteq m => u = m
    BY <1>1, <1>8, <2>1, LeastSet
  <2>3. m # {}
    <3>1. SUFFICES ASSUME m = {} PROVE FALSE
      OBVIOUS
    <3>2. p[m] = 0
      BY <1>6, <2>1, <3>1 DEF Adds
    <3>3. PICK g : g = Kept(T, m)
      OBVIOUS
    <3>4. DOMAIN g = Dirs /\ \A d \in Dirs : g[d] = 0
      BY <3>1, <3>3 DEF Kept
    <3>5. SumFunction(g) = 0
      BY <3>4, DirsAreFinite, SumZero
    <3> QED
      BY <1>7, <2>2, <3>2, <3>3, <3>5
  <2>4. PICK i : i = One(m)
    OBVIOUS
  <2>5. PICK r : r = m \ {i}
    OBVIOUS
  <2>6. i \in m /\ i \in Ids /\ r \in SUBSET Ids /\ m \in SUBSET Ids /\ r \subseteq m /\ r # m
    BY <2>1, <2>3, <2>4, <2>5, OneOf
  <2>7. p[r] = SumFunction(Kept(T, r))
    BY <1>7, <2>2, <2>6
  <2>8. p[m] = f[i] + p[r]
    BY <1>6, <2>1, <2>3, <2>4, <2>5 DEF Adds
  <2>9. PICK g, h : g = Kept(T, m) /\ h = Kept(T, r)
    OBVIOUS
  <2>10. /\ g \in [Dirs -> Int] /\ h \in [Dirs -> Int] /\ SumFunction(h) \in Int
         /\ \A d \in Dirs : g[d] = IF \E j \in m : T[j] # None /\ T[j].dir = d THEN T[Owner(T, d)].rest ELSE 0
         /\ \A d \in Dirs : h[d] = IF \E j \in r : T[j] # None /\ T[j].dir = d THEN T[Owner(T, d)].rest ELSE 0
    BY <1>5, <2>6, <2>9
  <2>11. CASE T[i] = None
    <3>1. \A d \in Dirs : g[d] = h[d]
      BY <2>5, <2>10, <2>11
    <3>2. g = h
      BY <2>10, <3>1
    <3>3. f[i] = 0
      BY <1>2, <2>6, <2>11
    <3>4. p[m] = SumFunction(g)
      BY <2>7, <2>8, <2>9, <2>10, <3>2, <3>3
    <3> QED
      BY <1>7, <2>2, <2>9, <3>4
  <2>12. CASE T[i] # None
    <3>1. PICK d \in Dirs : d = T[i].dir
      BY <1>3, <2>6, <2>12
    <3>2. f[i] = T[i].rest /\ f[i] \in Int /\ Owner(T, d) = i
      BY <1>2, <1>3, <2>6, <2>12, <3>1
    <3>3. g[d] = f[i]
      BY <2>6, <2>10, <2>12, <3>1, <3>2
    <3>4. h[d] = 0
      <4>1. ~ \E j \in r : T[j] # None /\ T[j].dir = d
        BY <1>3, <2>5, <2>6, <3>2
      <4> QED
        BY <2>10, <4>1
    <3>5. \A b \in Dirs : b # d => g[b] = h[b]
      <4>1. \A b \in Dirs : b # d => ((\E j \in m : T[j] # None /\ T[j].dir = b) <=> (\E j \in r : T[j] # None /\ T[j].dir = b))
        BY <2>5, <3>1
      <4> QED
        BY <2>10, <4>1
    <3>6. SumFunction(g) = SumFunction(h) + g[d] - h[d]
      BY <2>10, <3>5, DirsAreFinite, SumStep
    <3>7. SumFunction(g) = p[m]
      BY <2>7, <2>8, <2>9, <2>10, <3>2, <3>3, <3>4, <3>6
    <3> QED
      BY <1>7, <2>2, <2>9, <3>7
  <2> QED
    BY <2>11, <2>12
<1>9. Ids \in SUBSET Ids /\ p[Ids] = SumFunction(Kept(T, Ids))
  BY <1>7, <1>8
<1>10. SumFunction(f) = p[Ids]
  BY <1>1, <1>4, <1>6, SumIs
<1> QED
  BY <1>2, <1>9, <1>10 DEF Rest

\* Reservations of the state: a task's, or an upload's while its file is there.
Live(e, owned) == e.at \in Writing \/ (owned /\ e.disk > 0)
Granted(e, owned) == e.at \in {"fits", "written"} \/ (owned /\ e.disk > 0)
LiveDirs(D, T) == {d \in Dirs : Live(D[d], InTable(T, d))}
GrantedDirs(D, T) == {d \in Dirs : Granted(D[d], InTable(T, d))}
Disks(D) == [d \in Dirs |-> D[d].disk]
Sizes(D) == [d \in Dirs |-> D[d].size]
Seens(D) == [d \in Dirs |-> D[d].seen]

Paid(D, T, A, x, n, top) ==
    /\ Ledger(Disks(D), Sizes(D), LiveDirs(D, T), GrantedDirs(D, T), Seens(D), x, n)
    /\ top \in Nat /\ \A b \in Dirs : n[b] < top
    /\ \A b \in Dirs : x[b] > 0 => D[b].at = "staged" /\ ~InTable(T, b) /\ A[b] <= 0 /\ x[b] <= MaxChunk
Capped(D, T, A) == \E x, n, top : Paid(D, T, A, x, n, top)

LEMMA ValuesTyped ==
    ASSUME NEW D \in [Dirs -> DirRec]
    PROVE  /\ Disks(D) \in [Dirs -> Nat] /\ Sizes(D) \in [Dirs -> Nat] /\ Seens(D) \in [Dirs -> Int]
           /\ \A d \in Dirs : Disks(D)[d] = D[d].disk /\ Sizes(D)[d] = D[d].size /\ Seens(D)[d] = D[d].seen
BY DEF Disks, Sizes, Seens, DirRec

LEMMA OpenIsCovered ==
    ASSUME NEW F, NEW D, NEW T, NEW A, NEW R, NEW U, Sound(F, D, T, A, R, U)
    PROVE  SumFunction(Open(Disks(D), Sizes(D), LiveDirs(D, T))) <= F
<1>1. /\ Good(D, T, A, R, U) /\ F = Held(D) + Rest(T) /\ D \in [Dirs -> DirRec]
      /\ T \in [Ids -> UploadRec \cup {None}] /\ A \in [Dirs -> Int]
  BY DEF Sound, Good, Typed
<1>2. \A b \in Dirs : D[b].disk \in Nat /\ D[b].size \in Nat /\ D[b].held \in Nat
  BY <1>1 DEF DirRec
<1>3. PICK a : a = Open(Disks(D), Sizes(D), LiveDirs(D, T))
  OBVIOUS
<1>4. \A b \in Dirs : a[b] = IF Live(D[b], InTable(T, b)) THEN D[b].size - D[b].disk ELSE 0
  BY <1>1, <1>3, ValuesTyped DEF Open, LiveDirs
<1>5. a \in [Dirs -> Int]
  BY <1>2, <1>3, <1>4 DEF Open
<1>6. PICK f : f = [b \in Dirs |-> D[b].held]
  OBVIOUS
<1>7. f \in [Dirs -> Int] /\ (\A b \in Dirs : f[b] = D[b].held) /\ SumFunction(f) = Held(D)
  BY <1>2, <1>6 DEF Held
<1>8. PICK g : g = Kept(T, Ids)
  OBVIOUS
<1>9. \A i \in Ids : T[i] # None => T[i] \in UploadRec /\ T[i].dir \in Dirs /\ T[i].rest \in Nat /\ Owner(T, T[i].dir) = i
  BY <1>1, OwnerIs DEF UploadRec
<1>10. /\ \A b \in Dirs : ~InTable(T, b) => g[b] = 0
       /\ \A i \in Ids : T[i] # None => g[T[i].dir] = T[i].rest
  BY <1>8, <1>9 DEF Kept, InTable
<1>11. \A b \in Dirs : g[b] \in Nat
  BY <1>9, <1>10 DEF InTable
<1>12. g \in [Dirs -> Int]
  BY <1>8, <1>11 DEF Kept
<1>13. PICK h : h = [b \in Dirs |-> f[b] + g[b]]
  OBVIOUS
<1>14. h \in [Dirs -> Int] /\ \A b \in Dirs : h[b] = f[b] + g[b]
  BY <1>7, <1>12, <1>13
<1>15. SumFunction(h) = SumFunction(f) + SumFunction(g)
  <2>1. f \in [Dirs -> Int] /\ g \in [Dirs -> Int] /\ h \in [Dirs -> Int]
    BY <1>7, <1>12, <1>14
  <2>2. \A b \in Dirs : h[b] = f[b] + g[b]
    BY <1>14
  <2> QED
    BY <2>1, <2>2, DirsAreFinite, SumAdd
<1>16. SumFunction(g) = Rest(T)
  BY <1>1, <1>8, RestByDir
<1>17. ASSUME NEW b \in Dirs PROVE a[b] <= h[b]
  <2>1. h[b] = D[b].held + g[b] /\ DirOk(D[b], A[b], InTable(T, b), b \in R) /\ g[b] \in Nat
    BY <1>1, <1>7, <1>11, <1>14 DEF Good
  <2>2. CASE D[b].at \in Writing
    BY <1>2, <1>4, <2>1, <2>2 DEF DirOk, Live
  <2>3. CASE D[b].at \notin Writing /\ InTable(T, b) /\ D[b].disk > 0
    <3>1. PICK i \in Ids : T[i] # None /\ T[i].dir = b
      BY <2>3 DEF InTable
    <3>2. UploadOk(i, T[i], D[b], A[b]) /\ T[i].total \in Nat /\ T[i].received \in Nat /\ A[b] \in Int
      BY <1>1, <1>9, <3>1 DEF Good, UploadRec
    <3>3. D[b].disk = T[i].received + Unsettled(A[b]) /\ D[b].size = T[i].total /\ T[i].rest = T[i].total - T[i].received
      BY <2>3, <3>2 DEF UploadOk
    <3>4. Unsettled(A[b]) \in Nat
      BY <3>2 DEF Unsettled
    <3>5. D[b].size - D[b].disk <= g[b]
      BY <1>10, <3>1, <3>2, <3>3, <3>4
    <3> QED
      BY <1>2, <1>4, <2>1, <2>3, <3>5 DEF Live
  <2>4. CASE ~Live(D[b], InTable(T, b))
    BY <1>2, <1>4, <2>1, <2>4
  <2> QED
    BY <2>2, <2>3, <2>4 DEF Live
<1>18. SumFunction(a) <= SumFunction(h)
  BY <1>5, <1>14, <1>17, DirsAreFinite, SumMono
<1> QED
  BY <1>1, <1>3, <1>7, <1>15, <1>16, <1>18

\* Nothing new is reserved or granted, and nothing lands.
LEMMA CapShrinks ==
    ASSUME NEW D \in [Dirs -> DirRec], NEW T, NEW A, Capped(D, T, A), NEW E \in [Dirs -> DirRec], NEW V, NEW B,
           \A b \in Dirs : Live(E[b], InTable(V, b)) =>
             /\ Live(D[b], InTable(T, b)) /\ E[b].size = D[b].size /\ E[b].disk = D[b].disk
             /\ Granted(E[b], InTable(V, b)) <=> Granted(D[b], InTable(T, b))
             /\ Granted(E[b], InTable(V, b)) \/ E[b].seen = D[b].seen,
           \A b \in Dirs : E[b].disk = D[b].disk \/ E[b].disk = 0,
           \A b \in Dirs : D[b].at = "staged" /\ ~InTable(T, b) =>
             E[b].at = "staged" /\ ~InTable(V, b) /\ (A[b] <= 0 => B[b] <= 0)
    PROVE  Capped(E, V, B)
<1>1. PICK x, n, top : Paid(D, T, A, x, n, top)
  BY DEF Capped
<1>2. PICK K, Z, L, P, S : /\ K = Disks(D) /\ Z = Sizes(D) /\ L = LiveDirs(D, T) /\ P = GrantedDirs(D, T)
                           /\ S = Seens(D)
  OBVIOUS
<1>3. PICK k, z, l, p, s : /\ k = Disks(E) /\ z = Sizes(E) /\ l = LiveDirs(E, V) /\ p = GrantedDirs(E, V)
                           /\ s = Seens(E)
  OBVIOUS
<1>4. Ledger(K, Z, L, P, S, x, n) /\ LedgerTyped(K, Z, L, P, S, x, n)
  BY <1>1, <1>2 DEF Paid, Ledger
<1>5. /\ k \in [Dirs -> Nat] /\ z \in [Dirs -> Nat] /\ s \in [Dirs -> Int]
      /\ \A b \in Dirs : k[b] = E[b].disk /\ z[b] = E[b].size /\ s[b] = E[b].seen
      /\ \A b \in Dirs : K[b] = D[b].disk /\ Z[b] = D[b].size /\ S[b] = D[b].seen
  BY <1>2, <1>3, ValuesTyped
<1>6. /\ \A b \in Dirs : b \in L <=> Live(D[b], InTable(T, b))
      /\ \A b \in Dirs : b \in P <=> Granted(D[b], InTable(T, b))
      /\ \A b \in Dirs : b \in l <=> Live(E[b], InTable(V, b))
      /\ \A b \in Dirs : b \in p <=> Granted(E[b], InTable(V, b))
      /\ l \subseteq Dirs /\ p \subseteq Dirs /\ P \subseteq Dirs /\ L \subseteq Dirs
  BY <1>2, <1>3 DEF LiveDirs, GrantedDirs
<1>7. \A b \in Dirs : b \in p => b \in l
  BY <1>6 DEF Live, Granted, Writing
<1>8. l \in SUBSET L /\ p = P \cap l
  BY <1>6, <1>7
<1>9. PICK y : y = [b \in Dirs |-> IF k[b] = 0 THEN 0 ELSE x[b]]
  OBVIOUS
<1>10. /\ y \in [Dirs -> Nat]
       /\ \A b \in Dirs : x[b] \in Nat /\ K[b] \in Nat /\ x[b] <= K[b] /\ y[b] = IF k[b] = 0 THEN 0 ELSE x[b]
  BY <1>4, <1>9 DEF LedgerTyped
<1>11. \A b \in Dirs : y[b] <= k[b] /\ k[b] - y[b] <= K[b] - x[b]
  BY <1>5, <1>10
<1>12. \A b \in l : z[b] = Z[b] /\ k[b] = K[b] /\ y[b] = 0
  BY <1>4, <1>5, <1>6, <1>8, <1>10 DEF LedgerTyped
<1>13. \A b \in l \ P : s[b] = S[b]
  BY <1>5, <1>6
<1>14. Ledger(k, z, l, p, s, y, n)
  <2>1. Ledger(K, Z, L, P, S, x, n)
    BY <1>4
  <2>2. k \in [Dirs -> Nat] /\ z \in [Dirs -> Nat] /\ s \in [Dirs -> Int] /\ y \in [Dirs -> Nat]
    BY <1>5, <1>10
  <2> QED
    BY <1>8, <1>11, <1>12, <1>13, <2>1, <2>2, LedgerShrinks
<1>15. ASSUME NEW b \in Dirs, y[b] > 0 PROVE E[b].at = "staged" /\ ~InTable(V, b) /\ B[b] <= 0 /\ y[b] <= MaxChunk
  <2>1. x[b] > 0 /\ y[b] = x[b]
    BY <1>10, <1>15
  <2>2. D[b].at = "staged" /\ ~InTable(T, b) /\ A[b] <= 0 /\ x[b] <= MaxChunk
    BY <1>1, <2>1 DEF Paid
  <2> QED
    BY <2>1, <2>2
<1>16. top \in Nat /\ \A b \in Dirs : n[b] < top
  BY <1>1 DEF Paid
<1>17. Paid(E, V, B, y, n, top)
  BY <1>3, <1>14, <1>15, <1>16 DEF Paid
<1> QED
  BY <1>17 DEF Capped

-----------------------------------------------------------------------------
(* The steps and the cap.                                                  *)

CapNow == Capped(dir, uploads, append)
CapThen == Capped(dir', uploads', append')

LEMMA ThenTyped == ASSUME Then PROVE dir' \in [Dirs -> DirRec] /\ uploads' \in [Ids -> UploadRec \cup {None}]
BY DEF Then, Sound, Good, Typed

\* One directory changes, without a reservation more.
LEMMA CapMoves ==
    ASSUME Now, Then, CapNow, NEW d \in Dirs, \A b \in Dirs : b # d => dir'[b] = dir[b],
           uploads' = uploads, append' = append,
           Live(dir'[d], InTable(uploads, d)) =>
             /\ Live(dir[d], InTable(uploads, d)) /\ dir'[d].size = dir[d].size /\ dir'[d].disk = dir[d].disk
             /\ Granted(dir'[d], InTable(uploads, d)) <=> Granted(dir[d], InTable(uploads, d))
             /\ Granted(dir'[d], InTable(uploads, d)) \/ dir'[d].seen = dir[d].seen,
           dir'[d].disk = dir[d].disk \/ dir'[d].disk = 0,
           dir[d].at = "staged" => dir'[d].at = "staged"
    PROVE  CapThen
<1>1. PICK E : E = dir'
  OBVIOUS
<1>2. dir \in [Dirs -> DirRec] /\ E \in [Dirs -> DirRec] /\ append \in [Dirs -> Int]
  BY <1>1, Facts, ThenTyped
<1>3. \A b \in Dirs : Live(E[b], InTable(uploads, b)) =>
             /\ Live(dir[b], InTable(uploads, b)) /\ E[b].size = dir[b].size /\ E[b].disk = dir[b].disk
             /\ Granted(E[b], InTable(uploads, b)) <=> Granted(dir[b], InTable(uploads, b))
             /\ Granted(E[b], InTable(uploads, b)) \/ E[b].seen = dir[b].seen
  BY <1>1
<1>4. \A b \in Dirs : E[b].disk = dir[b].disk \/ E[b].disk = 0
  BY <1>1
<1>5. \A b \in Dirs : dir[b].at = "staged" /\ ~InTable(uploads, b) =>
        E[b].at = "staged" /\ ~InTable(uploads, b) /\ (append[b] <= 0 => append[b] <= 0)
  BY <1>1
<1>6. Capped(E, uploads, append)
  BY <1>2, <1>3, <1>4, <1>5, CapShrinks DEF CapNow
<1> QED
  BY <1>1, <1>6 DEF CapThen

\* Its task leaves it, or had none.
LEMMA CapLeaves ==
    ASSUME Now, Then, CapNow, NEW d \in Dirs, \A b \in Dirs : b # d => dir'[b] = dir[b],
           uploads' = uploads, append' = append,
           dir[d].at # "staged", dir'[d].at \notin Writing, dir'[d].disk = dir[d].disk \/ dir'[d].disk = 0
    PROVE  CapThen
<1>1. ~InTable(uploads, d)
  BY Facts DEF DirOk
<1>2. ~Live(dir'[d], InTable(uploads, d))
  BY <1>1 DEF Live
<1> QED
  BY <1>2, CapMoves

LEMMA RootRefusedCaps == ASSUME Now, Then, CapNow, NEW d \in Dirs, RootRefused(d) PROVE CapThen
<1>1. dir \in [Dirs -> DirRec] /\ dir[d] \in DirRec
  BY Facts
<1>2. dir'[d].at = "over" /\ dir'[d].disk = dir[d].disk /\ \A b \in Dirs : b # d => dir'[b] = dir[b]
  BY <1>1 DEF RootRefused, DirRec
<1>3. uploads' = uploads /\ append' = append /\ dir[d].at # "staged"
  BY <1>1, Facts DEF RootRefused, DirOk
<1> QED
  BY <1>1, <1>2, <1>3, CapLeaves DEF Writing

LEMMA MeasureRefusesCaps == ASSUME Now, Then, CapNow, NEW d \in Dirs, Measure(d), ~fits(d) PROVE CapThen
<1>1. dir \in [Dirs -> DirRec] /\ dir[d] \in DirRec
  BY Facts
<1>2. dir'[d].at = "over" /\ dir'[d].disk = dir[d].disk /\ \A b \in Dirs : b # d => dir'[b] = dir[b]
  BY <1>1 DEF Measure, DirRec
<1>3. uploads' = uploads /\ append' = append /\ dir[d].at # "staged"
  BY <1>1, Facts DEF Measure, DirOk
<1> QED
  BY <1>1, <1>2, <1>3, CapLeaves DEF Writing

LEMMA BytesReadyCaps == ASSUME Now, Then, CapNow, NEW d \in Dirs, BytesReady(d) PROVE CapThen
<1>1. dir \in [Dirs -> DirRec] /\ dir[d] \in DirRec
  BY Facts
<1>2. dir'[d].at = "resolved" /\ dir'[d].disk = dir[d].disk /\ \A b \in Dirs : b # d => dir'[b] = dir[b]
  BY <1>1 DEF BytesReady, DirRec
<1>3. uploads' = uploads /\ append' = append /\ dir[d].at # "staged"
  BY <1>1, Facts DEF BytesReady, DirOk
<1> QED
  BY <1>1, <1>2, <1>3, CapLeaves DEF Writing

LEMMA StageReadyRefusesCaps == ASSUME Now, Then, CapNow, NEW d \in Dirs, StageReady(d),
           ~(session # "none" /\ uploads[dir[d].id] = None) PROVE CapThen
<1>1. dir \in [Dirs -> DirRec] /\ dir[d] \in DirRec
  BY Facts
<1>2. dir'[d].at = "over" /\ dir'[d].disk = dir[d].disk /\ \A b \in Dirs : b # d => dir'[b] = dir[b]
  BY <1>1 DEF StageReady, DirRec
<1>3. uploads' = uploads /\ append' = append /\ dir[d].at # "staged"
  BY <1>1, Facts DEF StageReady, DirOk
<1> QED
  BY <1>1, <1>2, <1>3, CapLeaves DEF Writing

LEMMA BuildCaps == ASSUME Now, Then, CapNow, NEW d \in Dirs, Build(d) PROVE CapThen
<1>1. dir \in [Dirs -> DirRec] /\ dir[d] \in DirRec
  BY Facts
<1>2. dir'[d].at = (IF Reachable(dir[d].to_peer) THEN "built" ELSE "over") /\ dir'[d].disk = dir[d].disk /\ \A b \in Dirs : b # d => dir'[b] = dir[b]
  BY <1>1 DEF Build, DirRec
<1>3. uploads' = uploads /\ append' = append /\ dir[d].at # "staged"
  BY <1>1, Facts DEF Build, DirOk
<1> QED
  BY <1>1, <1>2, <1>3, CapLeaves DEF Writing

LEMMA AskCaps == ASSUME Now, Then, CapNow, NEW d \in Dirs, Ask(d) PROVE CapThen
<1>1. dir \in [Dirs -> DirRec] /\ dir[d] \in DirRec
  BY Facts
<1>2. dir'[d].at = "sent" /\ dir'[d].disk = dir[d].disk /\ \A b \in Dirs : b # d => dir'[b] = dir[b]
  BY <1>1 DEF Ask, DirRec
<1>3. uploads' = uploads /\ append' = append /\ dir[d].at # "staged"
  BY <1>1, Facts DEF Ask, DirOk
<1> QED
  BY <1>1, <1>2, <1>3, CapLeaves DEF Writing

LEMMA AskFailsCaps == ASSUME Now, Then, CapNow, NEW d \in Dirs, AskFails(d) PROVE CapThen
<1>1. dir \in [Dirs -> DirRec] /\ dir[d] \in DirRec
  BY Facts
<1>2. dir'[d].at = "over" /\ dir'[d].disk = dir[d].disk /\ \A b \in Dirs : b # d => dir'[b] = dir[b]
  BY <1>1 DEF AskFails, DirRec
<1>3. uploads' = uploads /\ append' = append /\ dir[d].at # "staged"
  BY <1>1, Facts DEF AskFails, DirOk
<1> QED
  BY <1>1, <1>2, <1>3, CapLeaves DEF Writing

LEMMA WatchTimesOutCaps == ASSUME Now, Then, CapNow, NEW d \in Dirs, WatchTimesOut(d) PROVE CapThen
<1>1. dir \in [Dirs -> DirRec] /\ dir[d] \in DirRec
  BY Facts
<1>2. dir'[d].at = dir[d].at /\ dir'[d].disk = dir[d].disk /\ \A b \in Dirs : b # d => dir'[b] = dir[b]
  BY <1>1 DEF WatchTimesOut, DirRec
<1>3. uploads' = uploads /\ append' = append /\ dir[d].at = "sent"
  BY <1>1, Facts DEF WatchTimesOut, DirOk
<1> QED
  BY <1>1, <1>2, <1>3, CapLeaves DEF Writing

LEMMA SdkRefusesCaps == ASSUME Now, Then, CapNow, NEW d \in Dirs, SdkRefuses(d) PROVE CapThen
<1>1. dir \in [Dirs -> DirRec] /\ dir[d] \in DirRec
  BY Facts
<1>2. dir'[d].at = dir[d].at /\ dir'[d].disk = dir[d].disk /\ \A b \in Dirs : b # d => dir'[b] = dir[b]
  BY <1>1 DEF SdkRefuses, DirRec
<1>3. uploads' = uploads /\ append' = append /\ dir[d].at = "sent"
  BY <1>1, Facts DEF SdkRefuses, DirOk
<1> QED
  BY <1>1, <1>2, <1>3, CapLeaves DEF Writing

LEMMA SenderHandleCaps == ASSUME Now, Then, CapNow, NEW d \in Dirs, SenderHandle(d) PROVE CapThen
<1>1. dir \in [Dirs -> DirRec] /\ dir[d] \in DirRec
  BY Facts
<1>2. dir'[d].at = dir[d].at /\ dir'[d].disk = dir[d].disk /\ \A b \in Dirs : b # d => dir'[b] = dir[b]
  BY <1>1 DEF SenderHandle, DirRec
<1>3. uploads' = uploads /\ append' = append /\ dir[d].at = "sent"
  BY <1>1, Facts DEF SenderHandle, DirOk
<1> QED
  BY <1>1, <1>2, <1>3, CapLeaves DEF Writing

LEMMA StreamEndsCaps == ASSUME Now, Then, CapNow, NEW d \in Dirs, StreamEnds(d) PROVE CapThen
<1>1. dir \in [Dirs -> DirRec] /\ dir[d] \in DirRec
  BY Facts
<1>2. dir'[d].at = dir[d].at /\ dir'[d].disk = dir[d].disk /\ \A b \in Dirs : b # d => dir'[b] = dir[b]
  BY <1>1 DEF StreamEnds, DirRec
<1>3. uploads' = uploads /\ append' = append /\ dir[d].at = "sent"
  BY <1>1, Facts DEF StreamEnds, DirOk
<1> QED
  BY <1>1, <1>2, <1>3, CapLeaves DEF Writing

LEMMA SendBytesCaps == ASSUME Now, Then, CapNow, NEW d \in Dirs, SendBytes(d) PROVE CapThen
<1>1. dir \in [Dirs -> DirRec] /\ dir[d] \in DirRec /\ DirOk(dir[d], append[d], InTable(uploads, d), d \in removing)
  BY Facts
<1>2. PICK n, to_peer : Fresh(d, [NoDir EXCEPT !.at = "root", !.size = n, !.len = n, !.to_peer = to_peer])
  BY DEF SendBytes
<1>3. dir[d].at = "none" /\ dir'[d].at = "root" /\ dir'[d].disk = 0 /\ \A b \in Dirs : b # d => dir'[b] = dir[b]
  BY <1>1, <1>2 DEF Fresh, NoDir
<1>4. uploads' = uploads /\ append' = append
  BY DEF SendBytes
<1> QED
  BY <1>3, <1>4, CapLeaves DEF Writing

LEMMA RemoveDirCaps == ASSUME Now, Then, CapNow, NEW d \in Dirs, RemoveDir(d) PROVE CapThen
<1>1. dir \in [Dirs -> DirRec] /\ dir[d] \in DirRec /\ DirOk(dir[d], append[d], InTable(uploads, d), d \in removing)
  BY Facts
<1>2. /\ dir'[d].at = dir[d].at /\ dir'[d].disk \in {0, dir[d].disk} /\ dir'[d].size = dir[d].size /\ dir'[d].seen = dir[d].seen
      /\ \A b \in Dirs : b # d => dir'[b] = dir[b]
  BY <1>1 DEF RemoveDir, Left, DirRec
<1>3. uploads' = uploads /\ append' = append /\ d \in removing
  BY DEF RemoveDir
<1>4. ~Live(dir'[d], InTable(uploads, d))
  BY <1>1, <1>2, <1>3 DEF Live, DirOk, Writing
<1> QED
  BY <1>2, <1>3, <1>4, CapMoves

LEMMA AgesCaps == ASSUME Now, Then, CapNow, NEW d \in Dirs, Ages(d) PROVE CapThen
<1>1. dir \in [Dirs -> DirRec] /\ dir[d] \in DirRec
  BY Facts
<1>2. /\ dir'[d].at = dir[d].at /\ dir'[d].disk = dir[d].disk /\ dir'[d].size = dir[d].size /\ dir'[d].seen = dir[d].seen
      /\ \A b \in Dirs : b # d => dir'[b] = dir[b]
  BY <1>1 DEF Ages, DirRec
<1>3. uploads' = uploads /\ append' = append
  BY DEF Ages
<1>4. /\ Live(dir'[d], InTable(uploads, d)) <=> Live(dir[d], InTable(uploads, d))
      /\ Granted(dir'[d], InTable(uploads, d)) <=> Granted(dir[d], InTable(uploads, d))
  BY <1>2 DEF Live, Granted
<1> QED
  BY <1>2, <1>3, <1>4, CapMoves

LEMMA TimerFiresCaps == ASSUME Now, Then, CapNow, NEW d \in Dirs, TimerFires(d) PROVE CapThen
<1>1. dir \in [Dirs -> DirRec] /\ dir[d] \in DirRec /\ DirOk(dir[d], append[d], InTable(uploads, d), d \in removing)
  BY Facts
<1>2. /\ dir'[d].at = dir[d].at /\ dir'[d].disk \in {0, dir[d].disk} /\ dir'[d].size = dir[d].size /\ dir'[d].seen = dir[d].seen
      /\ \A b \in Dirs : b # d => dir'[b] = dir[b]
  BY <1>1 DEF TimerFires, Left, DirRec
<1>3. uploads' = uploads /\ append' = append /\ dir[d].timer
  BY DEF TimerFires
<1>4. CASE dir'[d].disk = 0
  <2>1. ~Live(dir'[d], InTable(uploads, d))
    BY <1>1, <1>2, <1>3, <1>4 DEF Live, DirOk
  <2> QED
    BY <1>2, <1>3, <2>1, CapMoves
<1>5. CASE dir'[d].disk = dir[d].disk
  <2>1. /\ Live(dir'[d], InTable(uploads, d)) <=> Live(dir[d], InTable(uploads, d))
        /\ Granted(dir'[d], InTable(uploads, d)) <=> Granted(dir[d], InTable(uploads, d))
    BY <1>2, <1>5 DEF Live, Granted
  <2> QED
    BY <1>2, <1>3, <1>5, <2>1, CapMoves
<1> QED
  BY <1>2, <1>4, <1>5

\* A reservation is made: all that may still be written is in flight.
LEMMA ReserveCaps == ASSUME Now, CapNow, NEW d \in Dirs, Reserve(d) PROVE CapThen
<1>1. /\ dir \in [Dirs -> DirRec] /\ dir[d] \in DirRec /\ DirOk(dir[d], append[d], InTable(uploads, d), d \in removing)
      /\ in_flight \in Int
  BY Facts
<1>2. dir[d].at = "root" /\ uploads' = uploads /\ append' = append
  BY DEF Reserve
<1>3. PICK e : e = [dir[d] EXCEPT !.at = "reserved", !.held = dir[d].size, !.seen = in_flight]
  OBVIOUS
<1>4. /\ e \in DirRec /\ e.at = "reserved" /\ e.disk = dir[d].disk /\ e.size = dir[d].size /\ e.seen = in_flight
  BY <1>1, <1>3 DEF DirRec, DirAt
<1>5. PICK E : E = dir'
  OBVIOUS
<1>6. E \in [Dirs -> DirRec] /\ E[d] = e /\ \A b \in Dirs : b # d => E[b] = dir[b]
  BY <1>1, <1>3, <1>4, <1>5 DEF Reserve
<1>7. PICK x, n, top : Paid(dir, uploads, append, x, n, top)
  BY DEF CapNow, Capped
<1>8. PICK K, Z, L, P, S : /\ K = Disks(dir) /\ Z = Sizes(dir) /\ L = LiveDirs(dir, uploads)
                           /\ P = GrantedDirs(dir, uploads) /\ S = Seens(dir)
  OBVIOUS
<1>9. Ledger(K, Z, L, P, S, x, n) /\ top \in Nat /\ \A b \in Dirs : n[b] < top
  BY <1>7, <1>8 DEF Paid
<1>10. SumFunction(Open(K, Z, L)) <= in_flight
  BY <1>8, OpenIsCovered DEF Now
<1>11. dir[d].disk = 0 /\ ~InTable(uploads, d)
  BY <1>1, <1>2 DEF DirOk
<1>12. d \in Dirs \ L /\ K[d] = 0
  <2>1. ~Live(dir[d], InTable(uploads, d))
    BY <1>2, <1>11 DEF Live, Writing
  <2> QED
    BY <1>1, <1>8, <1>11, <2>1, ValuesTyped DEF LiveDirs
<1>13. PICK l, s, o : l = L \cup {d} /\ s = [S EXCEPT ![d] = in_flight] /\ o = [n EXCEPT ![d] = top]
  OBVIOUS
<1>14. Ledger(K, Z, l, P, s, x, o)
  BY <1>1, <1>9, <1>10, <1>12, <1>13, LedgerAdds
<1>15. Disks(E) = K /\ Sizes(E) = Z
  <2>1. \A b \in Dirs : E[b].disk = dir[b].disk /\ E[b].size = dir[b].size
    BY <1>4, <1>6
  <2> QED
    BY <1>8, <2>1 DEF Disks, Sizes
<1>16. Seens(E) = s
  <2>1. \A b \in Dirs : s[b] = IF b = d THEN in_flight ELSE dir[b].seen
    BY <1>1, <1>8, <1>13, ValuesTyped DEF Seens
  <2>2. s \in [Dirs -> Int]
    BY <1>1, <1>8, <1>13, ValuesTyped
  <2>3. \A b \in Dirs : Seens(E)[b] = s[b]
    BY <1>4, <1>6, <2>1, ValuesTyped
  <2> QED
    BY <1>6, <2>2, <2>3, ValuesTyped
<1>17. LiveDirs(E, uploads) = l
  <2>1. Live(E[d], InTable(uploads, d))
    BY <1>4, <1>6 DEF Live, Writing
  <2> QED
    BY <1>6, <1>8, <1>13, <2>1 DEF LiveDirs
<1>18. GrantedDirs(E, uploads) = P
  <2>1. ~Granted(E[d], InTable(uploads, d)) /\ ~Granted(dir[d], InTable(uploads, d))
    BY <1>2, <1>4, <1>6, <1>11 DEF Granted
  <2> QED
    BY <1>6, <1>8, <2>1 DEF GrantedDirs
<1>19. ASSUME NEW b \in Dirs, x[b] > 0
       PROVE  E[b].at = "staged" /\ ~InTable(uploads, b) /\ append[b] <= 0 /\ x[b] <= MaxChunk
  <2>1. dir[b].at = "staged" /\ ~InTable(uploads, b) /\ append[b] <= 0 /\ x[b] <= MaxChunk
    BY <1>7, <1>19 DEF Paid
  <2> QED
    BY <1>2, <1>6, <2>1
<1>20. top + 1 \in Nat /\ \A b \in Dirs : o[b] < top + 1
  BY <1>9, <1>13 DEF Ledger, LedgerTyped
<1>21. Paid(E, uploads, append, x, o, top + 1)
  BY <1>14, <1>15, <1>16, <1>17, <1>18, <1>19, <1>20 DEF Paid
<1> QED
  BY <1>2, <1>5, <1>21 DEF CapThen, Capped

\* The measure grants it.
LEMMA MeasureFitsCaps == ASSUME Now, CapNow, NEW d \in Dirs, Measure(d), fits(d) PROVE CapThen
<1>1. /\ dir \in [Dirs -> DirRec] /\ dir[d] \in DirRec /\ DirOk(dir[d], append[d], InTable(uploads, d), d \in removing)
  BY Facts
<1>2. dir[d].at = "reserved" /\ uploads' = uploads /\ append' = append
  BY DEF Measure
<1>3. PICK z \in Int : z = 0
  OBVIOUS
<1>4. PICK e : e = [dir[d] EXCEPT !.at = "fits", !.seen = z]
  OBVIOUS
<1>5. e \in DirRec /\ e.at = "fits" /\ e.disk = dir[d].disk /\ e.size = dir[d].size
  BY <1>1, <1>3, <1>4 DEF DirRec, DirAt
<1>6. PICK E : E = dir'
  OBVIOUS
<1>7. E \in [Dirs -> DirRec] /\ E[d] = e /\ \A b \in Dirs : b # d => E[b] = dir[b]
  <2>1. dir' = [dir EXCEPT ![d].at = "fits", ![d].seen = z]
    BY <1>3 DEF Measure
  <2> QED
    BY <1>1, <1>4, <1>5, <1>6, <2>1 DEF DirRec
<1>8. PICK x, n, top : Paid(dir, uploads, append, x, n, top)
  BY DEF CapNow, Capped
<1>9. PICK K, Z, L, P, S : /\ K = Disks(dir) /\ Z = Sizes(dir) /\ L = LiveDirs(dir, uploads)
                           /\ P = GrantedDirs(dir, uploads) /\ S = Seens(dir)
  OBVIOUS
<1>10. Ledger(K, Z, L, P, S, x, n) /\ top \in Nat /\ \A b \in Dirs : n[b] < top
  BY <1>8, <1>9 DEF Paid
<1>11. dir[d].disk = 0 /\ ~InTable(uploads, d)
  BY <1>1, <1>2 DEF DirOk
<1>12. d \in L \ P /\ K[d] = 0
  <2>1. Live(dir[d], InTable(uploads, d)) /\ ~Granted(dir[d], InTable(uploads, d))
    BY <1>2, <1>11 DEF Live, Granted, Writing
  <2> QED
    BY <1>1, <1>9, <1>11, <2>1, ValuesTyped DEF LiveDirs, GrantedDirs
<1>13. SumFunction(K) + S[d] + Z[d] <= Cap
  BY <1>1, <1>9, ValuesTyped DEF fits, root_bytes, Disks, MAX_BROWSER_TRANSFER_TOTAL_BYTES
<1>14. PICK p, s : p = P \cup {d} /\ s = Seens(E)
  OBVIOUS
<1>15. s \in [Dirs -> Int] /\ \A b \in L \ p : s[b] = S[b]
  <2>1. \A b \in Dirs : s[b] = E[b].seen /\ S[b] = dir[b].seen
    BY <1>1, <1>7, <1>9, <1>14, ValuesTyped
  <2>2. L \subseteq Dirs
    BY <1>9 DEF LiveDirs
  <2> QED
    BY <1>7, <1>14, <2>1, <2>2, ValuesTyped
<1>16. Ledger(K, Z, L, p, s, x, n)
  <2>1. Ledger(K, Z, L, P, S, x, n) /\ p = P \cup {d}
    BY <1>10, <1>14
  <2> QED
    BY <1>12, <1>13, <1>15, <2>1, LedgerGrants
<1>17. Disks(E) = K /\ Sizes(E) = Z
  <2>1. \A b \in Dirs : E[b].disk = dir[b].disk /\ E[b].size = dir[b].size
    BY <1>5, <1>7
  <2> QED
    BY <1>9, <2>1 DEF Disks, Sizes
<1>18. LiveDirs(E, uploads) = L /\ GrantedDirs(E, uploads) = p
  <2>1. Live(E[d], InTable(uploads, d)) /\ Granted(E[d], InTable(uploads, d)) /\ Live(dir[d], InTable(uploads, d))
    BY <1>2, <1>5, <1>7 DEF Live, Granted, Writing
  <2>2. LiveDirs(E, uploads) = L
    BY <1>7, <1>9, <2>1 DEF LiveDirs
  <2>3. GrantedDirs(E, uploads) = p
    BY <1>7, <1>9, <1>14, <2>1 DEF GrantedDirs
  <2> QED
    BY <2>2, <2>3
<1>19. ASSUME NEW b \in Dirs, x[b] > 0
       PROVE  E[b].at = "staged" /\ ~InTable(uploads, b) /\ append[b] <= 0 /\ x[b] <= MaxChunk
  <2>1. dir[b].at = "staged" /\ ~InTable(uploads, b) /\ append[b] <= 0 /\ x[b] <= MaxChunk
    BY <1>8, <1>19 DEF Paid
  <2> QED
    BY <1>2, <1>7, <2>1
<1>20. Paid(E, uploads, append, x, n, top)
  BY <1>10, <1>14, <1>16, <1>17, <1>18, <1>19 DEF Paid
<1> QED
  BY <1>2, <1>6, <1>20 DEF CapThen, Capped

\* Bytes land under a reservation that was granted.
LEMMA CapLands ==
    ASSUME NEW D \in [Dirs -> DirRec], NEW T, NEW A, Capped(D, T, A), NEW d \in Dirs, Granted(D[d], InTable(T, d)),
           NEW e \in DirRec, e.size = D[d].size, D[d].disk <= e.disk, e.disk <= e.size,
           Granted(e, InTable(T, d)) \/ ~Live(e, InTable(T, d)),
           NEW B, \A b \in Dirs : b # d => B[b] = A[b]
    PROVE  Capped([D EXCEPT ![d] = e], T, B)
<1>1. PICK E : E = [D EXCEPT ![d] = e]
  OBVIOUS
<1>2. E \in [Dirs -> DirRec] /\ E[d] = e /\ \A b \in Dirs : b # d => E[b] = D[b]
  BY <1>1
<1>3. PICK x, n, top : Paid(D, T, A, x, n, top)
  BY DEF Capped
<1>4. PICK K, Z, L, P, S : K = Disks(D) /\ Z = Sizes(D) /\ L = LiveDirs(D, T) /\ P = GrantedDirs(D, T) /\ S = Seens(D)
  OBVIOUS
<1>5. Ledger(K, Z, L, P, S, x, n) /\ top \in Nat /\ \A b \in Dirs : n[b] < top
  BY <1>3, <1>4 DEF Paid
<1>6. PICK k, l, p, s : k = Disks(E) /\ l = LiveDirs(E, T) /\ p = GrantedDirs(E, T) /\ s = Seens(E)
  OBVIOUS
<1>8. Sizes(E) = Z
  <2>1. \A b \in Dirs : E[b].size = D[b].size
    BY <1>2
  <2> QED
    BY <1>4, <2>1 DEF Sizes
<1>9. K \in [Dirs -> Nat] /\ k \in [Dirs -> Nat] /\ s \in [Dirs -> Int]
      /\ \A b \in Dirs : K[b] = D[b].disk /\ k[b] = E[b].disk /\ s[b] = E[b].seen /\ S[b] = D[b].seen /\ Z[b] = D[b].size
  BY <1>2, <1>4, <1>6, ValuesTyped
<1>10. \A b \in Dirs : b # d => k[b] = K[b]
  BY <1>2, <1>9
<1>11. d \in P /\ d \in L /\ K[d] <= k[d] /\ k[d] <= Z[d]
  <2>1. Live(D[d], InTable(T, d))
    BY DEF Live, Granted, Writing
  <2> QED
    BY <1>2, <1>4, <1>9, <2>1 DEF GrantedDirs, LiveDirs
<1>12. l \in SUBSET L /\ L \ {d} \subseteq l
  BY <1>2, <1>4, <1>6, <1>11 DEF LiveDirs
<1>13. p = P \cap l
  <2>1. \A b \in Dirs : Granted(E[b], InTable(T, b)) => Live(E[b], InTable(T, b))
    BY DEF Live, Granted, Writing
  <2> QED
    BY <1>2, <1>4, <1>6, <1>11, <2>1 DEF LiveDirs, GrantedDirs
<1>14. \A b \in l \ P : s[b] = S[b]
  <2>1. l \subseteq Dirs
    BY <1>6 DEF LiveDirs
  <2> QED
    BY <1>2, <1>9, <1>11, <2>1
<1>15. Ledger(k, Z, l, p, s, x, n)
  <2>1. Ledger(K, Z, L, P, S, x, n) /\ s \in [Dirs -> Int] /\ k \in [Dirs -> Nat]
    BY <1>5, <1>9
  <2>2. d \in P /\ K[d] <= k[d] /\ k[d] <= Z[d]
    BY <1>11
  <2> QED
    BY <1>10, <1>12, <1>13, <1>14, <2>1, <2>2, LedgerLands
<1>16. x[d] = 0
  BY <1>5, <1>11 DEF Ledger, LedgerTyped
<1>17. ASSUME NEW b \in Dirs, x[b] > 0
       PROVE  E[b].at = "staged" /\ ~InTable(T, b) /\ B[b] <= 0 /\ x[b] <= MaxChunk
  <2>1. b # d
    BY <1>16, <1>17
  <2>2. D[b].at = "staged" /\ ~InTable(T, b) /\ A[b] <= 0 /\ x[b] <= MaxChunk
    BY <1>3, <1>17 DEF Paid
  <2> QED
    BY <1>2, <2>1, <2>2
<1>18. Paid(E, T, B, x, n, top)
  BY <1>5, <1>6, <1>8, <1>15, <1>17 DEF Paid
<1> QED
  BY <1>1, <1>18 DEF Capped

\* A chunk lands on a file whose reservation was returned.
LEMMA CapExtra ==
    ASSUME NEW D \in [Dirs -> DirRec], NEW T, NEW A \in [Dirs -> Int], Capped(D, T, A), NEW d \in Dirs,
           D[d].at = "staged", ~InTable(T, d), A[d] > 0, A[d] <= MaxChunk,
           NEW e \in DirRec, e.at = "staged", D[d].disk <= e.disk, e.disk <= D[d].disk + A[d],
           NEW B, \A b \in Dirs : b # d => B[b] = A[b], B[d] <= 0
    PROVE  Capped([D EXCEPT ![d] = e], T, B)
<1>1. PICK E : E = [D EXCEPT ![d] = e]
  OBVIOUS
<1>2. E \in [Dirs -> DirRec] /\ E[d] = e /\ \A b \in Dirs : b # d => E[b] = D[b]
  BY <1>1
<1>3. PICK x, n, top : Paid(D, T, A, x, n, top)
  BY DEF Capped
<1>4. PICK K, Z, L, P, S : K = Disks(D) /\ Z = Sizes(D) /\ L = LiveDirs(D, T) /\ P = GrantedDirs(D, T) /\ S = Seens(D)
  OBVIOUS
<1>5. Ledger(K, Z, L, P, S, x, n) /\ top \in Nat /\ \A b \in Dirs : n[b] < top
  BY <1>3, <1>4 DEF Paid
<1>6. PICK k, z, s : k = Disks(E) /\ z = Sizes(E) /\ s = Seens(E)
  OBVIOUS
<1>7. PICK len \in Nat : len = e.disk - D[d].disk /\ len <= MaxChunk /\ A[d] > 0
  <2>1. e.disk \in Nat /\ D[d].disk \in Nat /\ A[d] \in Int /\ MaxChunk \in Nat
    BY SendBounds DEF DirRec
  <2> QED
    BY <2>1
<1>8. /\ k \in [Dirs -> Nat] /\ z \in [Dirs -> Nat] /\ s \in [Dirs -> Int]
      /\ \A b \in Dirs : /\ K[b] = D[b].disk /\ k[b] = E[b].disk /\ s[b] = E[b].seen /\ S[b] = D[b].seen
                         /\ Z[b] = D[b].size /\ z[b] = E[b].size
  BY <1>2, <1>4, <1>6, ValuesTyped
<1>9. ~Live(D[d], InTable(T, d)) /\ ~Live(E[d], InTable(T, d)) /\ ~Granted(D[d], InTable(T, d)) /\ ~Granted(E[d], InTable(T, d))
  BY <1>2 DEF Live, Granted, Writing
<1>10. LiveDirs(E, T) = L /\ GrantedDirs(E, T) = P /\ d \notin L /\ L \subseteq Dirs
  BY <1>2, <1>4, <1>9 DEF LiveDirs, GrantedDirs
<1>11. x \in [Dirs -> Nat] /\ x[d] = 0 /\ P \subseteq L /\ \A b \in Dirs : x[b] <= K[b] /\ K[b] \in Nat /\ (b \in L => x[b] = 0)
  <2>1. x \in [Dirs -> Nat] /\ P \subseteq L /\ \A b \in Dirs : x[b] <= K[b] /\ K[b] \in Nat /\ (b \in L => x[b] = 0)
    BY <1>5 DEF Ledger, LedgerTyped
  <2>2. ~(x[d] > 0)
    BY <1>3, <1>7 DEF Paid
  <2> QED
    BY <2>1, <2>2
<1>12. PICK y : y = [x EXCEPT ![d] = len]
  OBVIOUS
<1>13. y \in [Dirs -> Nat] /\ y[d] = len /\ \A b \in Dirs : b # d => y[b] = x[b]
  BY <1>11, <1>12
<1>14. \A b \in Dirs : y[b] <= k[b] /\ k[b] - y[b] <= K[b] - x[b]
  <2>1. ASSUME NEW b \in Dirs, b # d PROVE y[b] <= k[b] /\ k[b] - y[b] <= K[b] - x[b]
    BY <1>2, <1>8, <1>11, <1>13, <2>1
  <2>2. y[d] <= k[d] /\ k[d] - y[d] <= K[d] - x[d]
    BY <1>2, <1>7, <1>8, <1>11, <1>13
  <2> QED
    BY <2>1, <2>2
<1>15. \A b \in L : b # d /\ z[b] = Z[b] /\ k[b] = K[b] /\ y[b] = 0 /\ s[b] = S[b]
  BY <1>2, <1>8, <1>10, <1>11, <1>13
<1>16. Ledger(k, z, L, P, s, y, n)
  <2>1. Ledger(K, Z, L, P, S, x, n) /\ L \in SUBSET L /\ P = P \cap L
    BY <1>5, <1>11
  <2>2. k \in [Dirs -> Nat] /\ z \in [Dirs -> Nat] /\ s \in [Dirs -> Int] /\ y \in [Dirs -> Nat]
    BY <1>8, <1>13
  <2>3. \A b \in L : z[b] = Z[b] /\ k[b] = K[b] /\ y[b] = 0
    BY <1>15
  <2>4. \A b \in L \ P : s[b] = S[b]
    BY <1>15
  <2> QED
    BY <1>14, <2>1, <2>2, <2>3, <2>4, LedgerShrinks
<1>17. ASSUME NEW b \in Dirs, y[b] > 0
       PROVE  E[b].at = "staged" /\ ~InTable(T, b) /\ B[b] <= 0 /\ y[b] <= MaxChunk
  <2>1. CASE b = d
    BY <1>2, <1>7, <1>13, <2>1
  <2>2. CASE b # d
    <3>1. D[b].at = "staged" /\ ~InTable(T, b) /\ A[b] <= 0 /\ x[b] <= MaxChunk
      BY <1>3, <1>13, <1>17, <2>2 DEF Paid
    <3> QED
      BY <1>2, <1>13, <2>2, <3>1
  <2> QED
    BY <2>1, <2>2
<1>18. Paid(E, T, B, y, n, top)
  BY <1>5, <1>6, <1>10, <1>16, <1>17 DEF Paid
<1> QED
  BY <1>1, <1>18 DEF Capped

LEMMA WritePayloadCaps == ASSUME Now, CapNow, NEW d \in Dirs, WritePayload(d) PROVE CapThen
<1>1. /\ dir \in [Dirs -> DirRec] /\ dir[d] \in DirRec /\ DirOk(dir[d], append[d], InTable(uploads, d), d \in removing)
  BY Facts
<1>2. dir[d].at = "fits" /\ uploads' = uploads /\ append' = append
  BY DEF WritePayload
<1>3. PICK e : e = [dir[d] EXCEPT !.at = "written", !.disk = dir[d].len]
  OBVIOUS
<1>4. e \in DirRec /\ dir' = [dir EXCEPT ![d] = e]
  BY <1>1, <1>3 DEF WritePayload, DirRec, DirAt
<1>5. e.at = "written" /\ e.disk = dir[d].len /\ e.size = dir[d].size /\ dir[d].len \in Nat
  BY <1>1, <1>3 DEF DirRec
<1>6. dir[d].disk = 0 /\ dir[d].len <= dir[d].size
  BY <1>1, <1>2 DEF DirOk, Writing
<1>7. Granted(dir[d], InTable(uploads, d)) /\ Granted(e, InTable(uploads, d)) /\ dir[d].disk <= e.disk /\ e.disk <= e.size
  BY <1>2, <1>5, <1>6 DEF Granted
<1>8. Capped([dir EXCEPT ![d] = e], uploads, append)
  BY <1>1, <1>4, <1>5, <1>7, CapLands DEF CapNow
<1> QED
  BY <1>2, <1>4, <1>8 DEF CapThen

LEMMA WriteFailsCaps == ASSUME Now, CapNow, NEW d \in Dirs, WriteFails(d) PROVE CapThen
<1>1. /\ dir \in [Dirs -> DirRec] /\ dir[d] \in DirRec /\ DirOk(dir[d], append[d], InTable(uploads, d), d \in removing)
  BY Facts
<1>2. dir[d].at = "fits" /\ uploads' = uploads /\ append' = append
  BY DEF WriteFails
<1>3. PICK left \in 0 .. dir[d].len :
        dir' = [dir EXCEPT ![d].at = "over", ![d].disk = left, ![d].held = 0, ![d].timer = TRUE]
  BY DEF WriteFails
<1>4. PICK e : e = [dir[d] EXCEPT !.at = "over", !.disk = left, !.held = 0, !.timer = TRUE]
  OBVIOUS
<1>5. left \in Nat /\ dir[d].len \in Nat /\ dir[d].size \in Nat /\ left <= dir[d].len
  BY <1>1, <1>3 DEF DirRec
<1>6. e \in DirRec
  BY <1>1, <1>4, <1>5 DEF DirRec, DirAt
<1>7. dir' = [dir EXCEPT ![d] = e] /\ e.at = "over" /\ e.disk = left /\ e.size = dir[d].size
  BY <1>1, <1>3, <1>4 DEF DirRec
<1>8. dir[d].disk = 0 /\ dir[d].len <= dir[d].size /\ ~InTable(uploads, d)
  BY <1>1, <1>2 DEF DirOk, Writing
<1>9. Granted(dir[d], InTable(uploads, d)) /\ ~Live(e, InTable(uploads, d)) /\ dir[d].disk <= e.disk /\ e.disk <= e.size
  BY <1>2, <1>5, <1>7, <1>8 DEF Granted, Live, Writing
<1>10. Capped([dir EXCEPT ![d] = e], uploads, append)
  BY <1>1, <1>6, <1>7, <1>9, CapLands DEF CapNow
<1> QED
  BY <1>2, <1>7, <1>10 DEF CapThen

\* Uploads leave the table, or stay in it; chunks start and end.
LEMMA CapTable ==
    ASSUME NEW D \in [Dirs -> DirRec], NEW T, NEW A, Capped(D, T, A), NEW V, NEW B,
           \A b \in Dirs : InTable(T, b) => D[b].at = "staged",
           \A b \in Dirs : InTable(V, b) => InTable(T, b),
           \A b \in Dirs : ~InTable(T, b) /\ A[b] <= 0 => B[b] <= 0
    PROVE  Capped(D, V, B)
<1>1. \A b \in Dirs : Live(D[b], InTable(V, b)) =>
             /\ Live(D[b], InTable(T, b)) /\ D[b].size = D[b].size /\ D[b].disk = D[b].disk
             /\ Granted(D[b], InTable(V, b)) <=> Granted(D[b], InTable(T, b))
             /\ Granted(D[b], InTable(V, b)) \/ D[b].seen = D[b].seen
  BY DEF Live, Granted, Writing
<1>2. \A b \in Dirs : D[b].disk = D[b].disk \/ D[b].disk = 0
  OBVIOUS
<1>3. \A b \in Dirs : D[b].at = "staged" /\ ~InTable(T, b) =>
             D[b].at = "staged" /\ ~InTable(V, b) /\ (A[b] <= 0 => B[b] <= 0)
  OBVIOUS
<1> QED
  BY <1>1, <1>2, <1>3, CapShrinks

LEMMA OwnedAreStaged ==
    ASSUME Now
    PROVE  /\ dir \in [Dirs -> DirRec] /\ uploads \in [Ids -> UploadRec \cup {None}] /\ append \in [Dirs -> Int]
           /\ \A b \in Dirs : InTable(uploads, b) => dir[b].at = "staged"
<1>1. dir \in [Dirs -> DirRec] /\ uploads \in [Ids -> UploadRec \cup {None}] /\ append \in [Dirs -> Int]
  BY DEF Now, Sound, Good, Typed
<1>2. ASSUME NEW b \in Dirs, InTable(uploads, b) PROVE dir[b].at = "staged"
  <2>1. DirOk(dir[b], append[b], InTable(uploads, b), b \in removing)
    BY Facts
  <2> QED
    BY <1>2, <2>1 DEF DirOk
<1> QED
  BY <1>1, <1>2

LEMMA PrunedStay == \A b \in Dirs : InTable(pruned, b) => InTable(uploads, b)
BY DEF InTable, pruned

LEMMA StageRefusedCaps == ASSUME Now, CapNow, StageRefused PROVE CapThen
<1>1. dir' = dir /\ uploads' = pruned /\ append' = append
  BY DEF StageRefused
<1>2. PICK V : V = pruned
  OBVIOUS
<1>3. \A b \in Dirs : InTable(V, b) => InTable(uploads, b)
  BY <1>2, PrunedStay
<1>4. Capped(dir, V, append)
  BY <1>3, OwnedAreStaged, CapTable DEF CapNow
<1> QED
  BY <1>1, <1>2, <1>4 DEF CapThen

LEMMA SessionChangesCaps == ASSUME Now, CapNow, NEW s, SessionChanges(s) PROVE CapThen
<1>1. dir' = dir /\ append' = append /\ (uploads' = uploads \/ uploads' = [i \in Ids |-> None])
  BY DEF SessionChanges
<1>2. PICK V : V = [i \in Ids |-> None]
  OBVIOUS
<1>3. \A b \in Dirs : InTable(V, b) => InTable(uploads, b)
  BY <1>2 DEF InTable
<1>4. Capped(dir, V, append)
  BY <1>3, OwnedAreStaged, CapTable DEF CapNow
<1> QED
  BY <1>1, <1>2, <1>4 DEF CapThen, CapNow

LEMMA StageAppendCaps == ASSUME Now, CapNow, NEW i \in Ids, StageAppend(i) PROVE CapThen
<1>1. PICK T : T = pruned
  OBVIOUS
<1>2. /\ T \in [Ids -> UploadRec \cup {None}]
      /\ \A b \in Dirs : InTable(T, b) => InTable(uploads, b)
  BY <1>1, OwnedAreStaged, PrunedStay DEF pruned
<1>3. T[i] # None /\ dir' = dir
  BY <1>1 DEF StageAppend
<1>4. PICK len \in Chunks : uploads' = [T EXCEPT ![i].writing = TRUE] /\ append' = [append EXCEPT ![T[i].dir] = len]
  BY <1>1 DEF StageAppend
<1>5. T[i] \in UploadRec
  BY <1>2, <1>3
<1>6. PICK u : u = [T[i] EXCEPT !.writing = TRUE]
  OBVIOUS
<1>7. u.dir = T[i].dir /\ T[i].dir \in Dirs
  BY <1>5, <1>6 DEF UploadRec
<1>8. PICK V, B : V = uploads' /\ B = append'
  OBVIOUS
<1>9. V[i] = u /\ \A j \in Ids : j # i => V[j] = T[j]
  BY <1>2, <1>4, <1>6, <1>8
<1>10. \A b \in Dirs : InTable(V, b) => InTable(T, b)
  BY <1>3, <1>7, <1>9 DEF InTable
<1>11. InTable(T, T[i].dir)
  BY <1>3 DEF InTable
<1>12. \A b \in Dirs : b # T[i].dir => B[b] = append[b]
  BY <1>4, <1>8, OwnedAreStaged
<1>13. \A b \in Dirs : InTable(V, b) => InTable(uploads, b)
  BY <1>2, <1>10
<1>14. \A b \in Dirs : ~InTable(uploads, b) /\ append[b] <= 0 => B[b] <= 0
  BY <1>2, <1>7, <1>11, <1>12
<1>15. Capped(dir, V, B)
  BY <1>13, <1>14, OwnedAreStaged, CapTable DEF CapNow
<1> QED
  BY <1>3, <1>8, <1>15 DEF CapThen

LEMMA AppendSettlesCaps == ASSUME Now, CapNow, NEW d \in Dirs, AppendSettles(d) PROVE CapThen
<1>1. dir' = dir /\ append' = [append EXCEPT ![d] = 0]
  BY DEF AppendSettles
<1>2. PICK V, B : V = uploads' /\ B = append'
  OBVIOUS
<1>3. \A b \in Dirs : append[b] <= 0 => B[b] <= 0
  BY <1>1, <1>2, OwnedAreStaged
<1>4. \A b \in Dirs : InTable(V, b) => InTable(uploads, b)
  <2>1. CASE uploads' = uploads
    BY <1>2, <2>1
  <2>2. CASE uploads' # uploads
    <3>1. PICK i : i = dir[d].id
      OBVIOUS
    <3>2. PICK len, rest : uploads[i] # None /\ uploads' = [uploads EXCEPT ![i].writing = FALSE, ![i].received = @ + len, ![i].rest = rest]
      BY <2>2, <3>1 DEF AppendSettles, Credit
    <3>3. i \in Ids
      BY <2>2, <3>2, OwnedAreStaged
    <3>4. uploads[i] \in UploadRec
      BY <3>2, <3>3, OwnedAreStaged
    <3>5. PICK u : u = [uploads[i] EXCEPT !.writing = FALSE, !.received = @ + len, !.rest = rest]
      OBVIOUS
    <3>6. u.dir = uploads[i].dir
      BY <3>4, <3>5 DEF UploadRec
    <3>7. V = [uploads EXCEPT ![i] = u]
      BY <1>2, <3>2, <3>3, <3>4, <3>5, OwnedAreStaged DEF UploadRec
    <3>8. V[i] = u /\ \A j \in Ids : j # i => V[j] = uploads[j]
      BY <3>3, <3>7, OwnedAreStaged
    <3> QED
      BY <3>2, <3>3, <3>6, <3>8 DEF InTable
  <2> QED
    BY <2>1, <2>2
<1>5. Capped(dir, V, B)
  BY <1>3, <1>4, OwnedAreStaged, CapTable DEF CapNow
<1> QED
  BY <1>1, <1>2, <1>5 DEF CapThen

LEMMA AppendLandsCaps == ASSUME Now, CapNow, NEW d \in Dirs, AppendLands(d) PROVE CapThen
<1>1. /\ dir \in [Dirs -> DirRec] /\ dir[d] \in DirRec /\ append \in [Dirs -> Int] /\ append[d] \in Int
      /\ append[d] > 0 /\ append[d] # 0 /\ DirOk(dir[d], append[d], InTable(uploads, d), d \in removing)
  BY Facts DEF AppendLands
<1>2. PICK n \in 0 .. append[d] :
        /\ n > 0 => dir[d].disk > 0
        /\ dir' = [dir EXCEPT ![d].disk = @ + n]
        /\ append' = [append EXCEPT ![d] = IF n = append[d] THEN 0 - append[d] ELSE 0]
        /\ IF n < append[d] /\ session # "none" /\ uploads[dir[d].id] # None
           THEN Abandon(dir[d].id)
           ELSE UNCHANGED <<uploads, in_flight, removing>>
  BY DEF AppendLands
<1>3. PICK B : B = append'
  OBVIOUS
<1>4. B[d] <= 0 /\ \A b \in Dirs : b # d => B[b] = append[b]
  BY <1>1, <1>2, <1>3
<1>5. dir[d].at = "staged" /\ append[d] <= MaxChunk
  BY <1>1 DEF DirOk, Size
<1>6. PICK k \in Nat : k = dir[d].disk + n
  BY <1>1, <1>2 DEF DirRec
<1>7. PICK e : e = [dir[d] EXCEPT !.disk = k]
  OBVIOUS
<1>8. e \in DirRec /\ e.disk = k /\ e.size = dir[d].size /\ e.at = dir[d].at
  BY <1>1, <1>6, <1>7 DEF DirRec
<1>9. PICK E : E = [dir EXCEPT ![d] = e]
  OBVIOUS
<1>10. dir' = E /\ E \in [Dirs -> DirRec] /\ E[d] = e /\ \A b \in Dirs : b # d => E[b] = dir[b]
  BY <1>1, <1>2, <1>6, <1>7, <1>8, <1>9 DEF DirRec
<1>11. dir[d].disk \in Nat /\ dir[d].size \in Nat /\ n \in Nat /\ n <= append[d] /\ dir[d].disk <= e.disk /\ e.disk <= dir[d].disk + append[d]
  BY <1>1, <1>2, <1>6, <1>8 DEF DirRec
\* What landed is within the reservation, or is the chunk too many.
<1>12. Capped(E, uploads, B)
  <2>1. CASE n = 0
    <3>1. E = dir
      BY <1>1, <1>6, <1>7, <1>9, <1>11, <2>1 DEF DirRec
    <3> QED
      BY <1>4, <3>1, OwnedAreStaged, CapTable DEF CapNow
  <2>2. CASE n # 0 /\ InTable(uploads, d)
    <3>1. PICK i \in Ids : uploads[i] # None /\ uploads[i].dir = d
      BY <2>2 DEF InTable
    <3>2. UploadOk(i, uploads[i], dir[d], append[d]) /\ uploads[i] \in UploadRec
      BY <3>1 DEF Now, Sound, Good, Typed
    <3>3. dir[d].disk + append[d] <= dir[d].size
      BY <1>1, <1>2, <1>11, <2>2, <3>2 DEF UploadOk, UploadRec, Unsettled, Size
    <3>4. Granted(dir[d], InTable(uploads, d)) /\ Granted(e, InTable(uploads, d)) /\ dir[d].disk <= e.disk /\ e.disk <= e.size
      <4>1. dir[d].disk > 0 /\ e.disk > 0 /\ e.disk <= e.size
        BY <1>1, <1>2, <1>8, <1>11, <2>2, <3>3
      <4> QED
        BY <1>11, <2>2, <4>1 DEF Granted
    <3> QED
      BY <1>1, <1>4, <1>8, <1>9, <3>4, CapLands DEF CapNow
  <2>3. CASE ~InTable(uploads, d)
    BY <1>1, <1>4, <1>5, <1>8, <1>9, <1>11, <2>3, CapExtra DEF CapNow
  <2> QED
    BY <2>1, <2>2, <2>3
<1>13. PICK V : V = uploads'
  OBVIOUS
<1>14. \E i : V = uploads \/ V = [uploads EXCEPT ![i] = None]
  BY <1>2, <1>13 DEF Abandon
<1>15. \A b \in Dirs : InTable(V, b) => InTable(uploads, b)
  BY <1>14, OwnedAreStaged DEF InTable
<1>16. \A b \in Dirs : InTable(uploads, b) => E[b].at = "staged"
  BY <1>8, <1>10, OwnedAreStaged
<1>17. Capped(E, V, B)
  BY <1>10, <1>12, <1>15, <1>16, CapTable
<1> QED
  BY <1>3, <1>10, <1>13, <1>17 DEF CapThen

LEMMA StageStartCaps == ASSUME Now, Then, CapNow, NEW d \in Dirs, NEW i \in Ids, StageStart(d, i) PROVE CapThen
<1>1. PICK V, E : V = pruned /\ E = dir'
  OBVIOUS
<1>2. uploads' = V /\ append' = append
  BY <1>1 DEF StageStart
<1>3. PICK total, len : Fresh(d, [NoDir EXCEPT !.at = "root", !.staged = TRUE, !.id = i, !.size = total, !.len = len])
  BY DEF StageStart
<1>4. /\ dir \in [Dirs -> DirRec] /\ E \in [Dirs -> DirRec] /\ append \in [Dirs -> Int]
      /\ \A b \in Dirs : InTable(uploads, b) => dir[b].at = "staged"
      /\ \A b \in Dirs : InTable(V, b) => InTable(uploads, b)
  BY <1>1, OwnedAreStaged, PrunedStay, ThenTyped
<1>5. dir[d].at = "none" /\ E[d].at = "root" /\ E[d].disk = 0 /\ \A b \in Dirs : b # d => E[b] = dir[b]
  BY <1>1, <1>3, <1>4 DEF Fresh, NoDir
<1>6. ASSUME NEW b \in Dirs, Live(E[b], InTable(V, b))
      PROVE  /\ Live(dir[b], InTable(uploads, b)) /\ E[b].size = dir[b].size /\ E[b].disk = dir[b].disk
             /\ Granted(E[b], InTable(V, b)) <=> Granted(dir[b], InTable(uploads, b))
             /\ Granted(E[b], InTable(V, b)) \/ E[b].seen = dir[b].seen
  <2>1. b # d
    BY <1>4, <1>5, <1>6 DEF Live, Writing
  <2> QED
    BY <1>4, <1>5, <1>6, <2>1 DEF Live, Granted, Writing
<1>7. \A b \in Dirs : E[b].disk = dir[b].disk \/ E[b].disk = 0
  BY <1>5
<1>8. \A b \in Dirs : dir[b].at = "staged" /\ ~InTable(uploads, b) =>
        E[b].at = "staged" /\ ~InTable(V, b) /\ (append[b] <= 0 => append[b] <= 0)
  BY <1>4, <1>5
<1>9. Capped(E, V, append)
  BY <1>4, <1>6, <1>7, <1>8, CapShrinks DEF CapNow
<1> QED
  BY <1>1, <1>2, <1>9 DEF CapThen

\* A reservation goes from its task to the table, with its bytes.
LEMMA StageReadyTakesCaps ==
    ASSUME Now, Then, CapNow, NEW d \in Dirs, StageReady(d), session # "none" /\ uploads[dir[d].id] = None
    PROVE  CapThen
<1>1. PICK V, E, i : V = uploads' /\ E = dir' /\ i = dir[d].id
  OBVIOUS
<1>2. /\ dir \in [Dirs -> DirRec] /\ dir[d] \in DirRec /\ E \in [Dirs -> DirRec] /\ append \in [Dirs -> Int]
      /\ uploads \in [Ids -> UploadRec \cup {None}]
      /\ \A b \in Dirs : InTable(uploads, b) => dir[b].at = "staged"
  BY <1>1, OwnedAreStaged, ThenTyped
<1>3. /\ dir[d].at = "written" /\ append' = append
      /\ E = [dir EXCEPT ![d].at = "staged", ![d].held = 0, ![d].timer = TRUE]
  BY <1>1 DEF StageReady
<1>4. /\ E[d].at = "staged" /\ E[d].disk = dir[d].disk /\ E[d].size = dir[d].size /\ \A b \in Dirs : b # d => E[b] = dir[b]
  BY <1>2, <1>3 DEF DirRec
<1>5. PICK u : V = [uploads EXCEPT ![i] = u] /\ u.dir = d
  BY <1>1 DEF StageReady, StagedUpload
<1>6. \A b \in Dirs : b # d => (InTable(V, b) <=> InTable(uploads, b))
  <2>1. \A j \in Ids : j # i => V[j] = uploads[j]
    BY <1>2, <1>5
  <2>2. i \in Ids => V[i] = u
    BY <1>2, <1>5
  <2>3. uploads[i] = None
    BY <1>1
  <2> QED
    BY <1>5, <2>1, <2>2, <2>3 DEF InTable
<1>7. ASSUME NEW b \in Dirs, Live(E[b], InTable(V, b))
      PROVE  /\ Live(dir[b], InTable(uploads, b)) /\ E[b].size = dir[b].size /\ E[b].disk = dir[b].disk
             /\ Granted(E[b], InTable(V, b)) <=> Granted(dir[b], InTable(uploads, b))
             /\ Granted(E[b], InTable(V, b)) \/ E[b].seen = dir[b].seen
  <2>1. CASE b = d
    BY <1>3, <1>4, <1>7, <2>1 DEF Live, Granted, Writing
  <2>2. CASE b # d
    BY <1>4, <1>6, <1>7, <2>2 DEF Live, Granted
  <2> QED
    BY <2>1, <2>2
<1>8. \A b \in Dirs : E[b].disk = dir[b].disk \/ E[b].disk = 0
  BY <1>4
<1>9. \A b \in Dirs : dir[b].at = "staged" /\ ~InTable(uploads, b) =>
        E[b].at = "staged" /\ ~InTable(V, b) /\ (append[b] <= 0 => append[b] <= 0)
  BY <1>3, <1>4, <1>6
<1>10. Capped(E, V, append)
  BY <1>2, <1>7, <1>8, <1>9, CapShrinks DEF CapNow
<1> QED
  BY <1>1, <1>3, <1>10 DEF CapThen

LEMMA SendStagedCaps == ASSUME Now, Then, CapNow, NEW i \in Ids, SendStaged(i) PROVE CapThen
<1>1. PICK V, E : V = uploads' /\ E = dir'
  OBVIOUS
<1>2. /\ dir \in [Dirs -> DirRec] /\ E \in [Dirs -> DirRec] /\ append \in [Dirs -> Int]
      /\ uploads \in [Ids -> UploadRec \cup {None}]
      /\ \A b \in Dirs : InTable(uploads, b) => dir[b].at = "staged"
  BY <1>1, OwnedAreStaged, ThenTyped
<1>3. uploads[i] # None /\ append' = append /\ V = [uploads EXCEPT ![i] = None]
  BY <1>1 DEF SendStaged, take_complete
<1>4. PICK d \in Dirs : d = uploads[i].dir
  BY <1>2, <1>3 DEF UploadRec
<1>5. PICK to_peer : E = [dir EXCEPT ![d].at = "resolved", ![d].to_peer = to_peer]
  BY <1>1, <1>4 DEF SendStaged
<1>6. dir[d] \in DirRec /\ E[d].at = "resolved" /\ E[d].disk = dir[d].disk /\ \A b \in Dirs : b # d => E[b] = dir[b]
  BY <1>2, <1>5 DEF DirRec
<1>7. V[i] = None /\ \A j \in Ids : j # i => V[j] = uploads[j]
  BY <1>2, <1>3
<1>8. InTable(uploads, d) /\ ~InTable(V, d) /\ \A b \in Dirs : b # d => (InTable(V, b) <=> InTable(uploads, b))
  <2>1. Good(dir, uploads, append, removing, used)
    BY DEF Now, Sound
  <2>2. \A j \in Ids : uploads[j] # None /\ uploads[j].dir = d => j = i
    BY <1>3, <1>4, <2>1, OneUpload
  <2> QED
    BY <1>3, <1>4, <1>7, <2>2 DEF InTable
<1>9. ASSUME NEW b \in Dirs, Live(E[b], InTable(V, b))
      PROVE  /\ Live(dir[b], InTable(uploads, b)) /\ E[b].size = dir[b].size /\ E[b].disk = dir[b].disk
             /\ Granted(E[b], InTable(V, b)) <=> Granted(dir[b], InTable(uploads, b))
             /\ Granted(E[b], InTable(V, b)) \/ E[b].seen = dir[b].seen
  <2>1. b # d
    BY <1>6, <1>8, <1>9 DEF Live, Writing
  <2> QED
    BY <1>6, <1>8, <1>9, <2>1 DEF Live, Granted
<1>10. \A b \in Dirs : E[b].disk = dir[b].disk \/ E[b].disk = 0
  BY <1>6
<1>11. \A b \in Dirs : dir[b].at = "staged" /\ ~InTable(uploads, b) =>
        E[b].at = "staged" /\ ~InTable(V, b) /\ (append[b] <= 0 => append[b] <= 0)
  BY <1>6, <1>8
<1>12. Capped(E, V, append)
  BY <1>2, <1>9, <1>10, <1>11, CapShrinks DEF CapNow
<1> QED
  BY <1>1, <1>3, <1>12 DEF CapThen

LEMMA CrashCaps == ASSUME Now, Then, CapNow, Crash PROVE CapThen
<1>0. PICK swept \in SUBSET {d \in Dirs : dir[d].old} :
        dir' = [d \in Dirs |->
                 IF dir[d].at = "none" THEN NoDir
                 ELSE [NoDir EXCEPT !.at = IF dir[d].at = "staged" THEN "staged" ELSE "over",
                         !.old = dir[d].old,
                         !.disk = IF d \in swept THEN 0 ELSE dir[d].disk,
                         !.orphan = d \notin swept /\ dir[d].disk > 0]]
  BY DEF Crash
<1>1. PICK V, E, B : V = uploads' /\ E = dir' /\ B = append'
  OBVIOUS
<1>2. dir \in [Dirs -> DirRec] /\ E \in [Dirs -> DirRec]
  BY <1>1, OwnedAreStaged, ThenTyped
<1>3. (\A b \in Dirs : ~InTable(V, b)) /\ \A b \in Dirs : B[b] = 0
  <2>1. uploads' = [i \in Ids |-> None] /\ append' = [d \in Dirs |-> 0]
    BY DEF Crash
  <2> QED
    BY <1>1, <2>1 DEF InTable
<1>4. ASSUME NEW b \in Dirs
      PROVE  /\ E[b].at \notin Writing /\ (dir[b].at = "staged" => E[b].at = "staged")
             /\ E[b].disk = dir[b].disk \/ E[b].disk = 0
  <2>1. CASE dir[b].at = "none"
    <3>1. E[b] = NoDir
      BY <1>0, <1>1, <2>1
    <3> QED
      BY <2>1, <3>1 DEF NoDir, Writing
  <2>2. CASE dir[b].at # "none"
    <3>1. PICK a, o, k, h : /\ a = IF dir[b].at = "staged" THEN "staged" ELSE "over"
                            /\ o = dir[b].old
                            /\ k = IF b \in swept THEN 0 ELSE dir[b].disk
                            /\ h = (b \notin swept /\ dir[b].disk > 0)
      OBVIOUS
    <3>2. E[b] = [NoDir EXCEPT !.at = a, !.old = o, !.disk = k, !.orphan = h]
      BY <1>0, <1>1, <2>2, <3>1
    <3>3. E[b].at = a /\ E[b].disk = k
      BY <3>2 DEF NoDir
    <3> QED
      BY <3>1, <3>3 DEF Writing
  <2> QED
    BY <2>1, <2>2
<1>5. \A b \in Dirs : ~Live(E[b], InTable(V, b))
  BY <1>3, <1>4 DEF Live
<1>6. \A b \in Dirs : dir[b].at = "staged" /\ ~InTable(uploads, b) =>
        E[b].at = "staged" /\ ~InTable(V, b) /\ (append[b] <= 0 => B[b] <= 0)
  BY <1>3, <1>4
<1>7. Capped(E, V, B)
  BY <1>2, <1>4, <1>5, <1>6, CapShrinks DEF CapNow
<1> QED
  BY <1>1, <1>7 DEF CapThen

LEMMA InitCaps == ASSUME Init PROVE CapNow
<1>1. Now
  BY InitIsSound
<1>2. dir \in [Dirs -> DirRec] /\ \A d \in Dirs : dir[d] = NoDir
  BY <1>1, OwnedAreStaged DEF Init
<1>3. \A d \in Dirs : ~InTable(uploads, d)
  BY DEF Init, InTable
<1>4. PICK K, Z, L, P, S, x : /\ K = Disks(dir) /\ Z = Sizes(dir) /\ L = LiveDirs(dir, uploads)
                              /\ P = GrantedDirs(dir, uploads) /\ S = Seens(dir) /\ x = [d \in Dirs |-> 0]
  OBVIOUS
<1>5. K \in [Dirs -> Nat] /\ Z \in [Dirs -> Nat] /\ S \in [Dirs -> Int] /\ \A d \in Dirs : K[d] = dir[d].disk
  BY <1>2, <1>4, ValuesTyped
<1>6. x \in [Dirs -> Nat] /\ \A d \in Dirs : x[d] = 0
  BY <1>4
<1>7. \A d \in Dirs : K[d] = 0
  BY <1>2, <1>5 DEF NoDir
<1>8. L = {} /\ P = {}
  BY <1>2, <1>3, <1>4 DEF LiveDirs, GrantedDirs, Live, Granted, Writing, NoDir
<1>9. LedgerTyped(K, Z, L, P, S, x, x)
  BY <1>5, <1>6, <1>7, <1>8 DEF LedgerTyped
<1>10. SumFunction(Clear(K, x)) <= Cap
  <2>1. PICK f : f = Clear(K, x)
    OBVIOUS
  <2>2. DOMAIN f = Dirs /\ \A d \in Dirs : f[d] = 0
    BY <1>6, <1>7, <2>1 DEF Clear
  <2>3. SumFunction(f) = 0
    BY <2>2, DirsAreFinite, SumZero
  <2> QED
    BY <2>1, <2>3, SendBounds
<1>11. Ledger(K, Z, L, P, S, x, x)
  BY <1>8, <1>9, <1>10 DEF Ledger
<1>12. \A b \in Dirs : ~(x[b] > 0) /\ x[b] < 1
  BY <1>6
<1>13. 1 \in Nat
  OBVIOUS
<1>14. Paid(dir, uploads, append, x, x, 1)
  BY <1>4, <1>11, <1>12, <1>13 DEF Paid
<1> QED
  BY <1>14 DEF CapNow, Capped

-----------------------------------------------------------------------------
(* The theorems.                                                           *)

LEMMA StepKeeps == ASSUME FreshIds, Now, Next PROVE Then
<1>1. ASSUME NEW d \in Dirs, SendBytes(d) \/ Ages(d) \/ \E i \in Ids : StageStart(d, i) PROVE Then
  BY <1>1, SendBytesKeeps, AgesKeeps, StageStartKeeps
<1>2. ASSUME NEW d \in Dirs, Writer(d) PROVE Then
  BY <1>2, RootRefusedKeeps, ReserveKeeps, MeasureKeeps, WritePayloadKeeps, WriteFailsKeeps, BytesReadyKeeps,
     StageReadyKeeps, AppendLandsKeeps, AppendSettlesKeeps, BuildKeeps, AskKeeps, AskFailsKeeps DEF Writer
<1>3. ASSUME NEW d \in Dirs, Cleaner(d) PROVE Then
  BY <1>3, RemoveDirKeeps, TimerFiresKeeps DEF Cleaner
<1>4. ASSUME NEW d \in Dirs, WatchTimesOut(d) \/ SdkRefuses(d) \/ SenderHandle(d) \/ StreamEnds(d) PROVE Then
  BY <1>4, WatchTimesOutKeeps, SdkRefusesKeeps, SenderHandleKeeps, StreamEndsKeeps
<1>5. ASSUME NEW i \in Ids, StageAppend(i) \/ SendStaged(i) PROVE Then
  BY <1>5, StageAppendKeeps, SendStagedKeeps
<1>6. ASSUME NEW s \in {"none", "server", "peer"}, SessionChanges(s) PROVE Then
  BY <1>6, SessionChangesKeeps
<1> QED
  BY <1>1, <1>2, <1>3, <1>4, <1>5, <1>6, StageRefusedKeeps, CrashKeeps DEF Next

\* Now, once more of the next state.
LEMMA NextIsNow == ASSUME Then PROVE Now'
BY DEF Now, Then, Sound, Absent, Good, Typed, DirOk, UploadOk, IdsApart, InTable, Held, Rest, Size, Unsettled,
       Writing, DirRec, DirAt, UploadRec, Dirs, SumFunction

LEMMA NowInductive ==
    ASSUME FreshIds
    PROVE  /\ FilesInit => Now
           /\ Now /\ [SendsStep \/ OffersStep]_<<part, vars, offersVars>> => Now'
<1>1. FilesInit => Now
  BY InitIsSound DEF FilesInit
<1>2. ASSUME Now, UNCHANGED vars PROVE Now'
  <2>1. Then
    BY <1>2 DEF vars, Now, Then
  <2> QED
    BY <2>1, NextIsNow
<1>3. ASSUME Now, SendsStep PROVE Now'
  BY <1>3, StepKeeps, NextIsNow DEF SendsStep
<1> QED
  BY <1>1, <1>2, <1>3 DEF OffersStep

LEMMA NowIsTransfersSound == ASSUME Now PROVE TransfersSound
<1>1. ASSUME NEW d \in Dirs
      PROVE  /\ dir[d].sdk \in {"asked", "open"} => dir[d].disk = dir[d].size \/ dir[d].old
             /\ d \in removing => dir[d].sdk \notin {"asked", "open", "unowned"}
  <2>1. DirOk(dir[d], append[d], InTable(uploads, d), d \in removing)
    BY Facts
  <2> QED
    BY <2>1 DEF DirOk
<1>2. removing \subseteq Dirs
  BY DEF Now, Sound, Good, Typed
<1> QED
  BY <1>1, <1>2 DEF TransfersSound, SentIsWhole, LiveTransferKept

\* A transfer sends what was staged and keeps it until it is over, if the page gives
\* each staged file an id of its own.
THEOREM TransfersAreSound == ASSUME FreshIds PROVE FilesSpec => []TransfersSound
<1>1. Now => TransfersSound
  BY NowIsTransfersSound
<1> QED
  BY <1>1, NowInductive, PTL DEF FilesSpec

-----------------------------------------------------------------------------
(* The cap, at every step.                                                 *)

LEMMA StepCaps == ASSUME FreshIds, Now, CapNow, Next PROVE CapThen
<1>0. Then
  BY StepKeeps
<1>1. ASSUME NEW d \in Dirs, SendBytes(d) \/ Ages(d) \/ \E i \in Ids : StageStart(d, i) PROVE CapThen
  BY <1>0, <1>1, SendBytesCaps, AgesCaps, StageStartCaps
<1>2. ASSUME NEW d \in Dirs, Measure(d) PROVE CapThen
  BY <1>0, <1>2, MeasureFitsCaps, MeasureRefusesCaps
<1>3. ASSUME NEW d \in Dirs, StageReady(d) PROVE CapThen
  BY <1>0, <1>3, StageReadyTakesCaps, StageReadyRefusesCaps
<1>4. ASSUME NEW d \in Dirs, Writer(d) PROVE CapThen
  BY <1>0, <1>2, <1>3, <1>4, RootRefusedCaps, ReserveCaps, WritePayloadCaps, WriteFailsCaps, BytesReadyCaps,
     AppendLandsCaps, AppendSettlesCaps, BuildCaps, AskCaps, AskFailsCaps DEF Writer
<1>5. ASSUME NEW d \in Dirs, Cleaner(d) PROVE CapThen
  BY <1>0, <1>5, RemoveDirCaps, TimerFiresCaps DEF Cleaner
<1>6. ASSUME NEW d \in Dirs, WatchTimesOut(d) \/ SdkRefuses(d) \/ SenderHandle(d) \/ StreamEnds(d) PROVE CapThen
  BY <1>0, <1>6, WatchTimesOutCaps, SdkRefusesCaps, SenderHandleCaps, StreamEndsCaps
<1>7. ASSUME NEW i \in Ids, StageAppend(i) \/ SendStaged(i) PROVE CapThen
  BY <1>0, <1>7, StageAppendCaps, SendStagedCaps
<1> QED
  BY <1>0, <1>1, <1>4, <1>5, <1>6, <1>7, StageRefusedCaps, SessionChangesCaps, CrashCaps DEF Next

LEMMA NextIsCapNow == ASSUME CapThen PROVE CapNow'
BY DEF CapNow, CapThen, Capped, Paid, Ledger, LedgerTyped, Clear, UpTo, Ahead, Disks, Sizes, Seens, LiveDirs,
       GrantedDirs, Live, Granted, Writing, InTable, Dirs, SumFunction

LEMMA CapInductive ==
    ASSUME FreshIds
    PROVE  /\ FilesInit => CapNow
           /\ Now /\ CapNow /\ [SendsStep \/ OffersStep]_<<part, vars, offersVars>> => CapNow'
<1>1. FilesInit => CapNow
  BY InitCaps DEF FilesInit
<1>2. ASSUME CapNow, UNCHANGED vars PROVE CapNow'
  <2>1. CapThen
    BY <1>2 DEF vars, CapNow, CapThen
  <2> QED
    BY <2>1, NextIsCapNow
<1>3. ASSUME Now, CapNow, SendsStep PROVE CapNow'
  BY <1>3, StepCaps, NextIsCapNow DEF SendsStep
<1> QED
  BY <1>1, <1>2, <1>3 DEF OffersStep

\* What is on disk is what was granted, and at most one chunk for each file that lost
\* its reservation while the chunk was being written.
LEMMA CapNowIsCapHolds == ASSUME Now, CapNow PROVE CapHolds
<1>1. PICK x, n, top : Paid(dir, uploads, append, x, n, top)
  BY DEF CapNow, Capped
<1>2. PICK K : K = Disks(dir)
  OBVIOUS
<1>3. /\ K \in [Dirs -> Nat] /\ x \in [Dirs -> Nat] /\ SumFunction(Clear(K, x)) <= Cap
      /\ \A b \in Dirs : x[b] <= K[b]
  BY <1>1, <1>2 DEF Paid, Ledger, LedgerTyped
<1>4. \A b \in Dirs : K[b] = dir[b].disk
  BY <1>2, OwnedAreStaged, ValuesTyped
<1>5. root_bytes = SumFunction(K)
  BY <1>2 DEF root_bytes, Disks
<1>6. PICK f : f = Clear(K, x)
  OBVIOUS
<1>7. f \in [Dirs -> Int] /\ K \in [Dirs -> Int] /\ x \in [Dirs -> Int] /\ \A b \in Dirs : K[b] = f[b] + x[b]
  BY <1>3, <1>6 DEF Clear
<1>8. SumFunction(K) = SumFunction(f) + SumFunction(x)
  BY <1>7, DirsAreFinite, SumAdd
<1>9. PICK Q : Q = {d \in Dirs : Unowned(d) /\ dir[d].disk > 0}
  OBVIOUS
<1>10. ASSUME NEW b \in Dirs PROVE x[b] <= IF b \in Q THEN MaxChunk ELSE 0
  <2>1. CASE x[b] > 0
    <3>1. dir[b].at = "staged" /\ ~InTable(uploads, b) /\ x[b] <= MaxChunk
      BY <1>1, <2>1 DEF Paid
    <3>2. Unowned(b)
      BY <3>1 DEF Unowned, InTable
    <3>3. dir[b].disk > 0
      BY <1>3, <1>4, <2>1
    <3> QED
      BY <1>9, <3>1, <3>2, <3>3
  <2>2. CASE ~(x[b] > 0)
    BY <1>3, <2>2, SendBounds
  <2> QED
    BY <2>1, <2>2
<1>11. MaxChunk \in Nat /\ Q \in SUBSET Dirs /\ Cap \in Nat
  BY <1>9, SendBounds
<1>12. SumFunction(x) <= MaxChunk * Cardinality(Q)
  BY <1>7, <1>10, <1>11, DirsAreFinite, SumBound
<1>13. Cardinality(Q) \in Nat
  BY <1>11, DirsAreFinite, FS_Subset, FS_CardinalityType
<1>14. SumFunction(f) \in Int /\ SumFunction(x) \in Int
  BY <1>7, DirsAreFinite, SumType
<1>15. PICK c \in Nat : c = MaxChunk * Cardinality(Q)
  BY <1>11, <1>13
<1>16. SumFunction(K) <= Cap + c
  BY <1>3, <1>6, <1>8, <1>11, <1>12, <1>14, <1>15
<1> QED
  BY <1>5, <1>9, <1>15, <1>16 DEF CapHolds

\* The bytes of the root are accounted for: they stay within the cap but for one chunk
\* on each upload that lost its reservation while it was written, and what is reserved
\* is exactly what somebody still holds.
THEOREM PayloadsAreAccounted == ASSUME FreshIds PROVE FilesSpec => []PayloadsAccounted
<1>1. Now => InFlightIsOwed
  BY DEF Now, Sound, Held, InFlightIsOwed
<1>2. Now /\ CapNow => PayloadsAccounted
  BY <1>1, CapNowIsCapHolds DEF PayloadsAccounted
<1> QED
  BY <1>2, NowInductive, CapInductive, PTL DEF FilesSpec

-----------------------------------------------------------------------------
(* Offers.                                                                 *)

OffersTyped ==
    /\ DOMAIN offer = Transfers /\ DOMAIN told = Transfers
    /\ offer = [t \in Transfers |-> offer[t]] /\ told = [t \in Transfers |-> told[t]]

Tells == \A t \in Transfers : offer'[t] = "held" /\ offer[t] # "held" => told'[t] # {}

\* Only a delivery makes an offer one that is kept.
LEMMA OneOffer ==
    ASSUME OffersTyped, NEW t \in Transfers, NEW a, a # "held", offer' = [offer EXCEPT ![t] = a]
    PROVE  Tells /\ DOMAIN offer' = Transfers /\ offer' = [b \in Transfers |-> offer'[b]]
BY DEF OffersTyped, Tells

LEMMA OffersStepTells == ASSUME OffersTyped, O!Next PROVE Tells /\ OffersTyped'
<1>1. ASSUME NEW t \in Transfers, NEW from, NEW storage, O!ReceiverHandle(t, from, storage) PROVE Tells /\ OffersTyped'
  <2>1. told' = told
    BY <1>1 DEF O!ReceiverHandle
  <2>2. \E a : a # "held" /\ offer' = [offer EXCEPT ![t] = a]
    <3>1. CASE account = "none"
      BY <1>1, <3>1 DEF O!ReceiverHandle
    <3>2. CASE account # "none" /\ storage
      BY <1>1, <3>2 DEF O!ReceiverHandle
    <3>3. CASE account # "none" /\ ~storage
      BY <1>1, <3>3 DEF O!ReceiverHandle
    <3> QED
      BY <3>1, <3>2, <3>3
  <2> QED
    BY <2>1, <2>2, OneOffer DEF OffersTyped
<1>2. ASSUME NEW t \in Transfers, O!Deliver(t) PROVE Tells /\ OffersTyped'
  <2>1. PICK live : live = snapshot[t] \cap attached
    OBVIOUS
  <2>2. told' = [told EXCEPT ![t] = live]
    BY <1>2, <2>1 DEF O!Deliver
  <2>3. CASE offer[t] # "tellingGone" /\ live # {}
    <3>1. offer' = [offer EXCEPT ![t] = "held"]
      BY <1>2, <2>1, <2>3 DEF O!Deliver
    <3> QED
      BY <2>2, <2>3, <3>1 DEF OffersTyped, Tells
  <2>4. CASE ~(offer[t] # "tellingGone" /\ live # {})
    <3>1. \E a : a # "held" /\ offer' = [offer EXCEPT ![t] = a]
      BY <1>2, <2>1, <2>4 DEF O!Deliver
    <3> QED
      BY <2>2, <3>1, OneOffer DEF OffersTyped
  <2> QED
    BY <2>3, <2>4
<1>3. ASSUME NEW t \in Transfers, NEW w, O!Respond(t, w) PROVE Tells /\ OffersTyped'
  <2>1. told' = told /\ \E a : a # "held" /\ offer' = [offer EXCEPT ![t] = a]
    BY <1>3 DEF O!Respond
  <2> QED
    BY <2>1, OneOffer DEF OffersTyped
<1>4. ASSUME NEW w, O!WindowCloses(w) PROVE Tells /\ OffersTyped'
  BY <1>4 DEF O!WindowCloses, OffersTyped, Tells
<1>5. ASSUME NEW s, O!SessionShrinks(s) PROVE Tells /\ OffersTyped'
  <2>1. told' = told /\ DOMAIN offer' = Transfers /\ offer' = [t \in Transfers |-> offer'[t]]
    BY <1>5 DEF O!SessionShrinks
  <2>2. ASSUME NEW t \in Transfers, offer[t] # "held" PROVE offer'[t] # "held"
    <3>1. CASE offer[t] = "telling"
      BY <1>5, <3>1 DEF O!SessionShrinks
    <3>2. CASE offer[t] # "telling"
      BY <1>5, <2>2, <3>2 DEF O!SessionShrinks
    <3> QED
      BY <3>1, <3>2
  <2> QED
    BY <2>1, <2>2 DEF OffersTyped, Tells
<1>6. ASSUME UNCHANGED <<offer, told>> PROVE Tells /\ OffersTyped'
  BY <1>6 DEF OffersTyped, Tells
<1>7. ASSUME NEW w, O!Attach(w) PROVE Tells /\ OffersTyped'
  BY <1>6, <1>7 DEF O!Attach
<1>8. ASSUME O!Delete \/ O!RemoteDeletes \/ O!await_delete_outcome PROVE Tells /\ OffersTyped'
  BY <1>6, <1>8 DEF O!Delete, O!RemoteDeletes, O!await_delete_outcome, O!offerVars
<1>9. ASSUME NEW path, O!PickFile(path) \/ O!SendPicked(path) PROVE Tells /\ OffersTyped'
  BY <1>6, <1>9 DEF O!PickFile, O!SendPicked, O!pickVars
<1>10. ASSUME O!PickExpires PROVE Tells /\ OffersTyped'
  BY <1>6, <1>10 DEF O!PickExpires, O!pickVars
<1> QED
  BY <1>1, <1>2, <1>3, <1>4, <1>5, <1>7, <1>8, <1>9, <1>10 DEF O!Next

\* An offer is kept for an answer only when a window was told of it.
THEOREM OffersAreTold == FilesSpec => KeptOfferWasTold
<1>1. FilesInit => OffersTyped
  BY DEF FilesInit, O!Init, OffersTyped
<1>2. OffersTyped /\ [SendsStep \/ OffersStep]_<<part, vars, offersVars>> => [Tells]_(O!vars) /\ OffersTyped'
  <2>1. ASSUME OffersTyped, UNCHANGED offersVars PROVE UNCHANGED O!vars /\ OffersTyped'
    BY <2>1 DEF offersVars, O!vars, OffersTyped
  <2>2. ASSUME OffersTyped, OffersStep PROVE Tells /\ OffersTyped'
    BY <2>2, OffersStepTells DEF OffersStep
  <2> QED
    BY <2>1, <2>2 DEF SendsStep
<1> QED
  BY <1>1, <1>2, PTL DEF FilesSpec, KeptOfferWasTold, O!KeptOfferWasTold, Tells
=============================================================================
