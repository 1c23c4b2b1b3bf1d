---------------------------- MODULE Snapshot_proofs ----------------------------
(***************************************************************************)
(* Theorems about Snapshot, for any suites: that matrix expansion makes    *)
(* every combination once, in order; what keeps a golden file from         *)
(* changing; and what the goldens are after a green update.  The first     *)
(* needs that the odometer visits each vector of indices, and Total many   *)
(* of them: the first section.                                             *)
(***************************************************************************)
EXTENDS Snapshot, FiniteSetTheorems, FunctionTheorems, TLAPS

-----------------------------------------------------------------------------
(***************************************************************************)
(* Smallest elements, and induction over the subsets of a finite set, as   *)
(* a set of those that have been shown to be good.                         *)
(***************************************************************************)
LEMMA SubsetInduction ==
  ASSUME NEW S, IsFiniteSet(S), NEW Good,
         \A s \in SUBSET S : (\A r \in SUBSET s : r # s => r \in Good) => s \in Good
  PROVE  SUBSET S \subseteq Good
<1> DEFINE Bad == (SUBSET S) \ Good
<1>1. SUFFICES ASSUME Bad # {} PROVE FALSE
  OBVIOUS
<1>2. IsWellFoundedOn(StrictSubsetOrdering(S), SUBSET S)
  BY FS_StrictSubsetOrderingWellFounded, FS_FiniteSubsetsOfFinite
<1>3. PICK m \in Bad : \A s \in Bad : <<s, m>> \notin StrictSubsetOrdering(S)
  <2>1. Bad \subseteq SUBSET S
    OBVIOUS
  <2> HIDE DEF Bad
  <2> QED
    BY <1>1, <1>2, <2>1, WFMin
<1>4. m \in SUBSET S /\ m \notin Good
  BY <1>3
<1>5. ASSUME NEW r \in SUBSET m, r # m PROVE r \in Good
  <2>1. <<r, m>> \in StrictSubsetOrdering(S) /\ r \in SUBSET S
    BY <1>4, <1>5 DEF StrictSubsetOrdering
  <2> QED
    BY <1>3, <2>1
<1> QED
  BY <1>4, <1>5

LEMMA NatLeast ==
  ASSUME NEW T \in SUBSET Nat, T # {}
  PROVE  \E x \in T : \A y \in T : x <= y
<1>1. PICK x \in T : \A y \in T : <<y, x>> \notin OpToRel(<, Nat)
  BY NatLessThanWellFounded, WFMin
<1>2. \A y \in T : ~(y < x)
  BY <1>1 DEF OpToRel
<1> QED
  BY <1>2

LEMMA MaxOfFinite ==
  ASSUME NEW n \in Nat, NEW s \in SUBSET (1 .. n), s # {}
  PROVE  Max(s) \in s /\ \A y \in s : y <= Max(s)
<1>1. PICK least \in {n - x : x \in s} : \A y \in {n - x : x \in s} : least <= y
  <2>1. \A x \in s : n - x \in Nat
    OBVIOUS
  <2>2. {n - x : x \in s} \in SUBSET Nat /\ {n - x : x \in s} # {}
    BY <2>1
  <2> QED
    BY <2>2, NatLeast
<1>2. PICK x \in s : \A y \in s : n - x <= n - y
  BY <1>1
<1>3. \A y \in s : x >= y
  BY <1>2
<1> QED
  BY <1>3 DEF Max

-----------------------------------------------------------------------------
(***************************************************************************)
(* The odometer: vectors of indices, their number and their order.         *)
(***************************************************************************)
Vectors(matrix) ==
  {v \in [DOMAIN matrix -> Nat] : \A j \in DOMAIN matrix : v[j] \in 1 .. Len(matrix[j].values)}

\* v comes before w, the last variable moving fastest.
Before(matrix, v, w) ==
  \E j \in DOMAIN matrix : (\A i \in 1 .. (j - 1) : v[i] = w[i]) /\ v[j] < w[j]

\* Vectors of the variables in s only.
VectorsOn(matrix, s) ==
  {v \in [s -> Nat] : \A j \in s : v[j] \in 1 .. Len(matrix[j].values)}

\* The vectors on one more variable are pairs of a vector and a value's index.
LEMMA OneMoreVariable ==
  ASSUME NEW matrix \in Matrices, NEW s \in SUBSET (DOMAIN matrix), NEW x \in s,
         IsFiniteSet(VectorsOn(matrix, s \ {x}))
  PROVE  /\ IsFiniteSet(VectorsOn(matrix, s))
         /\ Cardinality(VectorsOn(matrix, s)) =
              Cardinality(VectorsOn(matrix, s \ {x})) * Len(matrix[x].values)
<1> DEFINE n     == Len(matrix[x].values)
           pairs == VectorsOn(matrix, s \ {x}) \X (1 .. n)
           join  == [p \in pairs |-> [j \in s |-> IF j = x THEN p[2] ELSE p[1][j]]]
<1>1. n \in Nat
  BY DEF Matrices, Texts
<1>2. IsFiniteSet(1 .. n) /\ Cardinality(1 .. n) = n
  <2> HIDE DEF n
  <2> QED
    BY <1>1, FS_Interval
<1>3. /\ IsFiniteSet(pairs)
      /\ Cardinality(pairs) = Cardinality(VectorsOn(matrix, s \ {x})) * n
  <2> DEFINE range == 1 .. n
             rest  == VectorsOn(matrix, s \ {x})
  <2>1. IsFiniteSet(range) /\ IsFiniteSet(rest) /\ Cardinality(range) = n
    BY <1>2
  <2> HIDE DEF range, rest
  <2>2. IsFiniteSet(rest \X range) /\ Cardinality(rest \X range) = Cardinality(rest) * n
    BY <2>1, FS_Product
  <2> QED
    BY <2>2 DEF range, rest
<1>4. join \in Bijection(pairs, VectorsOn(matrix, s))
  <2>1. ASSUME NEW p \in pairs PROVE join[p] \in VectorsOn(matrix, s)
    <3>1. /\ p[1] \in [s \ {x} -> Nat] /\ p[2] \in 1 .. n
          /\ \A j \in s \ {x} : p[1][j] \in 1 .. Len(matrix[j].values)
      BY DEF VectorsOn
    <3> QED
      BY <3>1 DEF VectorsOn
  <2>2. ASSUME NEW p \in pairs, NEW q \in pairs, join[p] = join[q] PROVE p = q
    <3>1. \A j \in s : join[p][j] = join[q][j]
      BY <2>2
    <3>2. p[2] = q[2] /\ \A j \in s \ {x} : p[1][j] = q[1][j]
      BY <3>1
    <3>3. p[1] \in [s \ {x} -> Nat] /\ q[1] \in [s \ {x} -> Nat]
      BY DEF VectorsOn
    <3>4. p[1] = q[1] /\ p = <<p[1], p[2]>> /\ q = <<q[1], q[2]>>
      BY <3>2, <3>3
    <3> QED
      BY <3>2, <3>4
  <2>3. ASSUME NEW v \in VectorsOn(matrix, s) PROVE \E p \in pairs : join[p] = v
    <3> DEFINE p == <<[j \in s \ {x} |-> v[j]], v[x]>>
    <3>1. p \in pairs
      BY DEF VectorsOn
    <3>2. v \in [s -> Nat] /\ join[p] = [j \in s |-> v[j]]
      BY <3>1 DEF VectorsOn
    <3> QED
      BY <3>1, <3>2
  <2> QED
    BY <2>1, <2>2, <2>3 DEF Bijection, Injection, Surjection, IsInjective
<1> HIDE DEF pairs, join
<1>5. ExistsBijection(pairs, VectorsOn(matrix, s))
  BY <1>4 DEF ExistsBijection
<1> QED
  BY <1>3, <1>5, FS_Bijection

LEMMA VectorsFinite ==
  ASSUME NEW matrix \in Matrices
  PROVE  \A s \in SUBSET (DOMAIN matrix) : IsFiniteSet(VectorsOn(matrix, s))
<1> DEFINE Good == {s \in SUBSET (DOMAIN matrix) : IsFiniteSet(VectorsOn(matrix, s))}
<1>1. IsFiniteSet(DOMAIN matrix)
  BY FS_Interval DEF Matrices
<1>2. ASSUME NEW s \in SUBSET (DOMAIN matrix), \A r \in SUBSET s : r # s => r \in Good
      PROVE  s \in Good
  <2>1. CASE s = {}
    <3>1. \A v, w \in VectorsOn(matrix, s) : v = w
      BY <2>1 DEF VectorsOn
    <3>2. VectorsOn(matrix, s) = {} \/ \E v : VectorsOn(matrix, s) = {v}
      BY <3>1
    <3> QED
      BY <3>2, FS_EmptySet, FS_Singleton
  <2>2. CASE s # {}
    <3>1. PICK x \in s : TRUE
      BY <2>2
    <3>2. IsFiniteSet(VectorsOn(matrix, s \ {x}))
      BY <1>2, <3>1
    <3> QED
      BY <3>2, OneMoreVariable
  <2> QED
    BY <2>1, <2>2
<1> HIDE DEF Good
<1>3. SUBSET (DOMAIN matrix) \subseteq Good
  BY <1>1, <1>2, SubsetInduction
<1> QED
  BY <1>3 DEF Good

\* g is the function that the fold of Total computes.
IsProduct(g, matrix) ==
  g = [s \in SUBSET (DOMAIN matrix) |->
         IF s = {} THEN 1 ELSE g[s \ {Max(s)}] * Len(matrix[Max(s)].values)]

LEMMA ProductUnique ==
  ASSUME NEW matrix \in Matrices, NEW g, NEW h, IsProduct(g, matrix), IsProduct(h, matrix)
  PROVE  g = h
<1> DEFINE Good == {s \in SUBSET (DOMAIN matrix) : g[s] = h[s]}
<1>0. Len(matrix) \in Nat /\ DOMAIN matrix = 1 .. Len(matrix)
  BY DEF Matrices
<1>1. IsFiniteSet(DOMAIN matrix)
  BY <1>0, FS_Interval
<1>2. ASSUME NEW s \in SUBSET (DOMAIN matrix), \A r \in SUBSET s : r # s => r \in Good
      PROVE  s \in Good
  <2>1. /\ g[s] = IF s = {} THEN 1 ELSE g[s \ {Max(s)}] * Len(matrix[Max(s)].values)
        /\ h[s] = IF s = {} THEN 1 ELSE h[s \ {Max(s)}] * Len(matrix[Max(s)].values)
    BY DEF IsProduct
  <2>2. CASE s # {}
    <3>1. Max(s) \in s
      BY <1>0, <2>2, MaxOfFinite
    <3>2. s \ {Max(s)} \in Good
      BY <1>2, <3>1
    <3> QED
      BY <2>1, <2>2, <3>2
  <2> QED
    BY <2>1, <2>2
<1> HIDE DEF Good
<1>3. SUBSET (DOMAIN matrix) \subseteq Good
  BY <1>1, <1>2, SubsetInduction
<1> USE DEF Good
<1>4. /\ g = [s \in SUBSET (DOMAIN matrix) |-> g[s]]
      /\ h = [s \in SUBSET (DOMAIN matrix) |-> h[s]]
  BY DEF IsProduct
<1> QED
  BY <1>3, <1>4

\* Total is the number of vectors.
LEMMA TotalCountsVectors ==
  ASSUME NEW matrix \in Matrices
  PROVE  IsFiniteSet(Vectors(matrix)) /\ Total(matrix) = Cardinality(Vectors(matrix))
<1> DEFINE D    == DOMAIN matrix
           size == [s \in SUBSET D |-> Cardinality(VectorsOn(matrix, s))]
           iter == CHOOSE g : g = [s \in SUBSET D |->
                     IF s = {} THEN 1
                     ELSE LET x == Max(s) IN g[s \ {x}] * Len(matrix[x].values)]
<1>1. Len(matrix) \in Nat /\ D = 1 .. Len(matrix)
  BY DEF Matrices
<1>2. IsProduct(size, matrix)
  <2>1. SUFFICES ASSUME NEW s \in SUBSET D
                 PROVE  size[s] = IF s = {} THEN 1
                                  ELSE size[s \ {Max(s)}] * Len(matrix[Max(s)].values)
    BY Zenon DEF IsProduct
  <2>2. CASE s = {}
    <3> DEFINE nil == [j \in {} |-> 0]
    <3>1. VectorsOn(matrix, s) = {nil}
      BY <2>2 DEF VectorsOn
    <3> QED
      BY <2>2, <3>1, FS_Singleton
  <2>3. CASE s # {}
    <3>1. Max(s) \in s
      BY <1>1, <2>3, MaxOfFinite
    <3> QED
      BY <2>3, <3>1, VectorsFinite, OneMoreVariable
  <2> QED
    BY <2>2, <2>3
<1>3. Total(matrix) = iter[D]
  BY DEF Total, FoldLeft, MapThenFoldSet
<1>4. IsProduct(iter, matrix)
  BY <1>2 DEF IsProduct
<1> HIDE DEF iter
<1>5. iter = size
  BY <1>2, <1>4, ProductUnique
<1>6. VectorsOn(matrix, D) = Vectors(matrix)
  BY DEF VectorsOn, Vectors
<1> QED
  BY <1>3, <1>5, <1>6, VectorsFinite

\* A variable of a matrix, and its values: there is one, and none is listed twice.
LEMMA Pieces ==
  ASSUME NEW text \in Texts
  PROVE  /\ Len(text) \in Nat /\ DOMAIN text = 1 .. Len(text)
         /\ \A i \in DOMAIN text : text[i] \in STRING \X STRING
         /\ text # <<>> => Len(text) > 0
<1> DEFINE piece == STRING \X STRING
<1>1. text \in Seq(piece)
  BY DEF Texts
<1> HIDE DEF piece
<1>2. /\ Len(text) \in Nat /\ DOMAIN text = 1 .. Len(text)
      /\ \A i \in DOMAIN text : text[i] \in piece
      /\ text # <<>> => Len(text) > 0
  BY <1>1
<1> QED
  BY <1>2 DEF piece

LEMMA Shapes ==
  ASSUME NEW matrix \in Matrices
  PROVE  /\ Len(matrix) \in Nat /\ DOMAIN matrix = 1 .. Len(matrix)
         /\ \A j \in DOMAIN matrix :
              /\ matrix[j] \in ToSet(matrix) /\ matrix[j].values \in Texts
              /\ Len(matrix[j].values) \in Nat
              /\ DOMAIN matrix[j].values = 1 .. Len(matrix[j].values)
              /\ ValidMatrix(matrix) => /\ Len(matrix[j].values) > 0
                                        /\ IsInjective(matrix[j].values)
<1>1. ASSUME NEW j \in DOMAIN matrix
      PROVE  matrix[j] \in ToSet(matrix) /\ matrix[j].values \in Texts
  <2>1. matrix[j] \in ToSet(matrix)
    BY DEF ToSet
  <2>2. matrix[j] \in [name : STRING, values : Texts]
    <3> DEFINE variables == [name : STRING, values : Texts]
    <3>1. matrix \in Seq(variables)
      BY DEF Matrices
    <3> HIDE DEF variables
    <3>2. matrix[j] \in variables
      BY <3>1
    <3> QED
      BY <3>2 DEF variables
  <2> QED
    BY <2>1, <2>2
<1>2. ASSUME NEW j \in DOMAIN matrix, ValidMatrix(matrix)
      PROVE  matrix[j].values # <<>> /\ IsInjective(matrix[j].values)
  BY <1>1, <1>2 DEF ValidMatrix
<1>3. Len(matrix) \in Nat /\ DOMAIN matrix = 1 .. Len(matrix)
  BY DEF Matrices
<1> QED
  BY <1>1, <1>2, <1>3, Pieces

LEMMA FirstIsAVector ==
  ASSUME NEW matrix \in Matrices, ValidMatrix(matrix)
  PROVE  /\ FirstIndices(matrix) \in Vectors(matrix)
         /\ \A v \in Vectors(matrix) : ~Before(matrix, v, FirstIndices(matrix))
BY Shapes DEF FirstIndices, Vectors, Before

\* A different vector comes before or after.
LEMMA BeforeIsTotal ==
  ASSUME NEW matrix \in Matrices, NEW v \in Vectors(matrix), NEW w \in Vectors(matrix), v # w
  PROVE  Before(matrix, v, w) \/ Before(matrix, w, v)
<1> DEFINE Differ == {j \in DOMAIN matrix : v[j] # w[j]}
<1>1. Differ \in SUBSET Nat /\ Differ # {}
  BY Shapes DEF Vectors
<1>2. PICK j \in Differ : \A i \in Differ : j <= i
  <2> HIDE DEF Differ
  <2> QED
    BY <1>1, NatLeast
<1>3. \A i \in 1 .. (j - 1) : v[i] = w[i]
  BY <1>2, Shapes
<1>4. v[j] \in Nat /\ w[j] \in Nat /\ v[j] # w[j]
  BY <1>2 DEF Vectors
<1> QED
  BY <1>2, <1>3, <1>4 DEF Before

LEMMA BeforeIsStrict ==
  ASSUME NEW matrix \in Matrices, NEW v \in Vectors(matrix)
  PROVE  ~Before(matrix, v, v)
BY DEF Before, Vectors

\* The odometer moves to the next vector, or has been at the last one.
LEMMA TickIsNext ==
  ASSUME NEW matrix \in Matrices, ValidMatrix(matrix), NEW at \in Vectors(matrix)
  PROVE  /\ Tick(matrix, at) \in Vectors(matrix)
         /\ LET seen == {v \in Vectors(matrix) : Before(matrix, v, at)} \cup {at}
            IN seen = Vectors(matrix) \/
               seen = {v \in Vectors(matrix) : Before(matrix, v, Tick(matrix, at))}
<1> DEFINE D    == DOMAIN matrix
           n(j) == Len(matrix[j].values)
           room == {j \in DOMAIN at : at[j] < n(j)}
           to   == Tick(matrix, at)
<1>1. /\ Len(matrix) \in Nat /\ D = 1 .. Len(matrix) /\ DOMAIN at = D
      /\ \A j \in D : n(j) \in Nat /\ n(j) > 0 /\ at[j] \in 1 .. n(j)
  BY Shapes DEF Vectors
<1>2. CASE room = {}
  <2>1. to = [j \in D |-> 1]
    BY <1>1, <1>2 DEF Tick
  <2>2. to \in Vectors(matrix)
    BY <1>1, <2>1 DEF Vectors
  <2>3. \A j \in D : at[j] = n(j)
    BY <1>1, <1>2
  <2>4. ASSUME NEW v \in Vectors(matrix), v # at PROVE Before(matrix, v, at)
    <3>1. ~Before(matrix, at, v)
      BY <1>1, <2>3 DEF Before, Vectors
    <3> QED
      BY <2>4, <3>1, BeforeIsTotal
  <2> QED
    BY <2>2, <2>4
<1>3. CASE room # {}
  <2> DEFINE p == Max(room)
  <2>1. p \in D /\ at[p] < n(p) /\ \A j \in D : j > p => at[j] = n(j)
    <3>1. room \in SUBSET (1 .. Len(matrix))
      BY <1>1
    <3>2. p \in room /\ \A j \in room : j <= p
      BY <1>1, <1>3, <3>1, MaxOfFinite
    <3> HIDE DEF p
    <3>3. p \in D /\ at[p] < n(p)
      BY <1>1, <3>2
    <3>4. ASSUME NEW j \in D, j > p PROVE at[j] = n(j)
      <4>1. ~(at[j] < n(j))
        BY <1>1, <3>2, <3>3, <3>4
      <4> QED
        BY <1>1, <4>1
    <3> QED
      BY <3>3, <3>4
  <2>2. to = [j \in D |-> IF j > p THEN 1 ELSE IF j = p THEN at[j] + 1 ELSE at[j]]
    BY <1>1, <1>3, <2>1 DEF Tick
  <2> HIDE DEF p, to
  <2>3. to \in Vectors(matrix)
    BY <1>1, <2>1, <2>2 DEF Vectors
  <2>4. /\ to[p] = at[p] + 1
        /\ \A j \in D : (j < p => to[j] = at[j]) /\ (j > p => to[j] = 1)
    BY <1>1, <2>1, <2>2
  <2>5. /\ \A j \in D : \A i \in 1 .. (j - 1) : i \in D /\ i < j
        /\ \A j \in D : at[j] \in Nat
        /\ \A v \in Vectors(matrix) : \A j \in D : v[j] \in 1 .. n(j)
    BY <1>1 DEF Vectors
  <2>6. Before(matrix, at, to)
    <3>1. at[p] < to[p]
      BY <2>1, <2>4, <2>5
    <3>2. \A i \in 1 .. (p - 1) : at[i] = to[i]
      BY <2>1, <2>4, <2>5
    <3> QED
      BY <2>1, <3>1, <3>2 DEF Before
  <2>7. ASSUME NEW v \in Vectors(matrix), Before(matrix, v, at) PROVE Before(matrix, v, to)
    <3>1. PICK j \in D : (\A i \in 1 .. (j - 1) : v[i] = at[i]) /\ v[j] < at[j]
      BY <2>7 DEF Before
    <3>2. v[j] \in Nat /\ j \in Int /\ p \in Int
      BY <1>1, <2>1, <2>5
    <3>3. CASE j <= p
      <4>1. \A i \in 1 .. (j - 1) : v[i] = to[i]
        BY <2>4, <2>5, <3>1, <3>2, <3>3
      <4>2. v[j] < to[j]
        BY <2>4, <2>5, <3>1, <3>2, <3>3
      <4> QED
        BY <4>1, <4>2 DEF Before
    <3>4. CASE j > p
      <4>1. v[p] = at[p] /\ v[p] < to[p]
        <5>1. p \in 1 .. (j - 1)
          BY <1>1, <2>1, <3>2, <3>4
        <5>2. at[p] < to[p]
          BY <2>1, <2>4, <2>5
        <5> QED
          BY <3>1, <5>1, <5>2
      <4>2. \A i \in 1 .. (p - 1) : v[i] = to[i]
        BY <2>1, <2>4, <2>5, <3>1, <3>2, <3>4
      <4> QED
        BY <2>1, <4>1, <4>2 DEF Before
    <3> QED
      BY <3>2, <3>3, <3>4
  <2>8. ASSUME NEW v \in Vectors(matrix), Before(matrix, v, to), v # at
        PROVE  Before(matrix, v, at)
    <3>1. PICK j \in D : (\A i \in 1 .. (j - 1) : v[i] = to[i]) /\ v[j] < to[j]
      BY <2>8 DEF Before
    <3>2. v[j] \in Nat /\ j \in Int /\ p \in Int /\ v[j] >= 1
      BY <1>1, <2>1, <2>5
    <3>3. j <= p
      BY <2>4, <3>1, <3>2
    <3>4. \A i \in 1 .. (j - 1) : v[i] = at[i]
      BY <2>4, <2>5, <3>1, <3>2, <3>3
    <3>5. CASE v[j] < at[j]
      BY <3>4, <3>5 DEF Before
    <3>6. CASE ~(v[j] < at[j])
      <4>1. j = p /\ v[p] = at[p]
        BY <2>4, <2>5, <3>1, <3>2, <3>3, <3>6
      <4>2. SUFFICES ASSUME Before(matrix, at, v) PROVE FALSE
        BY <2>8, BeforeIsTotal
      <4>3. PICK k \in D : (\A i \in 1 .. (k - 1) : at[i] = v[i]) /\ at[k] < v[k]
        BY <4>2 DEF Before
      <4>4. k \in Int /\ v[k] \in 1 .. n(k) /\ at[k] \in Nat
        BY <1>1, <2>5
      <4>5. ~(k < p)
        BY <3>2, <3>4, <4>1, <4>3, <4>4, <1>1
      <4>6. ~(k > p)
        BY <1>1, <2>1, <4>3, <4>4
      <4> QED
        BY <3>2, <4>1, <4>3, <4>4, <4>5, <4>6
    <3> QED
      BY <3>5, <3>6
  <2>9. ({v \in Vectors(matrix) : Before(matrix, v, at)} \cup {at})
          = {v \in Vectors(matrix) : Before(matrix, v, to)}
    BY <2>6, <2>7, <2>8
  <2> QED
    BY <2>3, <2>9 DEF to
<1> QED
  BY <1>2, <1>3

\* The values at a vector of indices, and back.
VectorOf(matrix, a) == [j \in DOMAIN matrix |-> Position(matrix, j, a[j])]

LEMMA AssignmentsAtVector ==
  ASSUME NEW matrix \in Matrices, ValidMatrix(matrix), NEW v \in Vectors(matrix)
  PROVE  /\ Assignments(matrix, v) \in Texts
         /\ Assignments(matrix, v) \in Combinations(matrix)
         /\ VectorOf(matrix, Assignments(matrix, v)) = v
<1> DEFINE a == Assignments(matrix, v)
<1>1. /\ Len(matrix) \in Nat /\ DOMAIN matrix = 1 .. Len(matrix)
      /\ v \in [DOMAIN matrix -> Nat]
      /\ \A j \in DOMAIN matrix : v[j] \in DOMAIN matrix[j].values
  BY Shapes DEF Vectors
<1>2. ASSUME NEW j \in DOMAIN matrix
      PROVE  /\ matrix[j].values \in Texts /\ IsInjective(matrix[j].values)
             /\ matrix[j] \in ToSet(matrix)
  BY Shapes
<1>3. ASSUME NEW j \in DOMAIN matrix
      PROVE  /\ a[j] = matrix[j].values[v[j]]
             /\ a[j] \in ToSet(matrix[j].values) /\ a[j] \in STRING \X STRING
  <2>1. a[j] = matrix[j].values[v[j]]
    BY DEF Assignments
  <2>2. matrix[j].values[v[j]] \in ToSet(matrix[j].values)
    BY <1>1 DEF ToSet
  <2>3. matrix[j].values[v[j]] \in STRING \X STRING
    BY <1>1, <1>2, Pieces
  <2> QED
    BY <2>1, <2>2, <2>3
<1>4. a \in Texts
  BY <1>1, <1>3 DEF Assignments, Texts
<1>5. a \in Combinations(matrix)
  <2>1. \A j \in DOMAIN matrix : a[j] \in UNION {ToSet(w.values) : w \in ToSet(matrix)}
    BY <1>2, <1>3
  <2> QED
    BY <1>3, <2>1 DEF Assignments, Combinations
<1>6. ASSUME NEW j \in DOMAIN matrix PROVE Position(matrix, j, a[j]) = v[j]
  BY <1>1, <1>2, <1>3 DEF Position, IsInjective
<1>7. VectorOf(matrix, a) = v
  BY <1>1, <1>6 DEF VectorOf
<1> QED
  BY <1>4, <1>5, <1>7

LEMMA VectorOfCombination ==
  ASSUME NEW matrix \in Matrices, NEW a \in Combinations(matrix)
  PROVE  VectorOf(matrix, a) \in Vectors(matrix) /\ Assignments(matrix, VectorOf(matrix, a)) = a
<1>1. ASSUME NEW j \in DOMAIN matrix
      PROVE  /\ Position(matrix, j, a[j]) \in 1 .. Len(matrix[j].values)
             /\ matrix[j].values[Position(matrix, j, a[j])] = a[j]
  <2>1. a[j] \in ToSet(matrix[j].values)
    BY DEF Combinations
  <2>2. \E i \in DOMAIN matrix[j].values : matrix[j].values[i] = a[j]
    BY <2>1 DEF ToSet
  <2> QED
    BY <2>2, Shapes DEF Position
<1>2. a = [j \in DOMAIN matrix |-> a[j]]
  BY DEF Combinations
<1> QED
  BY <1>1, <1>2, Shapes DEF VectorOf, Vectors, Assignments

-----------------------------------------------------------------------------
(***************************************************************************)
(* The inductive invariant.                                                *)
(***************************************************************************)
Running == phase # "idle"

InstanceType == [test : DOMAIN suite, assignments : Texts, ref : Nat]
Statuses     == {"idle", "passed", "failed", "snapshot"}

StreamNames  == Seq({"stdout", "stderr"})

ScalarsInv ==
  /\ suite \in Suites
  /\ program \in {0, 1} /\ edits \in 0 .. MaxEdits
  /\ phase \in {"idle", "expand", "tests"}
  /\ update \in BOOLEAN /\ blessed \in BOOLEAN
  /\ root \in Roots

InstancesInv == instances \in Seq(InstanceType) /\ (~Running => instances = <<>>)

StatusInv ==
  phase = "tests" => /\ status \in [DOMAIN instances -> Statuses]
                     /\ todo \in [DOMAIN instances -> StreamNames]

ShapeInv == ScalarsInv /\ InstancesInv /\ StatusInv

\* Only an instance that ran looks at goldens, under --update only a clean one.
LooksInv ==
  phase = "tests" =>
    \A i \in DOMAIN instances :
      /\ status[i] = "idle" => todo[i] = <<>>
      /\ update /\ todo[i] # <<>> => status[i] # "failed"

\* The texts on the heap: the tests' own, as they were parsed, then one for each
\* instance, which nothing else refers to.
HeapInv ==
  Running =>
    /\ ValidSuite
    /\ heap \in Seq(Texts)
    /\ Len(heap) = Len(suite) + Len(instances)
    /\ \A t \in DOMAIN suite : heap[t] = suite[t].text
    /\ \A i \in DOMAIN instances :
         LET t == suite[instances[i].test]
         IN /\ instances[i].ref = Len(suite) + i
            /\ heap[Len(suite) + i] = Substitute(t.text, t.matrix, instances[i].assignments)

MatrixOf(t) == suite[t].matrix
VectorAt(i) == VectorOf(MatrixOf(instances[i].test), instances[i].assignments)

\* The vectors of which test t has an instance.
Made(t) == {VectorAt(i) : i \in {k \in DOMAIN instances : instances[k].test = t}}

\* The odometer shows the next vector: those before it have been made, or all.  The
\* tests before the current one are complete.
OdometerInv ==
  Running =>
    /\ indices \in Vectors(MatrixOf(Current))
    /\ \A i \in DOMAIN instances :
         /\ VectorAt(i) \in Vectors(MatrixOf(instances[i].test))
         /\ instances[i].assignments = Assignments(MatrixOf(instances[i].test), VectorAt(i))
    /\ counter = Cardinality(Made(Current))
    /\ \/ Made(Current) = Vectors(MatrixOf(Current))
       \/ Made(Current) = {v \in Vectors(MatrixOf(Current)) :
                             Before(MatrixOf(Current), v, indices)}
    /\ \A t \in 1 .. (Current - 1) : Made(t) = Vectors(MatrixOf(t))
    /\ phase = "tests" => Current = Len(suite) /\ Made(Current) = Vectors(MatrixOf(Current))

\* The instances are in the order of nested loops.
OrderInv ==
  Running =>
    /\ \A i \in DOMAIN instances : instances[i].test <= Current
    /\ \A i, j \in DOMAIN instances : i < j =>
         \/ instances[i].test < instances[j].test
         \/ /\ instances[i].test = instances[j].test
            /\ Before(MatrixOf(instances[i].test), VectorAt(i), VectorAt(j))

IInv == ShapeInv /\ LooksInv /\ HeapInv /\ OdometerInv /\ OrderInv

LEMMA SequenceShape ==
  ASSUME NEW S, NEW s \in Seq(S)
  PROVE  /\ Len(s) \in Nat /\ DOMAIN s = 1 .. Len(s) /\ \A i \in DOMAIN s : s[i] \in S
         /\ s # <<>> => Len(s) >= 1
<1>1. Len(s) \in Nat /\ DOMAIN s = 1 .. Len(s) /\ \A i \in DOMAIN s : s[i] \in S
  OBVIOUS
<1>2. s # <<>> => Len(s) >= 1
  OBVIOUS
<1> QED
  BY <1>1, <1>2

\* What UnmarshalMatrix makes of a matrix of pieces is one.
LEMMA MatrixIsRead ==
  ASSUME NEW written \in Matrices,
         \A v \in ToSet(written) : \A item \in ToSet(v.values) : MatrixValueText(item) \in STRING \X STRING
  PROVE  UnmarshalMatrix(written) \in Matrices
<1> DEFINE variables == [name : STRING, values : Texts]
           piece     == STRING \X STRING
<1>1. Len(written) \in Nat /\ DOMAIN written = 1 .. Len(written)
  BY DEF Matrices
<1>2. ASSUME NEW j \in DOMAIN written PROVE UnmarshalMatrix(written)[j] \in variables
  <2>1. written[j] \in variables /\ written[j] \in ToSet(written)
    <3>1. written \in Seq(variables)
      BY DEF Matrices
    <3> HIDE DEF variables
    <3>2. written[j] \in variables
      BY <3>1
    <3> QED
      BY <3>2 DEF ToSet
  <2> DEFINE list  == written[j].values
             texts == [i \in DOMAIN list |-> MatrixValueText(list[i])]
  <2>2. list \in Texts /\ written[j].name \in STRING
    BY <2>1
  <2>3. Len(list) \in Nat /\ DOMAIN list = 1 .. Len(list)
        /\ \A i \in DOMAIN list : list[i] \in STRING \X STRING
    BY <2>2, Pieces
  <2>4. ASSUME NEW i \in DOMAIN list PROVE texts[i] \in piece
    <3>1. list[i] \in ToSet(list)
      BY DEF ToSet
    <3> QED
      BY <2>1, <3>1
  <2>5. texts \in Seq(piece)
    <3> HIDE DEF piece, list
    <3> QED
      BY <2>3, <2>4
  <2>6. UnmarshalMatrix(written)[j] = [name |-> written[j].name, values |-> texts]
    BY DEF UnmarshalMatrix
  <2> QED
    BY <2>2, <2>5, <2>6 DEF Texts
<1>3. UnmarshalMatrix(written) \in Seq(variables)
  <2> HIDE DEF variables
  <2>1. UnmarshalMatrix(written) = [j \in 1 .. Len(written) |-> UnmarshalMatrix(written)[j]]
    BY <1>1 DEF UnmarshalMatrix
  <2> QED
    BY <1>1, <1>2, <2>1
<1> QED
  BY <1>3 DEF Matrices

\* What ParseFile makes of a file is a sequence of tests, not an empty one.
LEMMA SuitesAreTests == Suites \subseteq Seq(Tests) \ {<<>>}
<1> SUFFICES ASSUME NEW s \in Written
             PROVE  [t \in DOMAIN s |-> [s[t] EXCEPT !.matrix = UnmarshalMatrix(@)]]
                      \in Seq(Tests) \ {<<>>}
  BY DEF Suites
<1>1. s \in Seq(Tests) /\ s # <<>>
  BY ConstantsAssumption
<1>2. /\ Len(s) \in Nat /\ Len(s) >= 1 /\ DOMAIN s = 1 .. Len(s)
      /\ \A t \in DOMAIN s : s[t] \in Tests
  BY <1>1, SequenceShape
<1> DEFINE result == [t \in DOMAIN s |-> [s[t] EXCEPT !.matrix = UnmarshalMatrix(@)]]
<1>3. ASSUME NEW t \in DOMAIN s PROVE result[t] \in Tests
  <2>1. s[t] \in Tests /\ s[t] \in ToSet(s)
    BY <1>2 DEF ToSet
  <2>2. s[t].matrix \in Matrices
    BY <2>1 DEF Tests
  <2>3. \A v \in ToSet(s[t].matrix) : \A item \in ToSet(v.values) : MatrixValueText(item) \in STRING \X STRING
    BY <2>1, ConstantsAssumption
  <2>4. UnmarshalMatrix(s[t].matrix) \in Matrices
    BY <2>2, <2>3, MatrixIsRead
  <2> HIDE DEF result
  <2>5. [s[t] EXCEPT !.matrix = UnmarshalMatrix(s[t].matrix)] \in Tests
    BY <2>1, <2>4 DEF Tests
  <2> QED
    BY <2>5 DEF Tests, result
<1>4. result \in Seq(Tests)
  <2> HIDE DEF result
  <2>1. result = [t \in 1 .. Len(s) |-> result[t]]
    BY <1>2 DEF result
  <2> QED
    BY <1>2, <1>3, <2>1
<1>5. result # <<>>
  BY <1>2
<1> QED
  BY <1>4, <1>5

\* The shape of a suite.
LEMMA SuiteShape ==
  ASSUME NEW s \in Suites
  PROVE  /\ Len(s) \in Nat /\ Len(s) >= 1 /\ DOMAIN s = 1 .. Len(s)
         /\ \A t \in DOMAIN s :
              /\ s[t].matrix \in Matrices /\ s[t].text \in Texts
              /\ s[t].streams \in StreamNames
              /\ s[t] \in ToSet(s)
<1>1. s \in Seq(Tests) /\ s # <<>>
  BY SuitesAreTests
<1>2. /\ Len(s) \in Nat /\ Len(s) >= 1 /\ DOMAIN s = 1 .. Len(s)
      /\ \A t \in DOMAIN s : s[t] \in Tests
  <2> HIDE DEF Tests
  <2> QED
    BY <1>1
<1>3. ASSUME NEW t \in DOMAIN s
      PROVE  /\ s[t].matrix \in Matrices /\ s[t].text \in Texts
             /\ s[t].streams \in StreamNames
             /\ s[t] \in ToSet(s)
  <2>1. s[t] \in Tests
    BY <1>2
  <2>2. s[t].matrix \in Matrices /\ s[t].text \in Texts
    BY <2>1 DEF Tests
  <2>3. s[t].streams \in StreamNames
    <3>1. s[t].streams \in {<<>>, <<"stdout">>, <<"stderr">>, <<"stdout", "stderr">>}
      BY <2>1 DEF Tests
    <3> DEFINE names == {"stdout", "stderr"}
    <3>2. "stdout" \in names /\ "stderr" \in names
      OBVIOUS
    <3> HIDE DEF names
    <3>3. /\ <<>> \in Seq(names) /\ <<"stdout">> \in Seq(names)
          /\ <<"stderr">> \in Seq(names) /\ <<"stdout", "stderr">> \in Seq(names)
      BY <3>2
    <3>4. s[t].streams \in Seq(names)
      BY <3>1, <3>3
    <3> QED
      BY <3>4 DEF names, StreamNames
  <2>4. s[t] \in ToSet(s)
    BY DEF ToSet
  <2> QED
    BY <2>2, <2>3, <2>4
<1> QED
  BY <1>2, <1>3

LEMMA SubstituteGivesText ==
  ASSUME NEW text \in Texts, NEW matrix \in Matrices,
         NEW a \in Texts, DOMAIN a = DOMAIN matrix
  PROVE  Substitute(text, matrix, a) \in Texts
<1> DEFINE to == Substitute(text, matrix, a)
<1>1. Len(text) \in Nat /\ DOMAIN text = 1 .. Len(text)
  BY Pieces
<1>2. ASSUME NEW i \in DOMAIN text PROVE to[i] \in STRING \X STRING
  <2>1. CASE text[i][1] = "matrix" /\ text[i][2] \in Declared(matrix)
    <3>1. \E j \in DOMAIN matrix : matrix[j].name = text[i][2]
      BY <2>1 DEF Declared, ToSet
    <3>2. PICK j \in DOMAIN matrix : to[i] = a[j]
      BY <2>1, <3>1 DEF Substitute
    <3> QED
      BY <3>2, Pieces
  <2>2. CASE ~(text[i][1] = "matrix" /\ text[i][2] \in Declared(matrix))
    BY <2>2, Pieces DEF Substitute
  <2> QED
    BY <2>1, <2>2
<1>3. DOMAIN to = 1 .. Len(text) /\ to = [i \in 1 .. Len(text) |-> to[i]]
  BY <1>1 DEF Substitute
<1> HIDE DEF to
<1>4. to \in Seq(STRING \X STRING)
  BY <1>1, <1>2, <1>3
<1> QED
  BY <1>4 DEF Texts, to

\* What the invariant says of the test being expanded.
LEMMA CurrentIsATest ==
  ASSUME IInv, Running
  PROVE  /\ Len(suite) \in Nat /\ Len(suite) >= 1 /\ DOMAIN suite = 1 .. Len(suite)
         /\ Current \in DOMAIN suite /\ Expanding \in {Current, Current + 1}
         /\ Len(instances) \in Nat /\ DOMAIN instances = 1 .. Len(instances)
         /\ \A i \in DOMAIN instances :
              instances[i] \in InstanceType /\ instances[i].test \in DOMAIN suite
         /\ \A t \in DOMAIN suite : MatrixOf(t) \in Matrices /\ ValidMatrix(MatrixOf(t))
<1>1. suite \in Suites /\ instances \in Seq(InstanceType) /\ ValidSuite
  BY DEF IInv, ShapeInv, ScalarsInv, InstancesInv, HeapInv
<1>2. /\ Len(suite) \in Nat /\ Len(suite) >= 1 /\ DOMAIN suite = 1 .. Len(suite)
      /\ \A t \in DOMAIN suite : MatrixOf(t) \in Matrices /\ ValidMatrix(MatrixOf(t))
  BY <1>1, SuiteShape DEF ValidSuite, MatrixOf
<1>3. /\ Len(instances) \in Nat /\ DOMAIN instances = 1 .. Len(instances)
      /\ \A i \in DOMAIN instances : instances[i] \in InstanceType
  <2> HIDE DEF InstanceType
  <2> QED
    BY <1>1
<1>4. \A i \in DOMAIN instances : instances[i].test \in DOMAIN suite
  BY <1>3 DEF InstanceType
<1>5. Current \in DOMAIN suite
  <2>1. CASE instances = <<>>
    BY <1>2, <2>1 DEF Current
  <2>2. CASE instances # <<>>
    <3>1. Len(instances) \in DOMAIN instances
      BY <1>1, <1>3, <2>2
    <3> QED
      BY <1>4, <2>2, <3>1 DEF Current
  <2> QED
    BY <2>1, <2>2
<1> QED
  BY <1>2, <1>3, <1>4, <1>5 DEF Expanding

\* All instances of a test have been made when Total of them have.
LEMMA CounterTells ==
  ASSUME IInv, Running, counter = Total(MatrixOf(Current))
  PROVE  Made(Current) = Vectors(MatrixOf(Current))
<1> DEFINE m == MatrixOf(Current)
<1>1. m \in Matrices
  BY CurrentIsATest
<1>2. IsFiniteSet(Vectors(m)) /\ counter = Cardinality(Vectors(m))
  BY <1>1, TotalCountsVectors
<1>3. counter = Cardinality(Made(Current)) /\ Made(Current) \subseteq Vectors(m)
  BY DEF IInv, OdometerInv
<1> HIDE DEF m
<1>4. Made(Current) = Vectors(m)
  BY <1>2, <1>3, FS_Subset
<1> QED
  BY <1>4 DEF m

-----------------------------------------------------------------------------
(***************************************************************************)
(* It holds initially, and every step keeps it.                            *)
(***************************************************************************)
LEMMA InitIInv == Init => IInv
<1> SUFFICES ASSUME Init PROVE IInv
  OBVIOUS
<1>1. ScalarsInv
  <2>1. 0 \in 0 .. MaxEdits
    BY ConstantsAssumption
  <2>2. root \in Roots /\ update \in BOOLEAN /\ blessed \in BOOLEAN
    BY DEF Init, Roots
  <2> QED
    BY <2>1, <2>2 DEF Init, ScalarsInv
<1>2. InstancesInv /\ StatusInv
  BY DEF Init, InstancesInv, StatusInv
<1> QED
  BY <1>1, <1>2 DEF Init, IInv, ShapeInv, LooksInv, HeapInv, OdometerInv, OrderInv, Running

\* What a step does to the suite and to its instances.
LEMMA StepKinds ==
  ASSUME IInv, [Next]_vars
  PROVE  \/ phase' = "idle" /\ instances' = <<>>
         \/ UNCHANGED <<suite, phase, heap, indices, counter, instances>>
         \/ StartRun
         \/ ExpandOne
         \/ SetUp /\ phase' = "tests"
<1>1. CASE EditSuite \/ ChangeProgram \/ DeleteGolden
  BY <1>1 DEF EditSuite, ChangeProgram, DeleteGolden, Edit, expansion, IInv, ShapeInv,
              InstancesInv, Running
<1>2. CASE SetUp
  BY <1>2 DEF SetUp, Return
<1>3. ASSUME NEW i, InstanceStep(i)
      PROVE  UNCHANGED <<suite, phase, heap, indices, counter, instances>>
  BY <1>3 DEF InstanceStep, RunInstance, Compare, KeepGolden, WriteGolden, WriteFails, AtStream,
              disk, expansion
<1>4. CASE EndRun \/ Prune \/ Kill
  BY <1>4 DEF EndRun, Prune, Kill, Return
<1>5. CASE UNCHANGED vars
  BY <1>5 DEF vars, disk, expansion
<1> QED
  BY <1>1, <1>2, <1>3, <1>4, <1>5 DEF Next

\* ExpandOne makes one instance of a valid test.
LEMMA ExpandFacts ==
  ASSUME IInv, ExpandOne
  PROVE  LET e      == Expanding
             m      == MatrixOf(e)
             at     == IF e # Current THEN FirstIndices(m) ELSE indices
             values == Assignments(m, at)
         IN /\ Running /\ UNCHANGED <<suite, phase>>
            /\ e \in DOMAIN suite /\ m \in Matrices /\ ValidMatrix(m)
            /\ at \in Vectors(m)
            /\ values \in Texts /\ values \in Combinations(m) /\ VectorOf(m, values) = at
            /\ instances' = Append(instances,
                 [test |-> e, assignments |-> values, ref |-> Len(heap) + 1])
            /\ heap' = [Append(heap, heap[e]) EXCEPT
                          ![Len(heap) + 1] = Substitute(@, m, values)]
            /\ indices' = Tick(m, at)
            /\ counter' = IF e # Current THEN 1 ELSE counter + 1
<1> DEFINE e  == Expanding
           m  == MatrixOf(e)
           at == IF e # Current THEN FirstIndices(m) ELSE indices
<1>1. /\ Running /\ UNCHANGED <<suite, phase>>
      /\ e \in DOMAIN suite /\ m \in Matrices /\ ValidMatrix(m)
  BY CurrentIsATest DEF ExpandOne, Running, disk
<1>2. at \in Vectors(m)
  BY <1>1, FirstIsAVector DEF IInv, OdometerInv
<1>3. /\ Assignments(m, at) \in Texts /\ Assignments(m, at) \in Combinations(m)
      /\ VectorOf(m, Assignments(m, at)) = at
  <2> HIDE DEF m, at
  <2> QED
    BY <1>1, <1>2, AssignmentsAtVector
<1> QED
  BY <1>1, <1>2, <1>3 DEF ExpandOne, CopyTest, MatrixOf

LEMMA StepScalars ==
  ASSUME ScalarsInv, [Next]_vars
  PROVE  ScalarsInv'
<1>1. ASSUME UNCHANGED <<suite, program, edits>>, phase' \in {"idle", "expand", "tests"},
             UNCHANGED <<update, root>>, blessed' \in BOOLEAN
      PROVE  ScalarsInv'
  BY <1>1 DEF ScalarsInv
<1>2. CASE EditSuite \/ ChangeProgram \/ DeleteGolden
  <2>1. UNCHANGED <<phase, update, root>> /\ blessed' = FALSE
    BY <1>2 DEF EditSuite, ChangeProgram, DeleteGolden, Edit, run
  <2>2. edits' \in 0 .. MaxEdits
    <3>1. edits \in 0 .. MaxEdits /\ edits < MaxEdits /\ edits' = edits + 1
      BY <1>2 DEF EditSuite, ChangeProgram, DeleteGolden, Edit, ScalarsInv
    <3> QED
      BY <3>1, ConstantsAssumption
  <2>3. suite' \in Suites
    BY <1>2 DEF EditSuite, ChangeProgram, DeleteGolden, ScalarsInv
  <2>4. program' \in {0, 1}
    <3>1. program \in {0, 1} /\ (program' = program \/ program' = 1 - program)
      BY <1>2 DEF EditSuite, ChangeProgram, DeleteGolden, ScalarsInv
    <3> QED
      BY <3>1
  <2> QED
    BY <2>1, <2>2, <2>3, <2>4 DEF ScalarsInv
<1>3. CASE StartRun
  <2>1. PICK place \in {"local", "remote"} : root' = <<place, 1 - root[2]>>
    BY <1>3 DEF StartRun
  <2>2. root[2] \in {0, 1}
    BY DEF ScalarsInv, Roots
  <2>3. 1 - root[2] \in {0, 1}
    BY <2>2
  <2>4. root' \in Roots
    BY <2>1, <2>3 DEF Roots
  <2> QED
    BY <1>3, <2>4 DEF ScalarsInv, StartRun, disk
<1>4. CASE ExpandOne
  BY <1>4 DEF ExpandOne, disk, run, ScalarsInv
<1>5. CASE SetUp \/ EndRun \/ Prune \/ Kill
  <2>1. UNCHANGED <<suite, program, edits, update, root>> /\ phase' \in {"idle", "tests"}
    BY <1>5 DEF SetUp, EndRun, Prune, Kill, Return, disk, run
  <2>2. blessed' \in BOOLEAN
    BY <1>5 DEF SetUp, EndRun, Prune, Kill, ScalarsInv
  <2> QED
    BY <2>1, <2>2 DEF ScalarsInv
<1>6. ASSUME NEW i, InstanceStep(i) PROVE ScalarsInv'
  <2>1. UNCHANGED <<disk, phase, run, blessed>>
    BY <1>6 DEF InstanceStep, RunInstance, Compare, KeepGolden, WriteGolden, WriteFails, AtStream
  <2> QED
    BY <2>1 DEF ScalarsInv, disk, run
<1>7. CASE UNCHANGED vars
  BY <1>7 DEF vars, disk, run, ScalarsInv
<1> QED
  BY <1>2, <1>3, <1>4, <1>5, <1>6, <1>7 DEF Next

LEMMA StepInstances ==
  ASSUME IInv, [Next]_vars
  PROVE  InstancesInv'
<1>0. InstancesInv
  BY DEF IInv, ShapeInv
<1>1. CASE instances' = <<>>
  BY <1>1 DEF InstancesInv
<1>2. CASE UNCHANGED <<suite, phase, instances>>
  BY <1>0, <1>2 DEF InstancesInv, InstanceType, Running
<1>3. CASE ExpandOne
  <2> DEFINE e    == Expanding
             m    == MatrixOf(e)
             at   == IF e # Current THEN FirstIndices(m) ELSE indices
             made == [test |-> e, assignments |-> Assignments(m, at), ref |-> Len(heap) + 1]
  <2>1. /\ instances' = Append(instances, made)
        /\ e \in DOMAIN suite /\ Assignments(m, at) \in Texts
        /\ Running /\ UNCHANGED <<suite, phase>>
    BY <1>3, ExpandFacts
  <2>2. Len(heap) + 1 \in Nat
    <3>1. Len(heap) = Len(suite) + Len(instances)
      BY <2>1 DEF IInv, HeapInv
    <3> QED
      BY <2>1, <3>1, CurrentIsATest
  <2> HIDE DEF e, m, at
  <2>3. made \in InstanceType
    BY <2>1, <2>2 DEF InstanceType
  <2> HIDE DEF made
  <2>4. instances' \in Seq(InstanceType)
    <3> DEFINE type == InstanceType
    <3>1. instances \in Seq(type) /\ made \in type
      BY <1>0, <2>3 DEF InstancesInv
    <3> HIDE DEF type
    <3>2. instances' \in Seq(type)
      BY <2>1, <3>1
    <3> QED
      BY <3>2 DEF type
  <2>5. Seq(InstanceType)' = Seq(InstanceType) /\ Running'
    BY <2>1 DEF InstanceType, Running
  <2> QED
    BY <2>4, <2>5 DEF InstancesInv
<1>4. CASE SetUp /\ phase' = "tests"
  BY <1>0, <1>4 DEF SetUp, Return, disk, expansion, InstancesInv, InstanceType, Running
<1> QED
  BY <1>1, <1>2, <1>3, <1>4, StepKinds DEF StartRun

LEMMA StepStatus ==
  ASSUME IInv, [Next]_vars
  PROVE  StatusInv' /\ LooksInv'
<1>0. StatusInv /\ LooksInv
  BY DEF IInv, ShapeInv
<1>1. CASE phase' # "tests"
  BY <1>1 DEF StatusInv, LooksInv
<1>2. CASE UNCHANGED <<phase, update, instances, status, todo>>
  BY <1>0, <1>2 DEF StatusInv, LooksInv
<1>3. CASE SetUp /\ phase' = "tests"
  <2>1. /\ instances' = instances
        /\ status' = [i \in DOMAIN instances |-> "idle"]
        /\ todo' = [i \in DOMAIN instances |-> <<>>]
    BY <1>3 DEF SetUp, Return, expansion
  <2>2. <<>> \in StreamNames
    BY DEF StreamNames
  <2> QED
    BY <2>1, <2>2 DEF StatusInv, LooksInv, Statuses
<1>4. ASSUME NEW i \in DOMAIN instances, InstanceStep(i) PROVE StatusInv' /\ LooksInv'
  <2>1. phase = "tests" /\ UNCHANGED <<phase, update, instances>>
    BY <1>4 DEF InstanceStep, RunInstance, Compare, KeepGolden, WriteGolden, WriteFails, AtStream,
                run, expansion
  <2>2. status \in [DOMAIN instances -> Statuses] /\ todo \in [DOMAIN instances -> StreamNames]
    BY <1>0, <2>1 DEF StatusInv
  <2>3. StreamsOf(i) \in StreamNames /\ <<>> \in StreamNames
    <3>1. instances[i].test \in DOMAIN suite
      BY <2>1, CurrentIsATest DEF Running
    <3>2. StreamsOf(i) \in StreamNames
      BY <3>1, SuiteShape DEF StreamsOf, IInv, ShapeInv, ScalarsInv
    <3> QED
      BY <3>2 DEF StreamNames
  <2>4. \A s \in StreamNames : s # <<>> => Tail(s) \in StreamNames
    <3> DEFINE names == {"stdout", "stderr"}
    <3> HIDE DEF names
    <3>1. \A s \in Seq(names) : s # <<>> => Tail(s) \in Seq(names)
      OBVIOUS
    <3> QED
      BY <3>1 DEF names, StreamNames
  <2>5. ASSUME NEW st \in Statuses, NEW streams \in StreamNames,
               status' = [status EXCEPT ![i] = st], todo' = [todo EXCEPT ![i] = streams],
               st = "idle" => streams = <<>>,
               update /\ streams # <<>> => st # "failed"
        PROVE  StatusInv' /\ LooksInv'
    BY <1>0, <2>1, <2>2, <2>5 DEF StatusInv, LooksInv
  <2>6. CASE RunInstance(i)
    <3>1. PICK clean \in BOOLEAN :
            \/ status' = [status EXCEPT ![i] = "failed"] /\ todo' = todo
            \/ /\ status' = [status EXCEPT ![i] = IF clean THEN "passed" ELSE "failed"]
               /\ todo' = [todo EXCEPT ![i] = IF update => clean THEN StreamsOf(i) ELSE <<>>]
      BY <2>6 DEF RunInstance, LooksAtGoldens
    <3>2. todo[i] = <<>>
      BY <1>0, <2>1, <2>6 DEF RunInstance, LooksInv
    <3>3. todo = [todo EXCEPT ![i] = <<>>]
      BY <2>2, <3>2
    <3> QED
      BY <2>3, <2>5, <3>1, <3>3 DEF Statuses
  <2>7. CASE AtStream(i)
    <3>1. todo[i] # <<>> /\ todo' = [todo EXCEPT ![i] = Tail(todo[i])]
      BY <2>7 DEF AtStream
    <3>2. /\ todo[i] \in StreamNames /\ Tail(todo[i]) \in StreamNames
          /\ status[i] \in Statuses /\ status[i] # "idle"
          /\ update => status[i] # "failed"
      BY <1>0, <2>1, <2>2, <2>4, <3>1 DEF LooksInv
    <3>3. status = [status EXCEPT ![i] = status[i]]
      BY <2>2
    <3>4. PICK st \in {status[i], SnapshotFailed(status[i])} : status' = [status EXCEPT ![i] = st]
      BY <1>4, <2>1, <2>7, <3>2, <3>3
         DEF InstanceStep, RunInstance, Compare, KeepGolden, WriteGolden, WriteFails
    <3>5. st \in Statuses /\ st # "idle" /\ (update => st # "failed")
      BY <3>2, <3>4 DEF SnapshotFailed, Statuses
    <3> QED
      BY <2>5, <3>1, <3>2, <3>4, <3>5
  <2> QED
    BY <1>4, <2>6, <2>7 DEF InstanceStep, Compare, KeepGolden, WriteGolden, WriteFails
<1>5. CASE EditSuite \/ ChangeProgram \/ DeleteGolden \/ ExpandOne \/ UNCHANGED vars
  <2>1. CASE ExpandOne
    BY <1>1, <2>1 DEF ExpandOne
  <2>2. CASE EditSuite \/ ChangeProgram \/ DeleteGolden \/ UNCHANGED vars
    BY <1>2, <2>2 DEF EditSuite, ChangeProgram, DeleteGolden, Edit, run, expansion, vars
  <2> QED
    BY <1>5, <2>1, <2>2
<1>6. CASE StartRun \/ EndRun \/ Prune \/ Kill
  BY <1>1, <1>6 DEF StartRun, EndRun, Prune, Kill, Return
<1> QED
  BY <1>1, <1>3, <1>4, <1>5, <1>6 DEF Next

LEMMA StepHeap ==
  ASSUME IInv, [Next]_vars
  PROVE  HeapInv'
<1>0. HeapInv
  BY DEF IInv
<1>1. CASE phase' = "idle"
  BY <1>1 DEF HeapInv, Running
<1>2. CASE UNCHANGED <<suite, phase, heap, instances>>
  BY <1>0, <1>2 DEF HeapInv, Running, ValidSuite
<1>3. CASE StartRun
  <2>1. /\ suite' = suite /\ ValidSuite /\ instances' = <<>>
        /\ heap' = [t \in DOMAIN suite |-> suite[t].text]
    BY <1>3 DEF StartRun, disk
  <2>2. /\ Len(suite) \in Nat /\ DOMAIN suite = 1 .. Len(suite)
        /\ \A t \in DOMAIN suite : suite[t].text \in Texts
    BY SuiteShape DEF IInv, ShapeInv, ScalarsInv
  <2>3. heap' \in Seq(Texts) /\ Len(heap') = Len(suite)
    <3> DEFINE texts == Texts
    <3> HIDE DEF texts
    <3>1. \A t \in 1 .. Len(suite) : suite[t].text \in texts
      BY <2>2 DEF texts
    <3>2. heap' \in Seq(texts) /\ Len(heap') = Len(suite)
      BY <2>1, <2>2, <3>1
    <3> QED
      BY <3>2 DEF texts
  <2>4. ValidSuite'
    BY <2>1 DEF ValidSuite
  <2> QED
    BY <2>1, <2>2, <2>3, <2>4 DEF HeapInv
<1>4. CASE ExpandOne
  <2> DEFINE e      == Expanding
             m      == MatrixOf(e)
             at     == IF e # Current THEN FirstIndices(m) ELSE indices
             values == Assignments(m, at)
             ref    == Len(heap) + 1
             made   == [test |-> e, assignments |-> values, ref |-> ref]
  <2>1. /\ Running /\ UNCHANGED <<suite, phase>> /\ e \in DOMAIN suite
        /\ m \in Matrices /\ values \in Texts /\ DOMAIN values = DOMAIN m
        /\ instances' = Append(instances, made)
        /\ heap' = [Append(heap, heap[e]) EXCEPT ![ref] = Substitute(@, m, values)]
    BY <1>4, ExpandFacts DEF Assignments
  <2>2. /\ Len(suite) \in Nat /\ DOMAIN suite = 1 .. Len(suite)
        /\ Len(instances) \in Nat /\ DOMAIN instances = 1 .. Len(instances)
        /\ instances \in Seq(InstanceType)
    BY <2>1, CurrentIsATest DEF IInv, ShapeInv, InstancesInv
  <2>3. /\ heap \in Seq(Texts) /\ ref = Len(suite) + Len(instances) + 1
        /\ ValidSuite
        /\ \A t \in DOMAIN suite : heap[t] = suite[t].text
        /\ \A i \in DOMAIN instances :
             LET t == suite[instances[i].test]
             IN /\ instances[i].ref = Len(suite) + i
                /\ heap[Len(suite) + i] = Substitute(t.text, t.matrix, instances[i].assignments)
    BY <1>0, <2>1, <2>2 DEF HeapInv
  <2>4. m = suite[e].matrix
    BY DEF MatrixOf
  <2> HIDE DEF e, m, at, values, ref
  <2>5. Substitute(heap[e], m, values) \in Texts
    <3>1. heap[e] \in Texts
      BY <2>1, <2>3, SuiteShape DEF IInv, ShapeInv, ScalarsInv
    <3> QED
      BY <2>1, <3>1, SubstituteGivesText
  <2> DEFINE texts == Texts
             text  == Substitute(heap[e], m, values)
  <2>6. heap \in Seq(texts) /\ text \in texts /\ ref = Len(heap) + 1
    BY <2>3, <2>5 DEF ref
  <2>7. heap' = Append(heap, text)
    <3> HIDE DEF texts, text
    <3>1. Len(heap) \in Nat /\ DOMAIN Append(heap, heap[e]) = 1 .. (Len(heap) + 1)
      BY <2>6
    <3>2. Append(heap, heap[e])[ref] = heap[e]
      BY <2>6
    <3>3. heap' = [Append(heap, heap[e]) EXCEPT ![ref] = text]
      BY <2>1, <3>2 DEF text
    <3>4. heap \in Seq(texts) /\ heap[e] \in texts
      BY <2>1, <2>3, SuiteShape DEF IInv, ShapeInv, ScalarsInv, texts
    <3>5. ASSUME NEW x \in texts
          PROVE  Append(heap, x) = [k \in 1 .. ref |-> IF k = ref THEN x ELSE heap[k]]
      <4> DEFINE longer == Append(heap, x)
      <4>1. /\ longer \in Seq(texts) /\ Len(longer) = ref /\ longer[ref] = x
            /\ \A k \in 1 .. Len(heap) : longer[k] = heap[k]
        BY <2>6, <3>4
      <4> HIDE DEF longer
      <4>2. longer = [k \in 1 .. ref |-> longer[k]]
        BY <4>1
      <4>3. \A k \in 1 .. ref : k = ref \/ k \in 1 .. Len(heap)
        BY <2>6, <3>1
      <4> QED
        BY <4>1, <4>2, <4>3 DEF longer
    <3>6. heap' = [k \in 1 .. ref |-> IF k = ref THEN text ELSE heap[k]]
      BY <3>3, <3>4, <3>5
    <3> QED
      BY <2>6, <3>5, <3>6
  <2> HIDE DEF texts, text
  <2>8. /\ heap' \in Seq(texts) /\ Len(heap') = Len(suite) + Len(instances) + 1
        /\ heap'[Len(suite) + Len(instances) + 1] = text
        /\ \A k \in 1 .. (Len(suite) + Len(instances)) : heap'[k] = heap[k]
    BY <2>2, <2>3, <2>6, <2>7
  <2> HIDE DEF made
  <2>9. /\ Len(instances') = Len(instances) + 1
        /\ DOMAIN instances' = 1 .. (Len(instances) + 1)
        /\ instances'[Len(instances) + 1] = made
        /\ \A i \in DOMAIN instances : instances'[i] = instances[i]
    BY <2>1, <2>2
  <2>10. ASSUME NEW i \in DOMAIN instances'
         PROVE  LET t == suite[instances'[i].test]
                IN /\ instances'[i].ref = Len(suite) + i
                   /\ heap'[Len(suite) + i] =
                        Substitute(t.text, t.matrix, instances'[i].assignments)
    <3>1. CASE i = Len(instances) + 1
      <4>1. made.test = e /\ made.assignments = values /\ made.ref = ref
        BY DEF made
      <4>2. text = Substitute(suite[e].text, suite[e].matrix, values)
        BY <2>1, <2>3, <2>4 DEF text
      <4>3. ref = Len(suite) + i /\ heap'[Len(suite) + i] = text
        BY <2>2, <2>3, <2>8, <3>1
      <4> QED
        BY <2>9, <3>1, <4>1, <4>2, <4>3
    <3>2. CASE i \in DOMAIN instances
      <4>1. Len(suite) + i \in 1 .. (Len(suite) + Len(instances))
        BY <2>2, <3>2
      <4> QED
        BY <2>3, <2>8, <2>9, <3>2, <4>1
    <3> QED
      BY <2>2, <2>9, <3>1, <3>2
  <2>11. \A t \in DOMAIN suite : heap'[t] = suite[t].text
    BY <2>2, <2>3, <2>8
  <2>12. ValidSuite'
    BY <2>1, <2>3 DEF ValidSuite
  <2>13. heap' \in Seq(Texts) /\ Len(heap') = Len(suite') + Len(instances')
    BY <2>1, <2>2, <2>8, <2>9 DEF texts
  <2>14. suite' = suite
    BY <2>1
  <2> HIDE DEF ref
  <2> QED
    BY <2>10, <2>11, <2>12, <2>13, <2>14 DEF HeapInv
<1>5. CASE SetUp /\ phase' = "tests"
  BY <1>0, <1>5 DEF HeapInv, SetUp, Return, disk, expansion, Running, ValidSuite
<1> QED
  BY <1>1, <1>2, <1>3, <1>4, <1>5, StepKinds

\* The vectors made do not depend on anything but the suite and the instances.
LEMMA OdometerStays ==
  ASSUME IInv, UNCHANGED <<suite, instances>>
  PROVE  /\ Current' = Current
         /\ \A t : MatrixOf(t)' = MatrixOf(t) /\ Made(t)' = Made(t)
         /\ \A i : VectorAt(i)' = VectorAt(i)
BY DEF Current, MatrixOf, Made, VectorAt

LEMMA StepOdometer ==
  ASSUME IInv, [Next]_vars
  PROVE  OdometerInv' /\ OrderInv'
<1>0. OdometerInv /\ OrderInv
  BY DEF IInv
<1>1. CASE phase' = "idle"
  BY <1>1 DEF OdometerInv, OrderInv, Running
<1>2. CASE UNCHANGED <<suite, phase, indices, counter, instances>>
  <2>1. Running' = Running /\ phase' = phase /\ suite' = suite
    BY <1>2 DEF Running
  <2> QED
    BY <1>0, <1>2, <2>1, OdometerStays DEF OdometerInv, OrderInv
<1>3. CASE StartRun
  <2>1. /\ suite' = suite /\ phase' = "expand" /\ instances' = <<>> /\ counter' = 0
        /\ indices' = FirstIndices(suite[1].matrix)
        /\ suite[1].matrix \in Matrices /\ ValidMatrix(suite[1].matrix)
    BY <1>3, SuiteShape DEF StartRun, disk, ValidSuite, IInv, ShapeInv, ScalarsInv
  <2>2. Current' = 1 /\ MatrixOf(1)' = suite[1].matrix /\ \A t : Made(t)' = {}
    BY <2>1 DEF Current, MatrixOf, Made
  <2>3. /\ indices' \in Vectors(suite[1].matrix)
        /\ {v \in Vectors(suite[1].matrix) : Before(suite[1].matrix, v, indices')} = {}
    BY <2>1, FirstIsAVector
  <2>4. counter' = Cardinality({})
    BY <2>1, FS_EmptySet
  <2> QED
    BY <2>1, <2>2, <2>3, <2>4 DEF OdometerInv, OrderInv
<1>4. CASE ExpandOne
  <2>0. PICK e, m, at, values, n, ref :
          /\ e = Expanding /\ m = MatrixOf(e)
          /\ at = IF e # Current THEN FirstIndices(m) ELSE indices
          /\ values = Assignments(m, at)
          /\ n = Len(instances) /\ ref = Len(heap) + 1
    OBVIOUS
  <2> DEFINE made   == [test |-> e, assignments |-> values, ref |-> ref]
             before == {v \in Vectors(m) : Before(m, v, at)}
  <2>1. /\ Running /\ UNCHANGED <<suite, phase>> /\ e \in DOMAIN suite
        /\ m \in Matrices /\ ValidMatrix(m) /\ at \in Vectors(m)
        /\ VectorOf(m, values) = at
        /\ instances' = Append(instances, made)
        /\ indices' = Tick(m, at)
        /\ counter' = IF e # Current THEN 1 ELSE counter + 1
    BY <1>4, <2>0, ExpandFacts
  <2>2. /\ n \in Nat /\ DOMAIN instances = 1 .. n /\ instances \in Seq(InstanceType)
        /\ \A i \in DOMAIN instances : instances[i].test \in DOMAIN suite
        /\ Len(suite) \in Nat /\ DOMAIN suite = 1 .. Len(suite)
        /\ Current \in DOMAIN suite /\ e \in {Current, Current + 1}
        /\ e # Current => counter = Total(MatrixOf(Current))
        /\ e = Current => counter # Total(MatrixOf(Current))
    <3>1. Current + 1 # Current
      BY <2>1, CurrentIsATest
    <3> QED
      BY <2>0, <2>1, <3>1, CurrentIsATest DEF IInv, ShapeInv, InstancesInv, Expanding, MatrixOf
  <2>3. phase' = "expand"
    BY <1>4 DEF ExpandOne
  <2> HIDE DEF made
  <2>4. /\ DOMAIN instances' = 1 .. (n + 1) /\ Len(instances') = n + 1 /\ instances' # <<>>
        /\ instances'[n + 1] = made /\ \A i \in DOMAIN instances : instances'[i] = instances[i]
    BY <2>1, <2>2
  <2>5. made.test = e /\ made.assignments = values
    BY DEF made
  <2>6. Current' = e
    BY <2>4, <2>5 DEF Current
  <2>7. \A t : MatrixOf(t)' = MatrixOf(t)
    BY <2>1 DEF MatrixOf
  <2>8. /\ \A i \in DOMAIN instances : VectorAt(i)' = VectorAt(i)
        /\ VectorAt(n + 1)' = at
    <3>1. MatrixOf(e)' = m
      BY <2>0, <2>7
    <3>2. VectorAt(n + 1)' = VectorOf(m, values)
      BY <2>4, <2>5, <3>1 DEF VectorAt, MatrixOf
    <3> QED
      BY <2>1, <2>4, <2>7, <3>2 DEF VectorAt, MatrixOf
  <2>9. /\ \A t : t # e => Made(t)' = Made(t)
        /\ Made(e)' = Made(e) \cup {at}
    <3> DEFINE of(t) == {k \in DOMAIN instances : instances[k].test = t}
    <3>1. ASSUME NEW t, t # e
          PROVE  {k \in DOMAIN instances' : instances'[k].test = t} = of(t)
      BY <2>2, <2>4, <2>5, <3>1
    <3>2. {k \in DOMAIN instances' : instances'[k].test = e} = of(e) \cup {n + 1}
      BY <2>2, <2>4, <2>5
    <3>3. \A t : Made(t)' =
            {VectorAt(i)' : i \in {k \in DOMAIN instances' : instances'[k].test = t}}
      BY DEF Made
    <3>4. \A t : \A i \in of(t) : VectorAt(i)' = VectorAt(i)
      BY <2>8
    <3>5. \A t : {VectorAt(i)' : i \in of(t)} = Made(t)
      BY <3>4 DEF Made
    <3> QED
      BY <2>8, <3>1, <3>2, <3>3, <3>5
  <2>10. Made(e) = before /\ counter' = Cardinality(before \cup {at})
    <3>1. CASE e # Current
      <4>1. \A i \in DOMAIN instances : instances[i].test # e
        BY <1>0, <2>1, <2>2, <3>1 DEF OrderInv
      <4>2. Made(e) = {}
        BY <4>1 DEF Made
      <4>3. before = {}
        BY <2>0, <2>1, <3>1, FirstIsAVector
      <4>4. Cardinality({at}) = 1
        BY FS_Singleton
      <4> QED
        BY <2>1, <3>1, <4>2, <4>3, <4>4
    <3>2. CASE e = Current
      <4>1. at = indices /\ m = MatrixOf(Current)
        BY <2>0, <3>2
      <4>2. Made(Current) # Vectors(m)
        BY <1>0, <2>1, <2>2, <3>2, <4>1, TotalCountsVectors DEF OdometerInv
      <4>3. Made(e) = before
        BY <1>0, <2>1, <3>2, <4>1, <4>2 DEF OdometerInv
      <4>4. IsFiniteSet(Vectors(m)) /\ before \subseteq Vectors(m) /\ at \notin before
        BY <2>1, TotalCountsVectors, BeforeIsStrict
      <4>5. counter = Cardinality(before) /\ counter' = counter + 1
        BY <1>0, <2>1, <3>2, <4>3 DEF OdometerInv
      <4> HIDE DEF before
      <4>6. IsFiniteSet(before)
        BY <4>4, FS_Subset
      <4>7. Cardinality(before \cup {at}) = Cardinality(before) + 1
        BY <4>4, <4>6, FS_AddElement
      <4> QED
        BY <4>3, <4>5, <4>7
    <3> QED
      BY <3>1, <3>2
  <2>11. /\ indices' \in Vectors(m)
         /\ \/ before \cup {at} = Vectors(m)
            \/ before \cup {at} = {v \in Vectors(m) : Before(m, v, indices')}
    BY <2>1, TickIsNext
  <2>12. ASSUME NEW i \in DOMAIN instances'
         PROVE  /\ VectorAt(i)' \in Vectors(MatrixOf(instances'[i].test))
                /\ instances'[i].assignments =
                     Assignments(MatrixOf(instances'[i].test), VectorAt(i)')
    <3>1. CASE i \in DOMAIN instances
      BY <1>0, <2>1, <2>4, <2>8, <3>1 DEF OdometerInv
    <3>2. CASE i = n + 1
      BY <2>0, <2>1, <2>4, <2>5, <2>8, <3>2
    <3> QED
      BY <2>2, <2>4, <3>1, <3>2
  <2>13. ASSUME NEW t \in 1 .. (e - 1) PROVE Made(t)' = Vectors(MatrixOf(t))
    <3>1. t # e /\ (t \in 1 .. (Current - 1) \/ (t = Current /\ e # Current))
      BY <2>2
    <3>2. Made(t) = Vectors(MatrixOf(t))
      BY <1>0, <2>1, <2>2, <3>1, CounterTells DEF OdometerInv
    <3> QED
      BY <2>9, <3>1, <3>2
  <2>14. OdometerInv'
    <3>1. Made(e)' = before \cup {at} /\ MatrixOf(e)' = m
      BY <2>0, <2>7, <2>9, <2>10
    <3> HIDE DEF before
    <3>2. counter' = Cardinality(Made(e)')
      BY <2>10, <3>1
    <3>3. Made(e)' = Vectors(m) \/ Made(e)' = {v \in Vectors(m) : Before(m, v, indices')}
      BY <2>11, <3>1
    <3> QED
      BY <2>3, <2>6, <2>7, <2>11, <2>12, <2>13, <3>1, <3>2, <3>3 DEF OdometerInv
  <2>15. OrderInv'
    <3>1. ASSUME NEW i \in DOMAIN instances' PROVE instances'[i].test <= e
      BY <1>0, <2>1, <2>2, <2>4, <2>5 DEF OrderInv
    <3>2. ASSUME NEW i \in DOMAIN instances', NEW j \in DOMAIN instances', i < j
          PROVE  \/ instances'[i].test < instances'[j].test
                 \/ /\ instances'[i].test = instances'[j].test
                    /\ Before(MatrixOf(instances'[i].test), VectorAt(i)', VectorAt(j)')
      <4>1. CASE j \in DOMAIN instances
        <5>1. i \in DOMAIN instances
          BY <2>2, <2>4, <3>2, <4>1
        <5> QED
          BY <1>0, <2>1, <2>4, <2>8, <3>2, <4>1, <5>1 DEF OrderInv
      <4>2. CASE j = n + 1
        <5>1. i \in DOMAIN instances /\ instances[i].test <= e /\ instances[i].test \in Nat
          BY <2>2, <2>4, <3>1, <3>2, <4>2
        <5>2. CASE instances[i].test = e
          <6>1. VectorAt(i) \in Made(e)
            BY <5>1, <5>2 DEF Made
          <6>2. Before(m, VectorAt(i), at)
            BY <2>10, <6>1
          <6> QED
            BY <2>0, <2>4, <2>5, <2>8, <4>2, <5>1, <5>2, <6>2
        <5>3. CASE instances[i].test # e
          BY <2>2, <2>4, <2>5, <4>2, <5>1, <5>3
        <5> QED
          BY <5>2, <5>3
      <4> QED
        BY <2>2, <2>4, <4>1, <4>2
    <3> QED
      BY <2>6, <2>7, <3>1, <3>2 DEF OrderInv
  <2> QED
    BY <2>14, <2>15
<1>5. CASE SetUp /\ phase' = "tests"
  <2>1. /\ UNCHANGED <<suite, instances, indices, counter>> /\ Running
        /\ Expanding \notin DOMAIN suite
    BY <1>5 DEF SetUp, Return, disk, expansion, Running
  <2>2. Current = Len(suite) /\ counter = Total(MatrixOf(Current))
    BY <2>1, CurrentIsATest DEF Expanding, MatrixOf
  <2>3. Made(Current) = Vectors(MatrixOf(Current))
    BY <2>1, <2>2, CounterTells
  <2>4. Current' = Len(suite') /\ suite' = suite /\ instances' = instances
    BY <2>1, <2>2, OdometerStays
  <2> QED
    BY <1>0, <2>1, <2>3, <2>4, OdometerStays DEF OdometerInv, OrderInv
<1> QED
  BY <1>1, <1>2, <1>3, <1>4, <1>5, StepKinds

LEMMA StepIInv ==
  ASSUME IInv, [Next]_vars
  PROVE  IInv'
BY StepScalars, StepInstances, StepStatus, StepHeap, StepOdometer DEF IInv, ShapeInv

-----------------------------------------------------------------------------
(***************************************************************************)
(* Theorems.                                                               *)
(***************************************************************************)
\* The inductive invariant holds in every behaviour.
THEOREM Invariance == Spec => []IInv
<1>1. IInv /\ [Next]_vars => IInv'
  BY StepIInv
<1> QED
  BY InitIInv, <1>1, PTL DEF Spec

LEMMA TypeFollows ==
  ASSUME IInv
  PROVE  TypeOK
<1>1. ScalarsInv /\ InstancesInv /\ StatusInv
  BY DEF IInv, ShapeInv
<1>2. ASSUME NEW i \in DOMAIN instances PROVE instances[i].test \in DOMAIN suite
  <2>1. Running
    BY <1>1 DEF InstancesInv
  <2> QED
    BY <2>1, CurrentIsATest
<1>3. ASSUME phase = "tests"
      PROVE  /\ DOMAIN status = DOMAIN instances /\ DOMAIN todo = DOMAIN instances
             /\ ToSet(status) \subseteq {"idle", "passed", "failed", "snapshot"}
  BY <1>1, <1>3 DEF StatusInv, Statuses, ToSet
<1> QED
  BY <1>1, <1>2, <1>3 DEF TypeOK, ScalarsInv

\* Every variable has its type, for any suites.
THEOREM TypeCorrect == Spec => []TypeOK
BY Invariance, TypeFollows, PTL

\* The vectors made, and their order, are the combinations and the order of nested
\* loops.
LEMMA VectorsAreCombinations ==
  ASSUME IInv, phase = "tests", NEW t \in DOMAIN suite
  PROVE  {instances[i].assignments : i \in {k \in DOMAIN instances : instances[k].test = t}}
           = Combinations(suite[t].matrix)
<1> DEFINE m  == suite[t].matrix
           of == {k \in DOMAIN instances : instances[k].test = t}
<1>1. Running /\ m \in Matrices /\ ValidMatrix(m) /\ m = MatrixOf(t)
  BY CurrentIsATest DEF Running, MatrixOf
<1>2. Made(t) = Vectors(m)
  <2>1. t = Current \/ t \in 1 .. (Current - 1)
    BY <1>1, CurrentIsATest DEF IInv, OdometerInv
  <2> QED
    BY <1>1, <2>1 DEF IInv, OdometerInv
<1>3. ASSUME NEW i \in of
      PROVE  VectorAt(i) \in Vectors(m) /\ instances[i].assignments = Assignments(m, VectorAt(i))
  BY <1>1 DEF IInv, OdometerInv
<1> HIDE DEF m
<1>4. ASSUME NEW i \in of PROVE instances[i].assignments \in Combinations(m)
  BY <1>1, <1>3, AssignmentsAtVector
<1>5. ASSUME NEW a \in Combinations(m) PROVE \E i \in of : instances[i].assignments = a
  <2>1. VectorOf(m, a) \in Made(t) /\ Assignments(m, VectorOf(m, a)) = a
    BY <1>1, <1>2, VectorOfCombination
  <2>2. PICK i \in of : VectorAt(i) = VectorOf(m, a)
    BY <2>1 DEF Made
  <2> QED
    BY <1>3, <2>1, <2>2
<1> QED
  BY <1>4, <1>5 DEF m

LEMMA BeforeIsVisitedBefore ==
  ASSUME NEW matrix \in Matrices, NEW v \in Vectors(matrix), NEW w \in Vectors(matrix),
         NEW a, NEW b, a = Assignments(matrix, v), b = Assignments(matrix, w),
         v = VectorOf(matrix, a), w = VectorOf(matrix, b),
         Before(matrix, v, w)
  PROVE  VisitedBefore(matrix, a, b)
<1>1. PICK j \in DOMAIN matrix : (\A i \in 1 .. (j - 1) : v[i] = w[i]) /\ v[j] < w[j]
  BY DEF Before
<1>2. \A i \in 1 .. (j - 1) : i \in DOMAIN matrix
  BY <1>1, Shapes
<1>3. \A i \in 1 .. (j - 1) : a[i] = b[i]
  BY <1>1, <1>2 DEF Assignments
<1>4. Position(matrix, j, a[j]) = v[j] /\ Position(matrix, j, b[j]) = w[j]
  BY DEF VectorOf
<1> QED
  BY <1>1, <1>3, <1>4 DEF VisitedBefore

\* Whatever the suites: when the tests run, every combination of every matrix has its
\* instance, once and in the order of nested loops, and each instance's text on the
\* heap is its test's with its own values.
THEOREM ExpansionIsTheProduct == Spec => []InstancesAreTheProduct
<1>1. ASSUME IInv PROVE InstancesAreTheProduct
  <2> SUFFICES ASSUME phase = "tests" PROVE InstancesAreTheProduct
    BY DEF InstancesAreTheProduct
  <2>1. Running
    BY DEF Running
  <2>2. ASSUME NEW i \in DOMAIN instances, NEW j \in DOMAIN instances, i < j
        PROVE  \/ instances[i].test < instances[j].test
               \/ /\ instances[i].test = instances[j].test
                  /\ VisitedBefore(suite[instances[i].test].matrix,
                                   instances[i].assignments, instances[j].assignments)
    <3>1. CASE instances[i].test < instances[j].test
      BY <3>1
    <3>2. CASE instances[i].test = instances[j].test
      <4> DEFINE m == MatrixOf(instances[i].test)
      <4>1. /\ m \in Matrices
            /\ VectorAt(i) \in Vectors(m) /\ VectorAt(j) \in Vectors(m)
            /\ instances[i].assignments = Assignments(m, VectorAt(i))
            /\ instances[j].assignments = Assignments(m, VectorAt(j))
        BY <1>1, <2>1, <3>2, CurrentIsATest DEF IInv, OdometerInv
      <4>2. Before(m, VectorAt(i), VectorAt(j))
        BY <1>1, <2>1, <2>2, <3>2, CurrentIsATest DEF IInv, OrderInv
      <4>3. /\ VectorAt(i) = VectorOf(m, instances[i].assignments)
            /\ VectorAt(j) = VectorOf(m, instances[j].assignments)
        BY <3>2 DEF VectorAt
      <4> HIDE DEF m
      <4>4. VisitedBefore(m, instances[i].assignments, instances[j].assignments)
        BY <4>1, <4>2, <4>3, BeforeIsVisitedBefore
      <4> QED
        BY <3>2, <4>4 DEF m, MatrixOf
    <3> QED
      BY <1>1, <2>1, <2>2, <3>1, <3>2 DEF IInv, OrderInv
  <2>3. ASSUME NEW i \in DOMAIN instances
        PROVE  LET t == suite[instances[i].test]
               IN heap[instances[i].ref] = Substitute(t.text, t.matrix, instances[i].assignments)
    BY <1>1, <2>1 DEF IInv, HeapInv
  <2> QED
    BY <1>1, <2>2, <2>3, VectorsAreCombinations DEF InstancesAreTheProduct
<1> QED
  BY <1>1, Invariance, PTL

\* Whatever the suites: no step of a run removes a golden that the suite expects, and
\* only its own instance rewrites it, under --update and without a failure of another
\* kind.
THEOREM FailuresDoNotTouchGoldens == Spec => FailuresKeepGoldens
<1> DEFINE Kept(file) == file \in DOMAIN goldens' /\ goldens'[file] = goldens[file]
           Own(file)  == update /\ \E i \in DOMAIN instances :
                                     /\ status[i] # "failed"
                                     /\ file \in {GoldenFileName(i, s) : s \in ToSet(todo[i])}
<1>1. ASSUME IInv, [Next]_vars, phase = "tests", NEW file \in DOMAIN goldens \cap Expected
      PROVE  Kept(file) \/ Own(file)
  <2>1. CASE UNCHANGED goldens
    BY <2>1
  <2>2. ASSUME NEW i \in DOMAIN instances, InstanceStep(i) PROVE Kept(file) \/ Own(file)
    <3>1. ASSUME AtStream(i), update, NEW content,
                 goldens' = WriteFile(GoldenFileName(i, Head(todo[i])), content)
          PROVE  Kept(file) \/ Own(file)
      <4>1. CASE file # GoldenFileName(i, Head(todo[i]))
        BY <3>1, <4>1 DEF WriteFile
      <4>2. CASE file = GoldenFileName(i, Head(todo[i]))
        <5>1. todo[i] # <<>> /\ todo[i] \in StreamNames
          BY <1>1, <3>1 DEF AtStream, IInv, ShapeInv, StatusInv
        <5>2. Head(todo[i]) \in ToSet(todo[i])
          <6>1. 1 \in DOMAIN todo[i] /\ Head(todo[i]) = todo[i][1]
            BY <5>1 DEF StreamNames
          <6> QED
            BY <6>1 DEF ToSet
        <5>3. status[i] # "failed"
          BY <1>1, <3>1, <5>1 DEF IInv, LooksInv
        <5> QED
          BY <3>1, <4>2, <5>2, <5>3
      <4> QED
        BY <4>1, <4>2
    <3> QED
      BY <2>1, <2>2, <3>1
         DEF InstanceStep, RunInstance, Compare, KeepGolden, WriteGolden, WriteFails
  <2>3. CASE Prune
    BY <2>3 DEF Prune, Restrict
  <2>4. CASE EditSuite \/ ChangeProgram \/ DeleteGolden
    BY <1>1, <2>4 DEF EditSuite, ChangeProgram, DeleteGolden, Edit
  <2> QED
    BY <1>1, <2>1, <2>2, <2>3, <2>4 DEF Next, StartRun, ExpandOne, SetUp, EndRun, Kill, vars
<1>2. IInv /\ [Next]_vars =>
        [phase = "tests" =>
           \A file \in DOMAIN goldens \cap Expected :
             \/ file \in DOMAIN goldens' /\ goldens'[file] = goldens[file]
             \/ /\ update
                /\ \E i \in DOMAIN instances :
                     /\ status[i] # "failed"
                     /\ file \in {GoldenFileName(i, s) : s \in ToSet(todo[i])}]_vars
  BY <1>1
<1> QED
  BY <1>2, Invariance, PTL DEF Spec, FailuresKeepGoldens

-----------------------------------------------------------------------------
(***************************************************************************)
(* The goldens of a green update.  What a run makes of a suite is a        *)
(* complete list of instances, and there is only one: later runs look for  *)
(* the files of that list and find what they would write.                  *)
(***************************************************************************)
VectorIn(list, i) == VectorOf(MatrixOf(list[i].test), list[i].assignments)

\* Test t with vector v is before test u with vector w.
Earlier(t, v, u, w) == t < u \/ (t = u /\ Before(MatrixOf(t), v, w))

CompleteList(list) ==
  /\ Len(list) \in Nat /\ DOMAIN list = 1 .. Len(list)
  /\ \A i \in DOMAIN list :
       /\ list[i].test \in DOMAIN suite
       /\ VectorIn(list, i) \in Vectors(MatrixOf(list[i].test))
       /\ list[i].assignments = Assignments(MatrixOf(list[i].test), VectorIn(list, i))
  /\ \A t \in DOMAIN suite : \A v \in Vectors(MatrixOf(t)) :
       \E i \in DOMAIN list : list[i].test = t /\ VectorIn(list, i) = v
  /\ \A i, j \in DOMAIN list : i < j =>
       Earlier(list[i].test, VectorIn(list, i), list[j].test, VectorIn(list, j))

LEMMA BeforeIsAsymmetric ==
  ASSUME NEW matrix \in Matrices, NEW v \in Vectors(matrix), NEW w \in Vectors(matrix),
         Before(matrix, v, w)
  PROVE  ~Before(matrix, w, v)
<1>1. PICK j \in DOMAIN matrix : (\A i \in 1 .. (j - 1) : v[i] = w[i]) /\ v[j] < w[j]
  BY DEF Before
<1>2. SUFFICES ASSUME NEW k \in DOMAIN matrix,
                      \A i \in 1 .. (k - 1) : w[i] = v[i], w[k] < v[k]
               PROVE  FALSE
  BY DEF Before
<1>3. /\ j \in Nat /\ k \in Nat /\ j >= 1 /\ k >= 1
      /\ v[j] \in Nat /\ w[j] \in Nat /\ v[k] \in Nat /\ w[k] \in Nat
  BY Shapes DEF Vectors
<1>4. ~(j < k)
  BY <1>1, <1>2, <1>3
<1>5. ~(k < j)
  BY <1>1, <1>2, <1>3
<1>6. j = k
  BY <1>3, <1>4, <1>5
<1> QED
  BY <1>1, <1>2, <1>3, <1>6

\* Where two complete lists differ first, each has the earlier instance.
LEMMA FirstDifference ==
  ASSUME suite \in Suites, NEW p, NEW q, CompleteList(p), CompleteList(q),
         NEW k \in DOMAIN p,
         \A j \in 1 .. (k - 1) :
           /\ j \in DOMAIN q
           /\ p[j].test = q[j].test /\ VectorIn(p, j) = VectorIn(q, j)
  PROVE  /\ k \in DOMAIN q
         /\ \/ p[k].test = q[k].test /\ VectorIn(p, k) = VectorIn(q, k)
            \/ Earlier(q[k].test, VectorIn(q, k), p[k].test, VectorIn(p, k))
<1>1. /\ Len(p) \in Nat /\ DOMAIN p = 1 .. Len(p) /\ Len(q) \in Nat /\ DOMAIN q = 1 .. Len(q)
      /\ p[k].test \in DOMAIN suite /\ VectorIn(p, k) \in Vectors(MatrixOf(p[k].test))
  BY DEF CompleteList
<1>2. PICK j \in DOMAIN q : q[j].test = p[k].test /\ VectorIn(q, j) = VectorIn(p, k)
  BY <1>1 DEF CompleteList
<1>3. ~(j < k)
  <2>1. SUFFICES ASSUME j < k PROVE FALSE
    OBVIOUS
  <2>2. j \in DOMAIN p /\ p[j].test = p[k].test /\ VectorIn(p, j) = VectorIn(p, k)
    BY <1>1, <1>2, <2>1
  <2>3. Earlier(p[k].test, VectorIn(p, k), p[k].test, VectorIn(p, k))
    BY <2>1, <2>2 DEF CompleteList
  <2>4. MatrixOf(p[k].test) \in Matrices /\ p[k].test \in Nat
    BY <1>1, SuiteShape DEF MatrixOf
  <2> QED
    BY <1>1, <2>3, <2>4, BeforeIsStrict DEF Earlier
<1>4. k \in DOMAIN q
  BY <1>1, <1>3
<1>5. CASE j = k
  BY <1>2, <1>4, <1>5
<1>6. CASE k < j
  <2>1. Earlier(q[k].test, VectorIn(q, k), q[j].test, VectorIn(q, j))
    BY <1>4, <1>6 DEF CompleteList
  <2> QED
    BY <1>2, <1>4, <2>1
<1> QED
  BY <1>1, <1>3, <1>4, <1>5, <1>6

LEMMA CompleteListUnique ==
  ASSUME suite \in Suites, NEW p, NEW q, CompleteList(p), CompleteList(q)
  PROVE  /\ DOMAIN p = DOMAIN q
         /\ \A i \in DOMAIN p : p[i].test = q[i].test /\ p[i].assignments = q[i].assignments
<1> DEFINE Agree(k) == /\ k \in DOMAIN p /\ k \in DOMAIN q
                       /\ p[k].test = q[k].test /\ VectorIn(p, k) = VectorIn(q, k)
           Bad      == {k \in DOMAIN p \cup DOMAIN q : ~Agree(k)}
<1>1. /\ Len(p) \in Nat /\ DOMAIN p = 1 .. Len(p)
      /\ Len(q) \in Nat /\ DOMAIN q = 1 .. Len(q)
  BY DEF CompleteList
<1>2. Bad = {}
  <2>1. SUFFICES ASSUME Bad # {} PROVE FALSE
    OBVIOUS
  <2>2. PICK k \in Bad : \A j \in Bad : k <= j
    <3>1. Bad \in SUBSET Nat
      BY <1>1
    <3> HIDE DEF Bad
    <3> QED
      BY <2>1, <3>1, NatLeast
  <2>3. \A j \in 1 .. (k - 1) : Agree(j)
    <3>1. ASSUME NEW j \in 1 .. (k - 1) PROVE Agree(j)
      <4>1. j \in DOMAIN p \cup DOMAIN q /\ j < k /\ j \in Nat /\ k \in Nat
        BY <1>1, <2>2
      <4>2. j \notin Bad
        BY <2>2, <4>1
      <4> QED
        BY <4>1, <4>2
    <3> QED
      BY <3>1
  <2>4. k \in DOMAIN p /\ k \in DOMAIN q
    BY <2>2, <2>3, FirstDifference
  <2>5. /\ Agree(k) \/ Earlier(q[k].test, VectorIn(q, k), p[k].test, VectorIn(p, k))
        /\ Agree(k) \/ Earlier(p[k].test, VectorIn(p, k), q[k].test, VectorIn(q, k))
    BY <2>3, <2>4, FirstDifference
  <2>6. /\ p[k].test \in DOMAIN suite /\ VectorIn(p, k) \in Vectors(MatrixOf(p[k].test))
        /\ q[k].test \in DOMAIN suite /\ VectorIn(q, k) \in Vectors(MatrixOf(q[k].test))
    BY <2>4 DEF CompleteList
  <2>7. p[k].test \in Nat /\ q[k].test \in Nat /\ MatrixOf(p[k].test) \in Matrices
    BY <2>6, SuiteShape DEF MatrixOf
  <2> QED
    BY <2>2, <2>5, <2>6, <2>7, BeforeIsAsymmetric DEF Earlier
<1>3. \A k \in DOMAIN p \cup DOMAIN q : Agree(k)
  BY <1>2
<1>4. ASSUME NEW i \in DOMAIN p
      PROVE  p[i].test = q[i].test /\ p[i].assignments = q[i].assignments
  <2>1. i \in DOMAIN q /\ p[i].test = q[i].test /\ VectorIn(p, i) = VectorIn(q, i)
    BY <1>3
  <2>2. p[i].assignments = Assignments(MatrixOf(p[i].test), VectorIn(p, i))
    BY DEF CompleteList
  <2>3. q[i].assignments = Assignments(MatrixOf(q[i].test), VectorIn(q, i))
    BY <2>1 DEF CompleteList
  <2> QED
    BY <2>1, <2>2, <2>3
<1>5. DOMAIN p = DOMAIN q
  BY <1>3
<1> QED
  BY <1>4, <1>5

\* The instances of a run whose tests have started.
LEMMA RunsListIsComplete ==
  ASSUME IInv, phase = "tests"
  PROVE  CompleteList(instances)
<1>1. Running
  BY DEF Running
<1>2. /\ Len(instances) \in Nat /\ DOMAIN instances = 1 .. Len(instances)
      /\ \A i \in DOMAIN instances : instances[i].test \in DOMAIN suite
  BY <1>1, CurrentIsATest
<1>3. \A i : VectorIn(instances, i) = VectorAt(i)
  BY DEF VectorIn, VectorAt
<1>4. ASSUME NEW t \in DOMAIN suite, NEW v \in Vectors(MatrixOf(t))
      PROVE  \E i \in DOMAIN instances : instances[i].test = t /\ VectorAt(i) = v
  <2>1. t = Current \/ t \in 1 .. (Current - 1)
    BY <1>1, CurrentIsATest DEF IInv, OdometerInv
  <2>2. Made(t) = Vectors(MatrixOf(t))
    BY <1>1, <2>1 DEF IInv, OdometerInv
  <2> QED
    BY <2>2 DEF Made
<1>5. ASSUME NEW i \in DOMAIN instances, NEW j \in DOMAIN instances, i < j
      PROVE  Earlier(instances[i].test, VectorAt(i), instances[j].test, VectorAt(j))
  BY <1>1, <1>5 DEF IInv, OrderInv, Earlier
<1> QED
  BY <1>1, <1>2, <1>3, <1>4, <1>5 DEF CompleteList, IInv, OdometerInv

(***************************************************************************)
(* The files that a list of instances leads to, and their contents.        *)
(***************************************************************************)
StreamsIn(list, i) == ToSet(suite[list[i].test].streams)

NameIn(list, i, s) ==
  LET t == suite[list[i].test]
  IN <<i, <<Slug[t.desc], IF t.desc \in Truncated THEN <<>> ELSE list[i].assignments>>, s>>

ContentIn(list, i, s) ==
  LET t == suite[list[i].test]
  IN [root |-> <<"{tmproot}", 0>>, stream |-> s,
      text |-> Substitute(t.text, t.matrix, list[i].assignments), program |-> program]

Names(list) == UNION {{NameIn(list, i, s) : s \in StreamsIn(list, i)} : i \in DOMAIN list}

HasGolden(list, i, s) ==
  NameIn(list, i, s) \in DOMAIN goldens /\ goldens[NameIn(list, i, s)] = ContentIn(list, i, s)

GoldensOf(list) ==
  /\ DOMAIN goldens = Names(list)
  /\ \A i \in DOMAIN list : \A s \in StreamsIn(list, i) : HasGolden(list, i, s)

StreamsInv ==
  phase = "tests" => \A i \in DOMAIN instances : ToSet(todo[i]) \subseteq StreamsIn(instances, i)

\* Under --update a clean instance has the goldens of the streams it is done with.
UpdateInv ==
  phase = "tests" /\ update =>
    \A i \in DOMAIN instances : status[i] = "passed" =>
      \A s \in StreamsIn(instances, i) : s \in ToSet(todo[i]) \/ HasGolden(instances, i, s)

BlessedInv == blessed => ValidSuite /\ \E list : CompleteList(list) /\ GoldensOf(list)

LEMMA HeadAndTail ==
  ASSUME NEW q \in StreamNames, q # <<>>
  PROVE  ToSet(q) = {Head(q)} \cup ToSet(Tail(q)) /\ Head(q) = q[1]
<1>1. /\ Len(q) \in Nat /\ Len(q) >= 1 /\ DOMAIN q = 1 .. Len(q)
      /\ Head(q) = q[1] /\ DOMAIN Tail(q) = 1 .. (Len(q) - 1)
      /\ \A k \in 1 .. (Len(q) - 1) : Tail(q)[k] = q[k + 1]
  <2> DEFINE names == {"stdout", "stderr"}
  <2> HIDE DEF names
  <2>1. q \in Seq(names)
    BY DEF StreamNames, names
  <2> QED
    BY <2>1
<1>2. \A k \in 1 .. Len(q) : k = 1 \/ k - 1 \in 1 .. (Len(q) - 1)
  BY <1>1
<1>3. ToSet(q) \subseteq {Head(q)} \cup ToSet(Tail(q))
  <2>1. SUFFICES ASSUME NEW k \in 1 .. Len(q) PROVE q[k] \in {Head(q)} \cup ToSet(Tail(q))
    BY <1>1 DEF ToSet
  <2>2. CASE k = 1
    BY <1>1, <2>2
  <2>3. CASE k - 1 \in 1 .. (Len(q) - 1)
    <3>1. Tail(q)[k - 1] = q[k]
      BY <1>1, <2>3
    <3> QED
      BY <1>1, <2>3, <3>1 DEF ToSet
  <2> QED
    BY <1>2, <2>2, <2>3
<1>4. ToSet(Tail(q)) \subseteq ToSet(q)
  <2>1. SUFFICES ASSUME NEW k \in 1 .. (Len(q) - 1) PROVE Tail(q)[k] \in ToSet(q)
    BY <1>1 DEF ToSet
  <2>2. k + 1 \in DOMAIN q /\ Tail(q)[k] = q[k + 1]
    BY <1>1
  <2> QED
    BY <2>2 DEF ToSet
<1>5. Head(q) \in ToSet(q)
  BY <1>1 DEF ToSet
<1> QED
  BY <1>1, <1>3, <1>4, <1>5

\* Here or on a remote host, the directory a run's output speaks of is one that
\* applySnapshot knows.
LEMMA RootIsKnown == ScalarsInv => root \in Bases
BY DEF ScalarsInv, Roots, Bases

\* The names and contents of the model are those of the run's list of instances.
LEMMA RunsNames ==
  ASSUME IInv, phase = "tests"
  PROVE  /\ Expected = Names(instances)
         /\ \A i \in DOMAIN instances :
              /\ ToSet(StreamsOf(i)) = StreamsIn(instances, i)
              /\ \A s : /\ GoldenFileName(i, s) = NameIn(instances, i, s)
                        /\ NormalizeSnapshotText(Output(i, s)) = ContentIn(instances, i, s)
<1>1. ASSUME NEW i \in DOMAIN instances, NEW s
      PROVE  NormalizeSnapshotText(Output(i, s)) = ContentIn(instances, i, s)
  <2> DEFINE text == Substitute(suite[instances[i].test].text, suite[instances[i].test].matrix,
                                instances[i].assignments)
  <2>1. heap[instances[i].ref] = text
    BY DEF IInv, HeapInv, Running
  <2> HIDE DEF text
  <2>3. root \in Bases
    BY RootIsKnown DEF IInv, ShapeInv
  <2>2. NormalizeSnapshotText(Output(i, s)) =
          [root |-> <<"{tmproot}", 0>>, stream |-> s, text |-> text, program |-> program]
    <3>1. ASSUME NEW r, NEW t, NEW p, NEW z, NEW o,
                 o = [root |-> r, stream |-> s, text |-> t, program |-> p]
          PROVE  [o EXCEPT !.root = z] = [root |-> z, stream |-> s, text |-> t, program |-> p]
      BY <3>1
    <3>2. Output(i, s) = [root |-> root, stream |-> s, text |-> text, program |-> program]
      BY <2>1 DEF Output
    <3> DEFINE out == Output(i, s)
               z   == <<"{tmproot}", 0>>
    <3> HIDE DEF out, z
    <3>3. [out EXCEPT !.root = z] =
            [root |-> z, stream |-> s, text |-> text, program |-> program]
      BY <3>1, <3>2 DEF out
    <3>4. Output(i, s).root \in Bases
      BY <2>3, <3>2
    <3> QED
      BY <3>3, <3>4 DEF NormalizeSnapshotText, out, z
  <2> QED
    BY <2>2 DEF ContentIn, text
<1>2. \A i \in DOMAIN instances : ToSet(StreamsOf(i)) = StreamsIn(instances, i)
  BY DEF StreamsOf, StreamsIn
<1>3. \A i, s : GoldenFileName(i, s) = NameIn(instances, i, s)
  BY DEF GoldenFileName, SlugOf, NameIn
<1>4. Expected = Names(instances)
  BY <1>2, <1>3 DEF Expected, Names
<1> QED
  BY <1>1, <1>2, <1>3, <1>4

\* Complete lists lead to the same files.
LEMMA SameFiles ==
  ASSUME suite \in Suites, NEW p, NEW q, CompleteList(p), CompleteList(q), GoldensOf(p)
  PROVE  GoldensOf(q)
<1>1. /\ DOMAIN p = DOMAIN q
      /\ \A i \in DOMAIN p : p[i].test = q[i].test /\ p[i].assignments = q[i].assignments
  BY CompleteListUnique
<1>2. \A i \in DOMAIN p :
        /\ StreamsIn(p, i) = StreamsIn(q, i)
        /\ \A s : NameIn(p, i, s) = NameIn(q, i, s) /\ ContentIn(p, i, s) = ContentIn(q, i, s)
  BY <1>1 DEF StreamsIn, NameIn, ContentIn
<1>3. Names(p) = Names(q)
  BY <1>1, <1>2 DEF Names
<1> QED
  BY <1>1, <1>2, <1>3 DEF GoldensOf, HasGolden

\* While the suite's goldens are those of an earlier green update, every instance
\* finds what it would write.
LEMMA BlessedRun ==
  ASSUME IInv, BlessedInv, blessed, phase = "tests"
  PROVE  GoldensOf(instances) /\ CompleteList(instances)
<1>1. PICK list : CompleteList(list) /\ GoldensOf(list)
  BY DEF BlessedInv
<1> QED
  BY <1>1, RunsListIsComplete, SameFiles DEF IInv, ShapeInv, ScalarsInv

LEMMA StepStreams ==
  ASSUME IInv, StreamsInv, [Next]_vars
  PROVE  StreamsInv'
<1>1. CASE phase' # "tests"
  BY <1>1 DEF StreamsInv
<1>2. CASE UNCHANGED <<suite, phase, instances, todo>>
  BY <1>2 DEF StreamsInv, StreamsIn
<1>3. CASE SetUp /\ phase' = "tests"
  <2>1. ToSet(<<>>) = {}
    BY DEF ToSet
  <2> QED
    BY <1>3, <2>1 DEF SetUp, Return, expansion, StreamsInv
<1>4. ASSUME NEW i \in DOMAIN instances, InstanceStep(i) PROVE StreamsInv'
  <2>1. phase = "tests" /\ UNCHANGED <<suite, phase, instances>>
    BY <1>4 DEF InstanceStep, RunInstance, Compare, KeepGolden, WriteGolden, WriteFails, AtStream,
                disk, expansion
  <2>2. /\ todo \in [DOMAIN instances -> StreamNames]
        /\ ToSet(StreamsOf(i)) = StreamsIn(instances, i)
        /\ \A k : StreamsIn(instances, k)' = StreamsIn(instances, k)
    BY <2>1, RunsNames DEF IInv, ShapeInv, StatusInv, StreamsIn
  <2>3. ASSUME NEW streams, todo' = [todo EXCEPT ![i] = streams],
               ToSet(streams) \subseteq StreamsIn(instances, i)
        PROVE  StreamsInv'
    BY <2>1, <2>2, <2>3 DEF StreamsInv
  <2>4. CASE RunInstance(i)
    <3>1. ToSet(<<>>) = {}
      BY DEF ToSet
    <3>2. todo' = todo \/ \E streams \in {<<>>, StreamsOf(i)} : todo' = [todo EXCEPT ![i] = streams]
      BY <2>4 DEF RunInstance
    <3> QED
      BY <1>2, <2>1, <2>2, <2>3, <3>1, <3>2
  <2>5. CASE AtStream(i)
    <3>1. todo[i] # <<>> /\ todo[i] \in StreamNames /\ todo' = [todo EXCEPT ![i] = Tail(todo[i])]
      BY <2>2, <2>5 DEF AtStream
    <3>2. ToSet(Tail(todo[i])) \subseteq StreamsIn(instances, i)
      BY <2>1, <3>1, HeadAndTail DEF StreamsInv
    <3> QED
      BY <2>3, <3>1, <3>2
  <2> QED
    BY <1>4, <2>4, <2>5 DEF InstanceStep, Compare, KeepGolden, WriteGolden, WriteFails
<1>5. CASE EditSuite \/ ChangeProgram \/ DeleteGolden
  <2>1. phase' # "tests"
    BY <1>5 DEF EditSuite, ChangeProgram, DeleteGolden, Edit
  <2> QED
    BY <1>1, <2>1
<1>6. CASE StartRun \/ ExpandOne \/ EndRun \/ Prune \/ Kill
  BY <1>1, <1>6 DEF StartRun, ExpandOne, EndRun, Prune, Kill, Return
<1>7. CASE UNCHANGED vars
  BY <1>2, <1>7 DEF vars, disk, expansion
<1> QED
  BY <1>1, <1>3, <1>4, <1>5, <1>6, <1>7 DEF Next

LEMMA StepUpdate ==
  ASSUME IInv, StreamsInv, UpdateInv, [Next]_vars
  PROVE  UpdateInv'
<1>1. CASE phase' # "tests"
  BY <1>1 DEF UpdateInv
<1>2. CASE UNCHANGED <<suite, program, phase, update, instances, status, todo, goldens>>
  BY <1>2 DEF UpdateInv, StreamsIn, HasGolden, NameIn, ContentIn
<1>3. CASE SetUp /\ phase' = "tests"
  BY <1>3 DEF SetUp, Return, expansion, UpdateInv
<1>4. ASSUME NEW i \in DOMAIN instances, InstanceStep(i), update PROVE UpdateInv'
  <2>1. phase = "tests" /\ UNCHANGED <<suite, program, phase, update, instances>>
    BY <1>4 DEF InstanceStep, RunInstance, Compare, KeepGolden, WriteGolden, WriteFails, AtStream,
                disk, run, expansion
  <2>2. /\ status \in [DOMAIN instances -> Statuses] /\ todo \in [DOMAIN instances -> StreamNames]
        /\ ToSet(StreamsOf(i)) = StreamsIn(instances, i)
        /\ \A s : /\ GoldenFileName(i, s) = NameIn(instances, i, s)
                  /\ NormalizeSnapshotText(Output(i, s)) = ContentIn(instances, i, s)
    BY <2>1, RunsNames DEF IInv, ShapeInv, StatusInv
  <2>3. \A k, s : /\ StreamsIn(instances, k)' = StreamsIn(instances, k)
                  /\ NameIn(instances, k, s)' = NameIn(instances, k, s)
                  /\ ContentIn(instances, k, s)' = ContentIn(instances, k, s)
    BY <2>1 DEF StreamsIn, NameIn, ContentIn
  <2>4. \A k, s, r : NameIn(instances, k, s) = NameIn(instances, i, r) => k = i /\ s = r
    BY DEF NameIn
  <2>5. SUFFICES ASSUME NEW k \in DOMAIN instances, status'[k] = "passed",
                        NEW s \in StreamsIn(instances, k)
                 PROVE  s \in ToSet(todo'[k]) \/ HasGolden(instances, k, s)'
    BY <2>1, <2>3 DEF UpdateInv
  <2> DEFINE Has == /\ NameIn(instances, k, s) \in DOMAIN goldens'
                    /\ goldens'[NameIn(instances, k, s)] = ContentIn(instances, k, s)
  <2>6. Has <=> HasGolden(instances, k, s)'
    BY <2>1, <2>3 DEF HasGolden
  <2>7. CASE status[k] = "passed" /\ s \notin ToSet(todo[k])
    <3>1. HasGolden(instances, k, s)
      BY <1>4, <2>1, <2>7 DEF UpdateInv
    <3>2. CASE UNCHANGED goldens
      BY <2>6, <3>1, <3>2 DEF HasGolden
    <3>3. ASSUME NEW r, NEW content, goldens' = WriteFile(NameIn(instances, i, r), content),
                 s # r \/ k # i
          PROVE  Has
      BY <2>4, <3>1, <3>3 DEF WriteFile, HasGolden
    <3>4. CASE WriteGolden(i) \/ WriteFails(i)
      <4>1. todo[i] # <<>> /\ Head(todo[i]) \in ToSet(todo[i])
        BY <2>2, <3>4, HeadAndTail DEF WriteGolden, WriteFails, AtStream
      <4>2. s # Head(todo[i]) \/ k # i
        BY <2>7, <4>1
      <4>3. \/ UNCHANGED goldens
            \/ \E content : goldens' = WriteFile(NameIn(instances, i, Head(todo[i])), content)
        BY <2>2, <3>4 DEF WriteGolden, WriteFails
      <4> QED
        BY <2>6, <3>2, <3>3, <4>2, <4>3
    <3> QED
      BY <1>4, <3>2, <3>4 DEF InstanceStep, RunInstance, Compare, KeepGolden
  <2>8. CASE status[k] = "passed" /\ s \in ToSet(todo[k])
    <3>1. CASE k # i
      <4>1. todo'[k] = todo[k]
        BY <1>4, <2>2, <3>1 DEF InstanceStep, RunInstance, Compare, KeepGolden, WriteGolden,
                                WriteFails, AtStream
      <4> QED
        BY <2>8, <4>1
    <3>2. CASE k = i
      <4>1. AtStream(i) /\ ~Compare(i) /\ ~RunInstance(i)
        BY <1>4, <2>2, <2>8, <3>2 DEF InstanceStep, RunInstance, Compare, KeepGolden, WriteGolden,
                                      WriteFails
      <4>2. /\ todo[i] # <<>> /\ todo'[i] = Tail(todo[i])
            /\ ToSet(todo[i]) = {Head(todo[i])} \cup ToSet(Tail(todo[i]))
        BY <2>2, <4>1, HeadAndTail DEF AtStream
      <4>3. s \in ToSet(todo'[k]) \/ s = Head(todo[i])
        BY <2>8, <3>2, <4>2
      <4>4. CASE KeepGolden(i) /\ s = Head(todo[i])
        BY <2>2, <2>6, <3>2, <4>4 DEF KeepGolden, Same
      <4>5. CASE WriteGolden(i) /\ s = Head(todo[i])
        BY <2>2, <2>6, <3>2, <4>5 DEF WriteGolden, WriteFile
      <4>6. ~WriteFails(i)
        <5>1. SUFFICES ASSUME WriteFails(i) PROVE FALSE
          OBVIOUS
        <5>2. status'[i] = SnapshotFailed(status[i])
          BY <2>2, <5>1 DEF WriteFails
        <5> QED
          BY <2>5, <3>2, <5>2 DEF SnapshotFailed
      <4> QED
        BY <1>4, <4>1, <4>3, <4>4, <4>5, <4>6 DEF InstanceStep
    <3> QED
      BY <3>1, <3>2
  <2>9. CASE status[k] # "passed"
    <3>1. k = i /\ RunInstance(i)
      <4>1. SUFFICES ASSUME k # i \/ ~RunInstance(i) PROVE FALSE
        OBVIOUS
      <4>2. CASE k # i
        <5>1. status'[k] = status[k]
          BY <1>4, <2>2, <4>2 DEF InstanceStep, RunInstance, Compare, KeepGolden, WriteGolden,
                                  WriteFails
        <5> QED
          BY <2>5, <2>9, <5>1
      <4>3. CASE k = i /\ ~RunInstance(i)
        <5>1. status'[i] = status[i] \/ status'[i] = SnapshotFailed(status[i])
          BY <1>4, <2>2, <4>3 DEF InstanceStep, Compare, KeepGolden, WriteGolden, WriteFails
        <5> QED
          BY <2>5, <2>9, <4>3, <5>1 DEF SnapshotFailed
      <4> QED
        BY <4>1, <4>2, <4>3
    <3>2. PICK clean \in BOOLEAN :
            \/ status' = [status EXCEPT ![i] = "failed"]
            \/ /\ status' = [status EXCEPT ![i] = IF clean THEN "passed" ELSE "failed"]
               /\ todo' = [todo EXCEPT ![i] = IF update => clean THEN StreamsOf(i) ELSE <<>>]
      BY <3>1 DEF RunInstance, LooksAtGoldens
    <3>3. clean /\ todo' = [todo EXCEPT ![i] = StreamsOf(i)]
      BY <2>2, <2>5, <3>1, <3>2
    <3> QED
      BY <2>2, <2>5, <3>1, <3>3
  <2> QED
    BY <2>7, <2>8, <2>9
<1>5. CASE EditSuite \/ ChangeProgram \/ DeleteGolden
  <2>1. phase' # "tests"
    BY <1>5 DEF EditSuite, ChangeProgram, DeleteGolden, Edit
  <2> QED
    BY <1>1, <2>1
<1>6. CASE StartRun \/ ExpandOne \/ EndRun \/ Prune \/ Kill
  BY <1>1, <1>6 DEF StartRun, ExpandOne, EndRun, Prune, Kill, Return
<1>7. CASE UNCHANGED vars
  BY <1>2, <1>7 DEF vars, disk, run, expansion
<1>8. ASSUME NEW i \in DOMAIN instances, InstanceStep(i), ~update PROVE UpdateInv'
  <2>1. update' = update
    BY <1>8 DEF InstanceStep, RunInstance, Compare, KeepGolden, WriteGolden, WriteFails, AtStream,
                run
  <2> QED
    BY <1>8, <2>1 DEF UpdateInv
<1> QED
  BY <1>1, <1>3, <1>4, <1>5, <1>6, <1>7, <1>8 DEF Next

\* What is said of a list depends on the suite, the program and the goldens only.
LEMMA ListsStay ==
  ASSUME UNCHANGED <<suite, program>>, NEW list
  PROVE  /\ CompleteList(list)' <=> CompleteList(list)
         /\ Names(list)' = Names(list)
         /\ \A i, s : /\ StreamsIn(list, i)' = StreamsIn(list, i)
                      /\ NameIn(list, i, s)' = NameIn(list, i, s)
                      /\ ContentIn(list, i, s)' = ContentIn(list, i, s)
         /\ ValidSuite' <=> ValidSuite
<1>1. \A t : MatrixOf(t)' = MatrixOf(t)
  BY DEF MatrixOf
<1>2. \A i : VectorIn(list, i)' = VectorIn(list, i)
  BY <1>1 DEF VectorIn
<1>3. \A t, v, u, w : Earlier(t, v, u, w)' <=> Earlier(t, v, u, w)
  BY <1>1 DEF Earlier
<1>4. CompleteList(list)' <=> CompleteList(list)
  BY <1>1, <1>2, <1>3 DEF CompleteList
<1>5. \A i, s : /\ StreamsIn(list, i)' = StreamsIn(list, i)
                /\ NameIn(list, i, s)' = NameIn(list, i, s)
                /\ ContentIn(list, i, s)' = ContentIn(list, i, s)
  BY DEF StreamsIn, NameIn, ContentIn
<1>6. Names(list)' = Names(list)
  BY <1>5 DEF Names
<1> QED
  BY <1>4, <1>5, <1>6 DEF ValidSuite

LEMMA StepBlessed ==
  ASSUME IInv, StreamsInv, UpdateInv, BlessedInv, [Next]_vars
  PROVE  BlessedInv'
<1>1. CASE ~blessed'
  BY <1>1 DEF BlessedInv
<1>2. ASSUME UNCHANGED <<suite, program>>, blessed, DOMAIN goldens' = DOMAIN goldens,
             \A file \in DOMAIN goldens : goldens'[file] = goldens[file]
      PROVE  BlessedInv'
  <2>1. PICK list : CompleteList(list) /\ GoldensOf(list)
    BY <1>2 DEF BlessedInv
  <2>2. GoldensOf(list)'
    BY <1>2, <2>1, ListsStay DEF GoldensOf, HasGolden
  <2> QED
    BY <1>2, <2>1, <2>2, ListsStay DEF BlessedInv
<1>3. CASE UNCHANGED <<suite, program, goldens, blessed>>
  BY <1>1, <1>2, <1>3
<1>4. ASSUME NEW i \in DOMAIN instances, InstanceStep(i), blessed' PROVE BlessedInv'
  <2>1. phase = "tests" /\ UNCHANGED <<suite, program, blessed>>
    BY <1>4 DEF InstanceStep, RunInstance, Compare, KeepGolden, WriteGolden, WriteFails, AtStream,
                disk
  <2>2. CASE AtStream(i)
    <3>1. todo[i] # <<>> /\ todo[i] \in StreamNames
      BY <2>1, <2>2 DEF AtStream, IInv, ShapeInv, StatusInv
    <3>2. Head(todo[i]) \in StreamsIn(instances, i)
      BY <2>1, <3>1, HeadAndTail DEF StreamsInv
    <3>3. HasGolden(instances, i, Head(todo[i]))
      BY <1>4, <2>1, <3>2, BlessedRun DEF GoldensOf
    <3>4. Same(i)
      BY <2>1, <3>3, RunsNames DEF Same, HasGolden
    <3>5. UNCHANGED goldens
      BY <1>4, <3>4 DEF InstanceStep, RunInstance, Compare, KeepGolden, WriteGolden, WriteFails
    <3> QED
      BY <1>3, <2>1, <3>5
  <2>3. CASE RunInstance(i)
    BY <1>3, <2>1, <2>3 DEF RunInstance
  <2> QED
    BY <1>4, <2>2, <2>3 DEF InstanceStep, Compare, KeepGolden, WriteGolden, WriteFails
<1>5. ASSUME Prune, blessed' PROVE BlessedInv'
  <2>1. /\ phase = "tests" /\ update /\ UNCHANGED <<suite, program>>
        /\ \A i \in DOMAIN instances : todo[i] = <<>>
        /\ Expected = Names(instances)
    BY <1>5, RunsNames DEF Prune, TestsOver, Return, disk
  <2>2. PICK kept \in {{}, DOMAIN goldens \ Expected} :
          /\ goldens' = Restrict(goldens, (DOMAIN goldens \cap Expected) \cup kept)
          /\ blessed' = IF kept = {} /\ \A i \in DOMAIN instances : status[i] = "passed"
                          THEN TRUE ELSE blessed
    BY <1>5 DEF Prune
  <2>3. CASE blessed
    <3>1. DOMAIN goldens = Expected
      BY <2>1, <2>3, BlessedRun DEF GoldensOf
    <3>2. DOMAIN goldens' = DOMAIN goldens /\ \A file \in DOMAIN goldens : goldens'[file] = goldens[file]
      BY <2>2, <3>1 DEF Restrict
    <3> QED
      BY <1>2, <2>1, <2>3, <3>2
  <2>4. CASE kept = {} /\ \A i \in DOMAIN instances : status[i] = "passed"
    <3>1. PICK list : list = instances
      OBVIOUS
    <3>2. CompleteList(list) /\ Expected = Names(list)
      BY <2>1, <3>1, RunsListIsComplete
    <3>3. ASSUME NEW i \in DOMAIN list, NEW s \in StreamsIn(list, i) PROVE HasGolden(list, i, s)
      <4>1. s \notin ToSet(todo[i])
        BY <2>1, <3>1 DEF ToSet
      <4> QED
        BY <2>1, <2>4, <3>1, <3>3, <4>1 DEF UpdateInv
    <3>4. Names(list) \subseteq DOMAIN goldens
      BY <3>3 DEF Names, HasGolden
    <3>5. /\ DOMAIN goldens' = Names(list)
          /\ \A file \in Names(list) : goldens'[file] = goldens[file]
      BY <2>2, <2>4, <3>2, <3>4 DEF Restrict
    <3>6. ASSUME NEW i \in DOMAIN list, NEW s \in StreamsIn(list, i) PROVE HasGolden(list, i, s)'
      <4>1. NameIn(list, i, s) \in Names(list)
        BY DEF Names
      <4> QED
        BY <2>1, <3>3, <3>5, <4>1, ListsStay DEF HasGolden
    <3>7. GoldensOf(list)'
      BY <2>1, <3>5, <3>6, ListsStay DEF GoldensOf
    <3>8. ValidSuite
      BY <2>1 DEF IInv, HeapInv, Running
    <3> QED
      BY <2>1, <3>2, <3>7, <3>8, ListsStay DEF BlessedInv
  <2> QED
    BY <1>5, <2>2, <2>3, <2>4
<1>6. CASE EditSuite \/ ChangeProgram \/ DeleteGolden
  BY <1>1, <1>6 DEF EditSuite, ChangeProgram, DeleteGolden, Edit
<1>7. CASE StartRun \/ ExpandOne \/ SetUp \/ EndRun \/ Kill
  BY <1>3, <1>7 DEF StartRun, ExpandOne, SetUp, EndRun, Kill, Return, disk
<1>8. CASE UNCHANGED vars
  BY <1>3, <1>8 DEF vars, disk
<1> QED
  BY <1>1, <1>4, <1>5, <1>6, <1>7, <1>8 DEF Next

(***************************************************************************)
(* Such goldens are what BlessedIsExact says.                              *)
(***************************************************************************)
GoldensComplete(list) == suite \in Suites /\ ValidSuite /\ CompleteList(list) /\ GoldensOf(list)

LEMMA ContentsAreOutputs ==
  ASSUME NEW list, GoldensComplete(list)
  PROVE  Range(goldens) = Outputs(suite)
<1>1. \A t \in DOMAIN suite : /\ MatrixOf(t) \in Matrices /\ ValidMatrix(MatrixOf(t))
                              /\ suite[t] \in ToSet(suite)
  BY SuiteShape DEF GoldensComplete, ValidSuite, MatrixOf
<1> DEFINE Out(t, s, a) == [root |-> <<"{tmproot}", 0>>, stream |-> s, program |-> program,
                            text |-> Substitute(t.text, t.matrix, a)]
<1>2. \A x : x \in Outputs(suite) <=>
        \E t \in ToSet(suite) : \E s \in ToSet(t.streams), a \in Combinations(t.matrix) :
          x = Out(t, s, a)
  <2> DEFINE Of(t) == {Out(t, s, a) : s \in ToSet(t.streams), a \in Combinations(t.matrix)}
  <2>1. Outputs(suite) = UNION {Of(t) : t \in ToSet(suite)}
    BY DEF Outputs
  <2> HIDE DEF Out
  <2> QED
    BY <2>1
<1>3. \A i, s : ContentIn(list, i, s) = Out(suite[list[i].test], s, list[i].assignments)
  BY DEF ContentIn
<1> HIDE DEF Out
<1>4. Range(goldens) \subseteq Outputs(suite)
  <2>1. SUFFICES ASSUME NEW file \in DOMAIN goldens PROVE goldens[file] \in Outputs(suite)
    BY DEF Range
  <2>2. PICK i \in DOMAIN list : \E s \in StreamsIn(list, i) : file = NameIn(list, i, s)
    BY DEF GoldensComplete, GoldensOf, Names
  <2>3. PICK s \in StreamsIn(list, i) : file = NameIn(list, i, s)
    BY <2>2
  <2>4. goldens[file] = Out(suite[list[i].test], s, list[i].assignments)
    BY <1>3, <2>3 DEF GoldensComplete, GoldensOf, HasGolden
  <2>5. /\ list[i].test \in DOMAIN suite
        /\ VectorIn(list, i) \in Vectors(MatrixOf(list[i].test))
        /\ list[i].assignments = Assignments(MatrixOf(list[i].test), VectorIn(list, i))
    BY DEF GoldensComplete, CompleteList
  <2>6. list[i].assignments \in Combinations(MatrixOf(list[i].test))
    BY <1>1, <2>5, AssignmentsAtVector
  <2> QED
    BY <1>1, <1>2, <2>4, <2>5, <2>6 DEF StreamsIn, MatrixOf
<1>5. Outputs(suite) \subseteq Range(goldens)
  <2>1. SUFFICES ASSUME NEW t \in ToSet(suite), NEW s \in ToSet(t.streams),
                        NEW a \in Combinations(t.matrix)
                 PROVE  Out(t, s, a) \in Range(goldens)
    BY <1>2
  <2>2. PICK k \in DOMAIN suite : suite[k] = t
    BY DEF ToSet
  <2>3. MatrixOf(k) = t.matrix
    BY <2>2 DEF MatrixOf
  <2>4. /\ VectorOf(MatrixOf(k), a) \in Vectors(MatrixOf(k))
        /\ Assignments(MatrixOf(k), VectorOf(MatrixOf(k), a)) = a
    BY <1>1, <2>3, VectorOfCombination
  <2>5. PICK i \in DOMAIN list : list[i].test = k /\ VectorIn(list, i) = VectorOf(MatrixOf(k), a)
    BY <2>4 DEF GoldensComplete, CompleteList
  <2>6. list[i].assignments = a
    BY <2>4, <2>5 DEF GoldensComplete, CompleteList
  <2>7. s \in StreamsIn(list, i)
    BY <2>2, <2>5 DEF StreamsIn
  <2>8. NameIn(list, i, s) \in DOMAIN goldens /\ goldens[NameIn(list, i, s)] = Out(t, s, a)
    BY <1>3, <2>2, <2>5, <2>6, <2>7 DEF GoldensComplete, GoldensOf, HasGolden
  <2> QED
    BY <2>8 DEF Range
<1> QED
  BY <1>4, <1>5

\* A test has snapshots of its two streams at most.
LEMMA StreamsOfSuite ==
  ASSUME suite \in Suites
  PROVE  \A t \in DOMAIN suite : ToSet(suite[t].streams) \subseteq {"stdout", "stderr"}
<1> SUFFICES ASSUME NEW t \in DOMAIN suite
             PROVE  ToSet(suite[t].streams) \subseteq {"stdout", "stderr"}
  OBVIOUS
<1>1. suite \in Seq(Tests)
  BY SuitesAreTests
<1>2. suite[t] \in Tests
  <2> HIDE DEF Tests
  <2> QED
    BY <1>1
<1>3. suite[t].streams \in {<<>>, <<"stdout">>, <<"stderr">>, <<"stdout", "stderr">>}
  BY <1>2 DEF Tests
<1> QED
  BY <1>3 DEF ToSet

\* The golden files are as many as the places of the suite: each is the place of
\* its test, its combination and its stream.
LEMMA FilesAreCounted ==
  ASSUME NEW list, GoldensComplete(list)
  PROVE  Cardinality(Names(list)) = Cardinality(Places(suite))
<1> DEFINE files  == Names(list)
           places == Places(suite)
           place  == [file \in files |->
                        <<list[file[1]].test, file[3], list[file[1]].assignments>>]
<1>0. \A t \in DOMAIN suite : /\ MatrixOf(t) \in Matrices /\ ValidMatrix(MatrixOf(t))
                              /\ t \in Nat
  BY SuiteShape DEF GoldensComplete, ValidSuite, MatrixOf
<1>1. ASSUME NEW file \in files
      PROVE  /\ file[1] \in DOMAIN list /\ list[file[1]].test \in DOMAIN suite
             /\ file[3] \in ToSet(suite[list[file[1]].test].streams)
             /\ file = NameIn(list, file[1], file[3])
             /\ list[file[1]].assignments \in Combinations(suite[list[file[1]].test].matrix)
  <2>1. PICK i \in DOMAIN list : \E s \in StreamsIn(list, i) : file = NameIn(list, i, s)
    BY DEF Names
  <2>2. PICK s \in StreamsIn(list, i) : file = NameIn(list, i, s)
    BY <2>1
  <2>3. file[1] = i /\ file[3] = s
    BY <2>2 DEF NameIn
  <2>4. list[i].test \in DOMAIN suite
    BY DEF GoldensComplete, CompleteList
  <2>5. list[i].assignments \in Combinations(MatrixOf(list[i].test))
    BY <1>0, <2>4, AssignmentsAtVector DEF GoldensComplete, CompleteList
  <2> QED
    BY <2>2, <2>3, <2>4, <2>5 DEF StreamsIn, MatrixOf
<1>2. ASSUME NEW i \in DOMAIN list, NEW j \in DOMAIN list,
             list[i].test = list[j].test, list[i].assignments = list[j].assignments
      PROVE  i = j
  <2>1. ASSUME NEW p \in DOMAIN list, NEW q \in DOMAIN list, p < q,
               list[p].test = list[q].test, VectorIn(list, p) = VectorIn(list, q)
        PROVE  FALSE
    <3>1. /\ Earlier(list[p].test, VectorIn(list, p), list[p].test, VectorIn(list, p))
          /\ VectorIn(list, p) \in Vectors(MatrixOf(list[p].test))
          /\ list[p].test \in DOMAIN suite
      BY <2>1 DEF GoldensComplete, CompleteList
    <3> QED
      BY <1>0, <3>1, BeforeIsStrict DEF Earlier
  <2>2. DOMAIN list = 1 .. Len(list) /\ Len(list) \in Nat
    BY DEF GoldensComplete, CompleteList
  <2>3. VectorIn(list, i) = VectorIn(list, j)
    BY <1>2 DEF VectorIn
  <2> QED
    BY <1>2, <2>1, <2>2, <2>3
<1>3. ASSUME NEW x
      PROVE  x \in places <=>
               \E t \in DOMAIN suite : \E s \in ToSet(suite[t].streams) :
                 \E a \in Combinations(suite[t].matrix) : x = <<t, s, a>>
  BY DEF Places
<1>4. place \in [files -> places]
  <2>1. ASSUME NEW file \in files PROVE place[file] \in places
    BY <1>1, <1>3
  <2> HIDE DEF files, places
  <2> QED
    BY <2>1
<1>5. \A a, b \in files : place[a] = place[b] => a = b
  <2>1. SUFFICES ASSUME NEW a \in files, NEW b \in files, place[a] = place[b] PROVE a = b
    OBVIOUS
  <2>2. /\ list[a[1]].test = list[b[1]].test /\ a[3] = b[3]
        /\ list[a[1]].assignments = list[b[1]].assignments
    BY <2>1
  <2>3. a[1] = b[1]
    BY <1>1, <1>2, <2>2
  <2> QED
    BY <1>1, <2>2, <2>3
<1>6. \A x \in places : \E file \in files : place[file] = x
  <2>1. SUFFICES ASSUME NEW t \in DOMAIN suite, NEW s \in ToSet(suite[t].streams),
                        NEW a \in Combinations(suite[t].matrix)
                 PROVE  \E file \in files : place[file] = <<t, s, a>>
    <3> HIDE DEF places, place, files
    <3> QED
      BY <1>3
  <2>2. /\ VectorOf(MatrixOf(t), a) \in Vectors(MatrixOf(t))
        /\ Assignments(MatrixOf(t), VectorOf(MatrixOf(t), a)) = a
    BY <1>0, VectorOfCombination DEF MatrixOf
  <2>3. PICK i \in DOMAIN list : list[i].test = t /\ VectorIn(list, i) = VectorOf(MatrixOf(t), a)
    BY <2>2 DEF GoldensComplete, CompleteList
  <2>4. list[i].assignments = a
    BY <2>2, <2>3 DEF GoldensComplete, CompleteList
  <2>5. NameIn(list, i, s) \in files
    BY <2>3 DEF Names, StreamsIn
  <2>6. NameIn(list, i, s)[1] = i /\ NameIn(list, i, s)[3] = s
    BY DEF NameIn
  <2> QED
    BY <2>3, <2>4, <2>5, <2>6
<1>7. ExistsBijection(files, places)
  <2> HIDE DEF files, places, place
  <2> QED
    BY <1>4, <1>5, <1>6, Fun_IsBij, Fun_ExistsBij
<1>8. IsFiniteSet(files)
  <2> DEFINE streams == {"stdout", "stderr"}
             cells   == (DOMAIN list) \X streams
             cell    == [file \in files |-> <<file[1], file[3]>>]
  <2>1. IsFiniteSet(DOMAIN list)
    BY FS_Interval DEF GoldensComplete, CompleteList
  <2>2. IsFiniteSet(streams)
    <3>1. IsFiniteSet({"stdout"})
      BY FS_Singleton
    <3>2. IsFiniteSet({"stdout"} \cup {"stderr"})
      BY <3>1, FS_AddElement
    <3>3. {"stdout"} \cup {"stderr"} = {"stdout", "stderr"}
      OBVIOUS
    <3> QED
      BY <3>2, <3>3
  <2>3. IsFiniteSet(cells)
    <3> HIDE DEF streams
    <3> QED
      BY <2>1, <2>2, FS_Product
  <2>4. ASSUME NEW file \in files PROVE cell[file] \in cells
    <3>1. file[1] \in DOMAIN list /\ file[3] \in ToSet(suite[list[file[1]].test].streams)
      BY <1>1, <2>4
    <3>2. ToSet(suite[list[file[1]].test].streams) \subseteq streams
      BY <1>1, <2>4, StreamsOfSuite DEF GoldensComplete
    <3> HIDE DEF streams, files
    <3> QED
      BY <2>4, <3>1, <3>2
  <2>5. \A a, b \in files : cell[a] = cell[b] => a = b
    BY <1>1
  <2>6. cell \in [files -> cells]
    BY <2>4
  <2> HIDE DEF files, cells, cell
  <2> QED
    BY <2>3, <2>5, <2>6, Fun_IsInj, FS_Injection
<1> QED
  BY <1>7, <1>8, FS_Bijection

\* From a green update run on, and until something changes, the goldens are those of
\* the suite's instances and streams, each with what its stream produces, one for
\* each and no other.
THEOREM GreenUpdatesAreExact == Spec => []BlessedIsExact
<1>1. Init => StreamsInv /\ UpdateInv /\ BlessedInv
  BY DEF Init, StreamsInv, UpdateInv, BlessedInv
<1>2. IInv /\ (StreamsInv /\ UpdateInv /\ BlessedInv) /\ [Next]_vars =>
        (StreamsInv /\ UpdateInv /\ BlessedInv)'
  BY StepStreams, StepUpdate, StepBlessed
<1>3. IInv /\ BlessedInv => BlessedIsExact
  <2>1. SUFFICES ASSUME IInv, BlessedInv, blessed PROVE BlessedIsExact
    BY DEF BlessedIsExact
  <2>2. PICK list : CompleteList(list) /\ GoldensOf(list)
    BY <2>1 DEF BlessedInv
  <2>3. GoldensComplete(list)
    BY <2>1, <2>2 DEF GoldensComplete, BlessedInv, IInv, ShapeInv, ScalarsInv
  <2> QED
    BY <2>2, <2>3, ContentsAreOutputs, FilesAreCounted DEF BlessedIsExact, GoldensOf
<1> QED
  BY <1>1, <1>2, <1>3, Invariance, PTL DEF Spec

================================================================================
