--------------------------- MODULE Queries_proofs ---------------------------
(***************************************************************************)
(* What queries add up, whatever transactions, rates, filters and periods  *)
(* there are: the sums of the topics, the cells of the periods, and the    *)
(* tables and charts that are made of them.                                *)
(***************************************************************************)
EXTENDS Queries, SequenceTheorems, FiniteSetTheorems, WellFoundedInduction, TLAPS

-----------------------------------------------------------------------------
(* Sums over finite sets. SumFunctionOnSet() is a fold that CHOOSE takes;  *)
(* that there is one, and one only, is shown by the size of the set, and   *)
(* everything else by induction over its parts.                            *)

(* Any set of numbers that is not empty has a least one.                   *)
LEMMA LeastNumber ==
  ASSUME NEW T, T \subseteq Nat, T # {}
  PROVE  \E i \in T : \A j \in T : i <= j
<1> DEFINE U == {0 .. i : i \in T}
           R == StrictSubsetOrdering(Nat)
<1>1. U \subseteq FiniteSubsetsOf(Nat) /\ U # {}
  <2>1. \A i \in T : 0 .. i \subseteq Nat /\ IsFiniteSet(0 .. i)
    BY FS_Interval
  <2> QED
    BY <2>1 DEF FiniteSubsetsOf
<1>2. \E x \in U : \A y \in U : ~(<<y, x>> \in R)
  <2>1. IsWellFoundedOn(R, FiniteSubsetsOf(Nat))
    BY FS_StrictSubsetOrderingWellFounded
  <2> HIDE DEF U, R
  <2> QED
    BY <1>1, <2>1, WFMin
<1>3. PICK i \in T : \A y \in U : ~(<<y, 0 .. i>> \in R)
  BY <1>2
<1>4. ASSUME NEW j \in T PROVE i <= j
  <2>1. <<0 .. j, 0 .. i>> \notin R
    BY <1>3
  <2>2. j < i => <<0 .. j, 0 .. i>> \in R
    BY DEF StrictSubsetOrdering
  <2> QED
    BY <2>1, <2>2
<1> QED
  BY <1>4

(* The element a fold takes next.                                          *)
AnyOf(s) == CHOOSE x \in s : TRUE

(* Taking an element leaves a part that is smaller by one.                 *)
LEMMA PickTakes ==
  ASSUME NEW S, IsFiniteSet(S), NEW s \in SUBSET S, s # {}
  PROVE  /\ AnyOf(s) \in s /\ s \ {AnyOf(s)} \in SUBSET S
         /\ IsFiniteSet(s) /\ Cardinality(s) \in Nat
         /\ Cardinality(s \ {AnyOf(s)}) = Cardinality(s) - 1
<1>1. AnyOf(s) \in s
  BY DEF AnyOf
<1>2. IsFiniteSet(s)
  BY FS_Subset
<1> QED
  BY <1>1, <1>2, FS_CardinalityType, FS_RemoveElement

(* One round of adding up: what a fold is a fixed point of.                *)
Round(f, it, S) ==
  [s \in SUBSET S |-> IF s = {} THEN 0 ELSE f[AnyOf(s)] + it[s \ {AnyOf(s)}]]

(* There is such a fixed point: a set with no sum would have a part of     *)
(* least size with none.                                                   *)
LEMMA FoldExists ==
  ASSUME NEW S, IsFiniteSet(S), NEW f, \A x \in S : f[x] \in Int
  PROVE  \E it \in [SUBSET S -> Int] : it = Round(f, it, S)
<1> DEFINE Good(n, g) == \A s \in SUBSET S : Cardinality(s) <= n => g[s] = Round(f, g, S)[s]
           bad == {n \in Nat : ~\E g \in [SUBSET S -> Int] : Good(n, g)}
<1>0. ASSUME NEW g \in [SUBSET S -> Int]
      PROVE  Round(f, g, S) \in [SUBSET S -> Int]
  <2>1. ASSUME NEW s \in SUBSET S, s # {} 
        PROVE  f[AnyOf(s)] + g[s \ {AnyOf(s)}] \in Int
    <3>1. AnyOf(s) \in S /\ s \ {AnyOf(s)} \in SUBSET S
      BY <2>1, PickTakes
    <3> QED
      BY <3>1
  <2> QED
    BY <2>1 DEF Round
<1>1. bad = {}
  <2> SUFFICES ASSUME bad # {} PROVE FALSE
    OBVIOUS
  <2>1. PICK n \in bad : \A m \in bad : n <= m
    <3>1. bad \subseteq Nat
      OBVIOUS
    <3> HIDE DEF bad
    <3> QED
      BY <3>1, LeastNumber
  <2>2. n # 0
    <3> DEFINE z == [s \in SUBSET S |-> 0]
    <3>1. z \in [SUBSET S -> Int]
      OBVIOUS
    <3>2. \A s \in SUBSET S : Cardinality(s) <= 0 => s = {}
      BY PickTakes, FS_EmptySet, FS_Subset, FS_CardinalityType
    <3>3. Good(0, z)
      BY <3>2 DEF Round
    <3> QED
      BY <3>1, <3>3
  <2>3. n - 1 \in Nat /\ n - 1 \notin bad
    <3>1. n \in Nat
      BY <2>1
    <3> HIDE DEF bad
    <3> QED
      BY <2>1, <2>2, <3>1
  <2>4. PICK g \in [SUBSET S -> Int] : Good(n - 1, g)
    BY <2>3
  <2> DEFINE h == Round(f, g, S)
  <2>5. ASSUME NEW s \in SUBSET S, Cardinality(s) <= n
        PROVE  h[s] = Round(f, h, S)[s]
    <3>1. CASE s = {}
      BY <3>1 DEF Round
    <3>2. CASE s # {}
      <4> DEFINE r == s \ {AnyOf(s)}
      <4>1. r \in SUBSET S /\ Cardinality(r) <= n - 1
        BY <2>1, <2>5, <3>2, PickTakes
      <4>2. h[r] = g[r]
        BY <2>4, <4>1
      <4>3. h[s] = f[AnyOf(s)] + g[r]
        BY <3>2 DEF Round
      <4>4. Round(f, h, S)[s] = f[AnyOf(s)] + h[r]
        <5> HIDE DEF h
        <5> QED
          BY <3>2 DEF Round
      <4> QED
        BY <4>2, <4>3, <4>4
    <3> QED
      BY <3>1, <3>2
  <2>6. Good(n, h) /\ h \in [SUBSET S -> Int]
    BY <1>0, <2>5
  <2> HIDE DEF h
  <2> QED
    BY <2>6
<1>2. Cardinality(S) \in Nat /\ \A s \in SUBSET S : Cardinality(s) <= Cardinality(S)
  BY FS_CardinalityType, FS_Subset
<1>3. PICK g \in [SUBSET S -> Int] : Good(Cardinality(S), g)
  BY <1>1, <1>2
<1>4. g = Round(f, g, S)
  <2>1. \A s \in SUBSET S : g[s] = Round(f, g, S)[s]
    BY <1>2, <1>3
  <2>2. Round(f, g, S) \in [SUBSET S -> Int]
    BY <1>0
  <2> QED
    BY <2>1, <2>2
<1> QED
  BY <1>4

(* There is only one, so that CHOOSE takes it.                             *)
LEMMA FoldIsOne ==
  ASSUME NEW S, IsFiniteSet(S), NEW f,
         NEW it, it = Round(f, it, S), NEW jt, jt = Round(f, jt, S)
  PROVE  it = jt
<1> DEFINE wrong == {s \in SUBSET S : it[s] # jt[s]}
           sizes == {Cardinality(s) : s \in wrong}
<1>1. wrong = {}
  <2> SUFFICES ASSUME wrong # {} PROVE FALSE
    OBVIOUS
  <2>1. sizes \subseteq Nat /\ sizes # {}
    BY FS_Subset, FS_CardinalityType
  <2>2. PICK n \in sizes : \A m \in sizes : n <= m
    <3> HIDE DEF sizes
    <3> QED
      BY <2>1, LeastNumber
  <2>3. PICK s \in wrong : n = Cardinality(s)
    BY <2>2
  <2>4. s \in SUBSET S /\ it[s] # jt[s]
    BY <2>3
  <2>5. it[s] = Round(f, it, S)[s] /\ jt[s] = Round(f, jt, S)[s]
    OBVIOUS
  <2>6. s # {}
    BY <2>4, <2>5 DEF Round
  <2>7. it[s \ {AnyOf(s)}] # jt[s \ {AnyOf(s)}]
    BY <2>4, <2>5, <2>6 DEF Round
  <2>8. s \ {AnyOf(s)} \in wrong /\ Cardinality(s \ {AnyOf(s)}) = n - 1 /\ n \in Nat
    BY <2>3, <2>4, <2>6, <2>7, PickTakes
  <2>9. n <= n - 1
    BY <2>2, <2>8
  <2> QED
    BY <2>8, <2>9
<1>2. it = [s \in SUBSET S |-> it[s]] /\ jt = [s \in SUBSET S |-> jt[s]]
  BY DEF Round
<1> QED
  BY <1>1, <1>2

(* A sum is the fixed point at the whole set ...                           *)
LEMMA SumIsFold ==
  ASSUME NEW S, IsFiniteSet(S), NEW f, \A x \in S : f[x] \in Int
  PROVE  \E it \in [SUBSET S -> Int] : it = Round(f, it, S) /\ it[S] = SumFunctionOnSet(f, S)
<1> DEFINE it == CHOOSE g : g = Round(f, g, S)
<1>1. SumFunctionOnSet(f, S) = it[S]
  BY Zenon DEF SumFunctionOnSet, FoldFunctionOnSet, MapThenFoldSet, Round, AnyOf
<1>2. PICK g \in [SUBSET S -> Int] : g = Round(f, g, S)
  BY FoldExists
<1>3. it = Round(f, it, S)
  <2> QED
    BY <1>2, Zenon
<1>4. it = g
  <2> HIDE DEF it
  <2> QED
    BY <1>2, <1>3, FoldIsOne
<1> HIDE DEF it
<1> QED
  BY <1>1, <1>2, <1>4

(* The least of some finite sets.                                          *)
LEMMA SmallestSet ==
  ASSUME NEW W, W # {}, \A w \in W : IsFiniteSet(w)
  PROVE  \E s \in W : /\ Cardinality(s) \in Nat
                      /\ \A t \in W : Cardinality(s) <= Cardinality(t)
<1> DEFINE sizes == {Cardinality(w) : w \in W}
<1>1. sizes \subseteq Nat /\ sizes # {}
  BY FS_CardinalityType
<1>2. PICK n \in sizes : \A m \in sizes : n <= m
  <2> HIDE DEF sizes
  <2> QED
    BY <1>1, LeastNumber
<1> QED
  BY <1>1, <1>2

(* ... and at each part, the sum over that part.                           *)
LEMMA FoldOfParts ==
  ASSUME NEW S, IsFiniteSet(S), NEW f, \A x \in S : f[x] \in Int
  PROVE  \E it \in [SUBSET S -> Int] :
           it = Round(f, it, S) /\ \A T \in SUBSET S : it[T] = SumFunctionOnSet(f, T)
<1>1. PICK it \in [SUBSET S -> Int] : it = Round(f, it, S)
  BY FoldExists
<1>2. ASSUME NEW T \in SUBSET S
      PROVE  it[T] = SumFunctionOnSet(f, T)
  <2> DEFINE jt == [s \in SUBSET T |-> it[s]]
  <2>1. IsFiniteSet(T) /\ SUBSET T \subseteq SUBSET S
    BY FS_Subset
  <2>2. ASSUME NEW s \in SUBSET T
        PROVE  jt[s] = Round(f, jt, T)[s]
    <3>1. jt[s] = Round(f, it, S)[s]
      BY <1>1, <2>1
    <3>2. s # {} => s \ {AnyOf(s)} \in SUBSET T
      OBVIOUS
    <3> QED
      BY <2>1, <3>1, <3>2 DEF Round
  <2>3. jt = Round(f, jt, T)
    BY <2>2 DEF Round
  <2>4. jt[T] = it[T]
    OBVIOUS
  <2> HIDE DEF jt
  <2>5. PICK kt \in [SUBSET T -> Int] :
          kt = Round(f, kt, T) /\ kt[T] = SumFunctionOnSet(f, T)
    BY <2>1, SumIsFold
  <2>6. jt = kt
    BY <2>1, <2>3, <2>5, FoldIsOne
  <2> QED
    BY <2>4, <2>5, <2>6
<1> QED
  BY <1>1, <1>2

(* A sum over nothing is zero.                                             *)
LEMMA SumEmpty ==
  ASSUME NEW f PROVE SumFunctionOnSet(f, {}) = 0
<1>1. PICK it \in [SUBSET {} -> Int] :
        it = Round(f, it, {}) /\ it[{}] = SumFunctionOnSet(f, {})
  BY FS_EmptySet, SumIsFold
<1> QED
  BY <1>1 DEF Round

(* A sum of numbers is a number.                                           *)
LEMMA SumInt ==
  ASSUME NEW S, IsFiniteSet(S), NEW f, \A x \in S : f[x] \in Int
  PROVE  SumFunctionOnSet(f, S) \in Int
<1>1. PICK it \in [SUBSET S -> Int] : it[S] = SumFunctionOnSet(f, S)
  BY SumIsFold
<1> QED
  BY <1>1

(* A sum is the element that is taken and the sum of the rest.             *)
LEMMA SumPick ==
  ASSUME NEW S, IsFiniteSet(S), S # {}, NEW f, \A x \in S : f[x] \in Int
  PROVE  SumFunctionOnSet(f, S) = f[AnyOf(S)] + SumFunctionOnSet(f, S \ {AnyOf(S)})
<1>1. PICK it \in [SUBSET S -> Int] :
        it = Round(f, it, S) /\ \A T \in SUBSET S : it[T] = SumFunctionOnSet(f, T)
  BY FoldOfParts
<1>2. it[S] = f[AnyOf(S)] + it[S \ {AnyOf(S)}]
  <2>1. it[S] = Round(f, it, S)[S]
    BY <1>1
  <2> QED
    BY <2>1 DEF Round
<1> QED
  BY <1>1, <1>2

(* Induction over the parts of a finite set: G are those it holds of.       *)
LEMMA PartByPart ==
  ASSUME NEW S, IsFiniteSet(S), NEW G, {} \in G,
         \A T \in SUBSET S : T # {} /\ (\A x \in T : T \ {x} \in G) => T \in G
  PROVE  S \in G
<1> DEFINE bad == {T \in SUBSET S : T \notin G}
<1> SUFFICES ASSUME bad # {} PROVE FALSE
  OBVIOUS
<1>1. PICK T \in bad : /\ Cardinality(T) \in Nat
                       /\ \A U \in bad : Cardinality(T) <= Cardinality(U)
  <2>1. \A U \in bad : IsFiniteSet(U)
    BY FS_Subset
  <2> HIDE DEF bad
  <2> QED
    BY <2>1, SmallestSet
<1>2. IsFiniteSet(T)
  BY FS_Subset
<1>3. ASSUME NEW x \in T PROVE T \ {x} \in G
  <2>1. Cardinality(T \ {x}) = Cardinality(T) - 1
    BY <1>2, FS_RemoveElement
  <2>2. T \ {x} \notin bad
    <3> HIDE DEF bad
    <3> QED
      BY <1>1, <2>1
  <2> QED
    BY <2>2
<1>4. T \in SUBSET S /\ T # {} /\ T \notin G
  BY <1>1
<1> QED
  BY <1>3, <1>4

(* It does not matter which element is taken first.                        *)
LEMMA SumTake ==
  ASSUME NEW S, IsFiniteSet(S), NEW f, \A x \in S : f[x] \in Int
  PROVE  \A x \in S : SumFunctionOnSet(f, S) = f[x] + SumFunctionOnSet(f, S \ {x})
<1> DEFINE Sm(T) == SumFunctionOnSet(f, T)
           G == {T \in SUBSET S : \A x \in T : Sm(T) = f[x] + Sm(T \ {x})}
<1>1. \A T \in SUBSET S : IsFiniteSet(T) /\ Sm(T) \in Int
  BY FS_Subset, SumInt
<1>2. ASSUME NEW T \in SUBSET S, T # {}, \A x \in T : T \ {x} \in G, NEW x \in T
      PROVE  Sm(T) = f[x] + Sm(T \ {x})
  <2> DEFINE p == AnyOf(T)
             rest == (T \ {x}) \ {p}
  <2>1. p \in T /\ Sm(T) = f[p] + Sm(T \ {p})
    BY <1>1, <1>2, PickTakes, SumPick
  <2> HIDE DEF p, Sm
  <2>2. CASE x = p
    BY <2>1, <2>2
  <2>3. CASE x # p
    <3>1. Sm(T \ {p}) = f[x] + Sm((T \ {p}) \ {x}) /\ Sm(T \ {x}) = f[p] + Sm(rest)
      BY <1>2, <2>1, <2>3
    <3>2. (T \ {p}) \ {x} = rest /\ rest \in SUBSET S
      OBVIOUS
    <3>3. f[x] \in Int /\ f[p] \in Int /\ Sm(rest) \in Int
      BY <1>1, <2>1, <3>2
    <3> HIDE DEF rest
    <3>4. Sm(T \ {p}) = f[x] + Sm(rest)
      BY <3>1, <3>2
    <3> HIDE DEF G
    <3> QED
      BY <2>1, <3>1, <3>3, <3>4
  <2> QED
    BY <2>2, <2>3
<1>3. {} \in G /\ \A T \in SUBSET S : T # {} /\ (\A x \in T : T \ {x} \in G) => T \in G
  BY <1>2
<1>4. S \in G
  <2> HIDE DEF G
  <2> QED
    BY <1>3, PartByPart
<1> QED
  BY <1>4

(* A sum depends only on the values over its set.                          *)
LEMMA SumAgrees ==
  ASSUME NEW S, IsFiniteSet(S), NEW f, NEW g,
         \A x \in S : f[x] \in Int /\ f[x] = g[x]
  PROVE  SumFunctionOnSet(f, S) = SumFunctionOnSet(g, S)
<1>1. PICK it \in [SUBSET S -> Int] : it = Round(f, it, S) /\ it[S] = SumFunctionOnSet(f, S)
  BY SumIsFold
<1>2. PICK jt \in [SUBSET S -> Int] : jt = Round(g, jt, S) /\ jt[S] = SumFunctionOnSet(g, S)
  BY SumIsFold
<1>3. Round(f, it, S) = Round(g, it, S)
  <2>1. \A s \in SUBSET S : s # {} => f[AnyOf(s)] = g[AnyOf(s)]
    BY PickTakes
  <2> QED
    BY <2>1 DEF Round
<1> QED
  BY <1>1, <1>2, <1>3, FoldIsOne

(* The sum over a set is the sum over a part and over the rest.            *)
LEMMA SumUnion ==
  ASSUME NEW S, IsFiniteSet(S), NEW f, \A x \in S : f[x] \in Int, NEW T \in SUBSET S
  PROVE  SumFunctionOnSet(f, S) = SumFunctionOnSet(f, T) + SumFunctionOnSet(f, S \ T)
<1> DEFINE Sm(U) == SumFunctionOnSet(f, U)
           G == {U \in SUBSET S : Sm(S) = Sm(U) + Sm(S \ U)}
<1>1. \A U \in SUBSET S : IsFiniteSet(U) /\ Sm(U) \in Int
  BY FS_Subset, SumInt
<1>2. Sm({}) = 0 /\ S \ {} = S
  BY SumEmpty
<1>3. \A U \in SUBSET S : \A x \in U : Sm(U) = f[x] + Sm(U \ {x})
  BY <1>1, SumTake
<1> HIDE DEF Sm
<1>4. ASSUME NEW U \in SUBSET T, NEW x \in U, U \ {x} \in G
      PROVE  U \in G
  <2> DEFINE V == S \ (U \ {x})
  <2>1. V \in SUBSET S /\ x \in V /\ V \ {x} = S \ U /\ U \in SUBSET S /\ S \ U \in SUBSET S
    OBVIOUS
  <2>2. Sm(S) = Sm(U \ {x}) + Sm(V)
    BY <1>4
  <2> HIDE DEF V
  <2>3. Sm(V) = f[x] + Sm(S \ U) /\ Sm(U) = f[x] + Sm(U \ {x})
    BY <1>3, <2>1
  <2>4. f[x] \in Int /\ Sm(S \ U) \in Int /\ Sm(U \ {x}) \in Int
    BY <1>1, <2>1
  <2>5. Sm(S) = Sm(U) + Sm(S \ U)
    <3> HIDE DEF G
    <3> QED
      BY <2>2, <2>3, <2>4
  <2> QED
    BY <2>1, <2>5
<1>5. {} \in G
  BY <1>1, <1>2
<1>6. IsFiniteSet(T) /\ \A U \in SUBSET T : U # {} /\ (\A x \in U : U \ {x} \in G) => U \in G
  BY <1>1, <1>4
<1>7. T \in G
  <2> HIDE DEF G
  <2> QED
    BY <1>5, <1>6, PartByPart
<1> QED
  BY <1>7 DEF Sm

(* Sums are added element by element ...                                   *)
LEMMA SumPlus ==
  ASSUME NEW S, IsFiniteSet(S), NEW f, NEW g, NEW h,
         \A x \in S : f[x] \in Int /\ g[x] \in Int /\ h[x] = f[x] + g[x]
  PROVE  SumFunctionOnSet(h, S) = SumFunctionOnSet(f, S) + SumFunctionOnSet(g, S)
<1> DEFINE F(T) == SumFunctionOnSet(f, T)
           H(T) == SumFunctionOnSet(g, T)
           K(T) == SumFunctionOnSet(h, T)
           G == {T \in SUBSET S : K(T) = F(T) + H(T)}
<1>1. \A T \in SUBSET S : F(T) \in Int /\ H(T) \in Int /\ \A x \in T : h[x] \in Int
  BY FS_Subset, SumInt
<1>2. \A T \in SUBSET S : \A x \in T : /\ F(T) = f[x] + F(T \ {x})
                                       /\ H(T) = g[x] + H(T \ {x})
                                       /\ K(T) = h[x] + K(T \ {x})
  <2>1. \A T \in SUBSET S : IsFiniteSet(T)
    BY FS_Subset
  <2> QED
    BY <1>1, <2>1, SumTake
<1>3. {} \in G
  BY SumEmpty
<1> HIDE DEF F, H, K
<1>4. ASSUME NEW T \in SUBSET S, NEW x \in T, T \ {x} \in G
      PROVE  T \in G
  <2>1. K(T \ {x}) = F(T \ {x}) + H(T \ {x})
    BY <1>4
  <2>2. f[x] \in Int /\ g[x] \in Int /\ F(T \ {x}) \in Int /\ H(T \ {x}) \in Int
    BY <1>1
  <2>3. K(T) = F(T) + H(T)
    <3>1. h[x] = f[x] + g[x]
      OBVIOUS
    <3>2. K(T) = h[x] + K(T \ {x}) /\ F(T) = f[x] + F(T \ {x}) /\ H(T) = g[x] + H(T \ {x})
      BY <1>2
    <3> HIDE DEF G
    <3> QED
      BY <2>1, <2>2, <3>1, <3>2
  <2> QED
    BY <2>3
<1>5. \A T \in SUBSET S : T # {} /\ (\A x \in T : T \ {x} \in G) => T \in G
  BY <1>4
<1>6. S \in G
  <2> HIDE DEF G
  <2> QED
    BY <1>3, <1>5, PartByPart
<1> QED
  BY <1>6 DEF F, H, K

(* ... and subtracted; a sum of nothing is nothing.                        *)
LEMMA SumMinus ==
  ASSUME NEW S, IsFiniteSet(S), NEW f, NEW g, NEW h,
         \A x \in S : f[x] \in Int /\ g[x] \in Int /\ h[x] = f[x] - g[x]
  PROVE  SumFunctionOnSet(h, S) = SumFunctionOnSet(f, S) - SumFunctionOnSet(g, S)
<1>1. \A x \in S : g[x] \in Int /\ h[x] \in Int /\ f[x] = g[x] + h[x]
  OBVIOUS
<1>2. SumFunctionOnSet(f, S) = SumFunctionOnSet(g, S) + SumFunctionOnSet(h, S)
  BY <1>1, SumPlus
<1>3. SumFunctionOnSet(g, S) \in Int /\ SumFunctionOnSet(h, S) \in Int
  BY <1>1, SumInt
<1> QED
  BY <1>2, <1>3

(* A sum of zeros is zero.                                                 *)
LEMMA SumZero ==
  ASSUME NEW S, IsFiniteSet(S), NEW f, \A x \in S : f[x] = 0
  PROVE  SumFunctionOnSet(f, S) = 0
<1>1. \A x \in S : f[x] \in Int /\ f[x] = f[x] + f[x]
  OBVIOUS
<1>2. SumFunctionOnSet(f, S) = SumFunctionOnSet(f, S) + SumFunctionOnSet(f, S)
  BY <1>1, SumPlus
<1> DEFINE n == SumFunctionOnSet(f, S)
<1>3. n \in Int /\ n = n + n
  BY <1>1, <1>2, SumInt
<1> HIDE DEF n
<1>4. n = 0
  BY <1>3
<1> QED
  BY <1>4 DEF n

(* A sum of negated numbers is the negated sum.                            *)
LEMMA SumNegated ==
  ASSUME NEW S, IsFiniteSet(S), NEW f, NEW h,
         \A x \in S : f[x] \in Int /\ h[x] = -f[x]
  PROVE  SumFunctionOnSet(h, S) = -SumFunctionOnSet(f, S)
<1> DEFINE z == [x \in S |-> 0]
<1>1. \A x \in S : z[x] \in Int /\ h[x] = z[x] - f[x]
  OBVIOUS
<1>2. SumFunctionOnSet(z, S) = 0
  BY SumZero
<1> HIDE DEF z
<1>3. SumFunctionOnSet(h, S) = SumFunctionOnSet(z, S) - SumFunctionOnSet(f, S)
  BY <1>1, SumMinus
<1>4. SumFunctionOnSet(f, S) \in Int
  BY SumInt
<1> QED
  BY <1>2, <1>3, <1>4

(* What is zero need not be summed.                                        *)
LEMMA SumSupport ==
  ASSUME NEW S, IsFiniteSet(S), NEW f, \A x \in S : f[x] \in Int,
         NEW T \in SUBSET S, \A x \in S \ T : f[x] = 0
  PROVE  SumFunctionOnSet(f, S) = SumFunctionOnSet(f, T)
<1>1. IsFiniteSet(T) /\ IsFiniteSet(S \ T)
  BY FS_Subset
<1>2. SumFunctionOnSet(f, S) = SumFunctionOnSet(f, T) + SumFunctionOnSet(f, S \ T)
  BY SumUnion
<1>3. SumFunctionOnSet(f, S \ T) = 0
  BY <1>1, SumZero
<1>4. SumFunctionOnSet(f, T) \in Int
  BY <1>1, SumInt
<1> QED
  BY <1>2, <1>3, <1>4

(* A sum of one.                                                           *)
LEMMA SumSingle ==
  ASSUME NEW f, NEW x, f[x] \in Int
  PROVE  SumFunctionOnSet(f, {x}) = f[x]
<1>1. IsFiniteSet({x}) /\ {x} \ {x} = {}
  BY FS_Singleton
<1>2. SumFunctionOnSet(f, {x}) = f[x] + SumFunctionOnSet(f, {x} \ {x})
  BY <1>1, SumTake
<1> QED
  BY <1>1, <1>2, SumEmpty

(* A sum in which one element changes.                                     *)
LEMMA SumChanges ==
  ASSUME NEW S, IsFiniteSet(S), NEW f, NEW g, NEW x \in S, NEW d \in Int,
         \A y \in S : f[y] \in Int /\ g[y] = IF y = x THEN f[y] + d ELSE f[y]
  PROVE  SumFunctionOnSet(g, S) = SumFunctionOnSet(f, S) + d
<1> DEFINE T == S \ {x}
<1>1. IsFiniteSet(T) /\ T \in SUBSET S
  BY FS_Subset
<1>2. \A y \in T : f[y] \in Int /\ f[y] = g[y]
  OBVIOUS
<1>3. g[x] = f[x] + d /\ f[x] \in Int /\ \A y \in S : f[y] \in Int /\ g[y] \in Int
  OBVIOUS
<1>4. SumFunctionOnSet(f, S) = f[x] + SumFunctionOnSet(f, T)
  BY <1>3, SumTake
<1>5. SumFunctionOnSet(g, S) = g[x] + SumFunctionOnSet(g, T)
  BY <1>3, SumTake
<1> HIDE DEF T
<1>6. SumFunctionOnSet(f, T) = SumFunctionOnSet(g, T)
  BY <1>1, <1>2, SumAgrees
<1>7. SumFunctionOnSet(f, T) \in Int
  BY <1>1, <1>2, SumInt
<1> QED
  BY <1>3, <1>4, <1>5, <1>6, <1>7

(* f over S is summed by keys: g has the sum of each key of K.             *)
Groups(g, K, f, S, key) ==
  /\ IsFiniteSet(S) /\ IsFiniteSet(K)
  /\ \A x \in S : f[x] \in Int /\ key[x] \in K
  /\ \A k \in K : g[k] = SumFunctionOnSet(f, {x \in S : key[x] = k})

(* Summed by keys, the sums of the keys add up to the sum.                 *)
LEMMA SumByKey ==
  ASSUME NEW S, NEW f, NEW K, NEW key, NEW g, Groups(g, K, f, S, key)
  PROVE  SumFunctionOnSet(g, K) = SumFunctionOnSet(f, S)
<1> USE DEF Groups
<1> DEFINE Of(T) == {x \in S : key[x] \in T}
           G == {T \in SUBSET K : SumFunctionOnSet(g, T) = SumFunctionOnSet(f, Of(T))}
<1>1. \A T \in SUBSET K : IsFiniteSet(T) /\ Of(T) \in SUBSET S /\ IsFiniteSet(Of(T))
  BY FS_Subset
<1>2. {} \in G
  <2>1. Of({}) = {}
    OBVIOUS
  <2> QED
    BY <2>1, SumEmpty
<1>3. \A k \in K : g[k] \in Int
  <2>1. \A k \in K : IsFiniteSet({x \in S : key[x] = k})
    BY FS_Subset
  <2> QED
    BY <2>1, SumInt
<1>4. ASSUME NEW T \in SUBSET K, NEW k \in T, T \ {k} \in G
      PROVE  T \in G
  <2>1. SumFunctionOnSet(g, T) = g[k] + SumFunctionOnSet(g, T \ {k})
    BY <1>1, <1>3, SumTake
  <2>2. SumFunctionOnSet(g, T \ {k}) = SumFunctionOnSet(f, Of(T \ {k}))
    BY <1>4
  <2> DEFINE one == {x \in S : key[x] = k}
             all == Of(T)
  <2>3. one \in SUBSET all /\ all \ one = Of(T \ {k}) /\ all \in SUBSET S
    OBVIOUS
  <2>4. IsFiniteSet(all)
    BY <1>1
  <2>5. g[k] = SumFunctionOnSet(f, one)
    OBVIOUS
  <2>6. SumFunctionOnSet(f, all) = SumFunctionOnSet(f, one) + SumFunctionOnSet(f, all \ one)
    <3> HIDE DEF one, all
    <3> QED
      BY <2>3, <2>4, SumUnion
  <2>7. SumFunctionOnSet(g, T) = SumFunctionOnSet(f, Of(T))
    <3> HIDE DEF Of, one
    <3> QED
      BY <2>1, <2>2, <2>3, <2>5, <2>6
  <2> QED
    BY <2>7
<1>5. \A T \in SUBSET K : T # {} /\ (\A k \in T : T \ {k} \in G) => T \in G
  BY <1>4
<1>6. K \in G
  <2> HIDE DEF G
  <2> QED
    BY <1>2, <1>5, PartByPart
<1>7. Of(K) = S
  OBVIOUS
<1> QED
  BY <1>6, <1>7

(* Sums of what is not negative are not negative, and zero only if all is. *)
LEMMA SumNat ==
  ASSUME NEW S, IsFiniteSet(S), NEW f, \A x \in S : f[x] \in Nat
  PROVE  /\ SumFunctionOnSet(f, S) \in Nat
         /\ \A x \in S : f[x] <= SumFunctionOnSet(f, S)
<1> DEFINE Sm(T) == SumFunctionOnSet(f, T)
           G == {T \in SUBSET S : Sm(T) \in Nat}
<1>1. \A T \in SUBSET S : IsFiniteSet(T)
  BY FS_Subset
<1>2. \A T \in SUBSET S : \A x \in T : Sm(T) = f[x] + Sm(T \ {x})
  BY <1>1, SumTake
<1>3. {} \in G
  BY SumEmpty
<1> HIDE DEF Sm
<1>4. ASSUME NEW T \in SUBSET S, NEW x \in T, T \ {x} \in G
      PROVE  T \in G
  <2>1. Sm(T) = f[x] + Sm(T \ {x}) /\ f[x] \in Nat /\ Sm(T \ {x}) \in Nat
    BY <1>2, <1>4
  <2> QED
    BY <2>1
<1>5. \A T \in SUBSET S : T # {} /\ (\A x \in T : T \ {x} \in G) => T \in G
  BY <1>4
<1>6. \A T \in SUBSET S : T \in G
  <2> HIDE DEF G
  <2> TAKE T \in SUBSET S
  <2>1. \A U \in SUBSET T : U # {} /\ (\A x \in U : U \ {x} \in G) => U \in G
    BY <1>5
  <2> QED
    BY <1>1, <1>3, <2>1, PartByPart
<1>7. ASSUME NEW x \in S PROVE f[x] <= Sm(S)
  <2>1. Sm(S) = f[x] + Sm(S \ {x}) /\ Sm(S \ {x}) \in Nat /\ f[x] \in Nat
    BY <1>2, <1>6
  <2> QED
    BY <2>1
<1> QED
  BY <1>6, <1>7 DEF Sm

-----------------------------------------------------------------------------
(* What All() adds up.                                                     *)

(* What a result is: three legs in its own currency and in every other,    *)
(* and a count.                                                            *)
Legs == {"inc", "exp", "sum"}
Result == [native : [Legs -> Int], ex : [Currencies -> [Legs -> Int]], count : Int]

(* Columns of a table of results: a leg, a leg in another currency, a      *)
(* count.                                                                  *)
Natives(f, l) == [k \in DOMAIN f |-> f[k].native[l]]
Exchangeds(f, c, l) == [k \in DOMAIN f |-> f[k].ex[c][l]]
Counts(f) == [k \in DOMAIN f |-> f[k].count]

(* The results of a set of keys added up column by column.                 *)
Totals(f, s) ==
  [native |-> [l \in Legs |-> SumFunctionOnSet(Natives(f, l), s)],
   ex     |-> [c \in Currencies |-> [l \in Legs |-> SumFunctionOnSet(Exchangeds(f, c, l), s)]],
   count  |-> SumFunctionOnSet(Counts(f), s)]

(* One round of All().                                                     *)
MergedRound(f, it, S) ==
  [s \in SUBSET S |-> IF s = {} THEN NoResult ELSE Merged(f[AnyOf(s)], it[s \ {AnyOf(s)}])]

(* All() is the fixed point of its rounds, taken by CHOOSE.                *)
LEMMA AllIsFold ==
  ASSUME NEW S, NEW f
  PROVE  All(f, S) = (CHOOSE it : it = MergedRound(f, it, S))[S]
  BY Zenon DEF All, MapThenFoldSet, MergedRound, AnyOf

(* The columns of a table of results hold numbers.                         *)
LEMMA ResultColumns ==
  ASSUME NEW f, \A k \in DOMAIN f : f[k] \in Result, NEW S, S \subseteq DOMAIN f
  PROVE  /\ \A l \in Legs : \A k \in S : Natives(f, l)[k] = f[k].native[l] /\ Natives(f, l)[k] \in Int
         /\ \A c \in Currencies : \A l \in Legs : \A k \in S :
              Exchangeds(f, c, l)[k] = f[k].ex[c][l] /\ Exchangeds(f, c, l)[k] \in Int
         /\ \A k \in S : Counts(f)[k] = f[k].count /\ Counts(f)[k] \in Int
<1>1. ASSUME NEW k \in S
      PROVE  /\ f[k].native \in [Legs -> Int] /\ f[k].ex \in [Currencies -> [Legs -> Int]]
             /\ f[k].count \in Int
  BY DEF Result
<1> QED
  BY <1>1 DEF Natives, Exchangeds, Counts

(* No legs are zeros.                                                      *)
LEMMA NoLegsFlat == NoLegs = [l \in Legs |-> 0]
<1>1. NoLegs \in [Legs -> Int] /\ \A l \in Legs : NoLegs[l] = 0
  BY DEF NoLegs, Legs
<1> QED
  BY <1>1

(* Adding up column by column is such a fixed point ...                    *)
LEMMA TotalsFold ==
  ASSUME NEW S, IsFiniteSet(S), NEW f, \A k \in DOMAIN f : f[k] \in Result,
         S \subseteq DOMAIN f
  PROVE  LET it == [s \in SUBSET S |-> Totals(f, s)] IN it = MergedRound(f, it, S)
<1> DEFINE it == [s \in SUBSET S |-> Totals(f, s)]
<1>1. Totals(f, {}) = NoResult
  BY SumEmpty, NoLegsFlat DEF Totals, NoResult
<1>2. ASSUME NEW s \in SUBSET S, s # {}
      PROVE  Totals(f, s) = Merged(f[AnyOf(s)], Totals(f, s \ {AnyOf(s)}))
  <2> DEFINE p == AnyOf(s)
             r == s \ {p}
  <2>1. p \in S /\ IsFiniteSet(s) /\ s \subseteq DOMAIN f
    BY <1>2, PickTakes
  <2>2. ASSUME NEW g, \A k \in s : g[k] \in Int
        PROVE  SumFunctionOnSet(g, s) = g[p] + SumFunctionOnSet(g, r)
    BY <1>2, <2>1, <2>2, SumPick
  <2>0. p \in s
    BY <1>2, PickTakes
  <2> HIDE DEF p, r
  <2>3. ASSUME NEW l \in Legs
        PROVE  SumFunctionOnSet(Natives(f, l), s)
                 = f[p].native[l] + SumFunctionOnSet(Natives(f, l), r)
    <3>1. \A k \in s : k \in DOMAIN f /\ f[k].native[l] \in Int
      BY <2>1 DEF Result
    <3>2. /\ \A k \in s : Natives(f, l)[k] \in Int
          /\ Natives(f, l)[p] = f[p].native[l]
      BY <2>0, <3>1 DEF Natives
    <3> QED
      BY <2>2, <3>2
  <2>4. ASSUME NEW c \in Currencies, NEW l \in Legs
        PROVE  SumFunctionOnSet(Exchangeds(f, c, l), s)
                 = f[p].ex[c][l] + SumFunctionOnSet(Exchangeds(f, c, l), r)
    <3>1. \A k \in s : k \in DOMAIN f /\ f[k].ex[c][l] \in Int
      BY <2>1 DEF Result
    <3>2. /\ \A k \in s : Exchangeds(f, c, l)[k] \in Int
          /\ Exchangeds(f, c, l)[p] = f[p].ex[c][l]
      BY <2>0, <3>1 DEF Exchangeds
    <3> QED
      BY <2>2, <3>2
  <2>5. SumFunctionOnSet(Counts(f), s) = f[p].count + SumFunctionOnSet(Counts(f), r)
    BY <2>1, <2>2, ResultColumns
  <2>6. Totals(f, s).native = Plus(f[p].native, Totals(f, r).native)
    BY <2>3 DEF Totals, Plus, Legs
  <2>7. \A c \in Currencies : Totals(f, s).ex[c] = Plus(f[p].ex[c], Totals(f, r).ex[c])
    BY <2>4 DEF Totals, Plus, Legs
  <2>8. Totals(f, s).ex = [c \in Currencies |-> Plus(f[p].ex[c], Totals(f, r).ex[c])]
    BY <2>7 DEF Totals
  <2>9. Totals(f, s).count = f[p].count + Totals(f, r).count
    BY <2>5 DEF Totals
  <2>10. Totals(f, s) = [native |-> Totals(f, s).native, ex |-> Totals(f, s).ex,
                         count |-> Totals(f, s).count]
    BY DEF Totals
  <2>11. Totals(f, s) = Merged(f[p], Totals(f, r))
    BY <2>6, <2>8, <2>9, <2>10 DEF Merged
  <2> QED
    BY <2>11 DEF p, r
<1>3. ASSUME NEW s \in SUBSET S PROVE it[s] = MergedRound(f, it, S)[s]
  <2>1. CASE s = {}
    BY <1>1, <2>1 DEF MergedRound
  <2>2. CASE s # {}
    <3>1. s \ {AnyOf(s)} \in SUBSET S
      OBVIOUS
    <3>2. it[s] = Totals(f, s) /\ it[s \ {AnyOf(s)}] = Totals(f, s \ {AnyOf(s)})
      BY <3>1
    <3> HIDE DEF it
    <3> QED
      BY <1>2, <2>2, <3>2 DEF MergedRound
  <2> QED
    BY <2>1, <2>2
<1>4. it = MergedRound(f, it, S)
  <2>1. it = [s \in SUBSET S |-> it[s]] 
    OBVIOUS
  <2>2. MergedRound(f, it, S) = [s \in SUBSET S |-> MergedRound(f, it, S)[s]]
    BY DEF MergedRound
  <2> HIDE DEF it
  <2> QED
    BY <1>3, <2>1, <2>2
<1> QED
  BY <1>4

(* ... and there is only one.                                              *)
LEMMA MergedIsOne ==
  ASSUME NEW S, IsFiniteSet(S), NEW f,
         NEW it, it = MergedRound(f, it, S), NEW jt, jt = MergedRound(f, jt, S)
  PROVE  it[S] = jt[S]
<1> DEFINE G == {s \in SUBSET S : it[s] = jt[s]}
<1>1. ASSUME NEW s \in SUBSET S, \A x \in s : s \ {x} \in G
      PROVE  it[s] = jt[s]
  <2>1. it[s] = MergedRound(f, it, S)[s] /\ jt[s] = MergedRound(f, jt, S)[s]
    OBVIOUS
  <2>2. CASE s = {}
    BY <2>1, <2>2 DEF MergedRound
  <2>3. CASE s # {}
    <3>1. it[s \ {AnyOf(s)}] = jt[s \ {AnyOf(s)}]
      BY <1>1, <2>3, PickTakes
    <3> QED
      BY <2>1, <2>3, <3>1 DEF MergedRound
  <2> QED
    BY <2>2, <2>3
<1>2. {} \in G /\ \A s \in SUBSET S : s # {} /\ (\A x \in s : s \ {x} \in G) => s \in G
  BY <1>1
<1>3. S \in G
  <2> HIDE DEF G
  <2> QED
    BY <1>2, PartByPart
<1> QED
  BY <1>3

(* So All() adds up column by column.                                      *)
LEMMA AllSums ==
  ASSUME NEW S, IsFiniteSet(S), NEW f, \A k \in DOMAIN f : f[k] \in Result,
         S \subseteq DOMAIN f
  PROVE  All(f, S) = Totals(f, S)
<1> DEFINE it == [s \in SUBSET S |-> Totals(f, s)]
           jt == CHOOSE g : g = MergedRound(f, g, S)
<1>1. it = MergedRound(f, it, S)
  BY TotalsFold, Zenon
<1>2. jt = MergedRound(f, jt, S)
  <2> HIDE DEF it
  <2> QED
    BY <1>1, Zenon
<1>3. it[S] = Totals(f, S)
  OBVIOUS
<1>4. it[S] = jt[S]
  <2> HIDE DEF it, jt
  <2> QED
    BY <1>1, <1>2, MergedIsOne
<1>5. All(f, S) = jt[S]
  BY AllIsFold, Zenon
<1> QED
  BY <1>3, <1>4, <1>5

-----------------------------------------------------------------------------
(* The invariant, and the types of results.                                *)

(* The cells of every period that make up the sum of a topic in a          *)
(* currency.                                                               *)
CellsOf(k) == {c \in DOMAIN cells : c[1] = k[1] /\ c[3] = k[2]}

(* What the tables hold. Their keys are finitely many topics and           *)
(* currencies, since the transactions are.                                 *)
QTypes ==
  /\ filter \in Filters /\ side \in Sides /\ seen \in [Transactions -> Nat]
  /\ IsFiniteSet(DOMAIN sums) /\ IsFiniteSet(DOMAIN cells)
  /\ DOMAIN sums \subseteq (Topics \cup Currencies) \X Currencies
  /\ DOMAIN cells \subseteq (Topics \cup Currencies) \X Range(PeriodOf) \X Currencies
  /\ \A k \in DOMAIN sums : sums[k] \in Result
  /\ \A k \in DOMAIN cells : cells[k] \in Result

(* A topic and a currency have a sum if they have a cell in some period.   *)
TopicKeys == DOMAIN sums = {<<c[1], c[3]>> : c \in DOMAIN cells}

(* The span of a topic reaches over all its cells.                         *)
Spanned ==
  /\ \A l \in DOMAIN span : span[l][1] \in Int /\ span[l][2] \in Int
  /\ \A c \in DOMAIN cells :
       c[1] \in DOMAIN span /\ span[c[1]][1] <= c[2] /\ c[2] <= span[c[1]][2]

(* A sum is what its cells add up to.                                      *)
Split == \A k \in DOMAIN sums : sums[k] = Totals(cells, CellsOf(k))

(* The legs of a result: income is not negative, expense not positive,     *)
(* their sum is the third leg, also exchanged; in its own currency a       *)
(* result needs no exchange, and a leg that is zero is zero exchanged.     *)
Signed(r, own) ==
  /\ r.native["inc"] >= 0 /\ r.native["exp"] <= 0 /\ r.ex[own] = r.native
  /\ r.native["sum"] = r.native["inc"] + r.native["exp"]
  /\ \A c \in Currencies :
       /\ r.ex[c]["sum"] = r.ex[c]["inc"] + r.ex[c]["exp"]
       /\ r.native["inc"] = 0 => r.ex[c]["inc"] = 0
       /\ r.native["exp"] = 0 => r.ex[c]["exp"] = 0

(* The inductive invariant.                                                *)
QInv == QTypes /\ TopicKeys /\ Spanned /\ Split /\ \A k \in DOMAIN sums : Signed(sums[k], k[2])

(* Division towards zero of numbers is a number.                           *)
LEMMA QuotInt ==
  ASSUME NEW a \in Int, NEW b \in Nat, b # 0 PROVE Quot(a, b) \in Int
  BY DEF Quot

(* A transaction has a value in every currency.                            *)
LEMMA ValueInt ==
  ASSUME NEW t \in Transactions, NEW to \in Currencies PROVE ValueIn(t, to) \in Int
<1>1. t.amount \in Int /\ t.currency \in Currencies /\ \A c \in Currencies : Rate[c][t.date] \in Nat
  BY QueriesAssumption DEF QueriesAssumption
<1> DEFINE huf == IF t.currency = Default THEN t.amount ELSE t.amount * Rate[t.currency][t.date]
           r == Rate[to][t.date]
<1>2. huf \in Int /\ r \in Nat
  BY <1>1
<1>3. ValueIn(t, to) = IF to = t.currency THEN t.amount
                       ELSE IF to = Default THEN huf
                       ELSE IF r = 0 THEN 0 ELSE Quot(huf, r)
  BY DEF ValueIn
<1> HIDE DEF huf, r
<1> QED
  BY <1>1, <1>2, <1>3, QuotInt

(* Only one of the first two legs of a transaction is not zero.            *)
LEMMA LegsInt ==
  ASSUME NEW t, NEW v \in Int
  PROVE  /\ LegsOf(t, v) \in [Legs -> Int]
         /\ LegsOf(t, v)["inc"] = (IF t.amount > 0 THEN v ELSE 0)
         /\ LegsOf(t, v)["exp"] = (IF t.amount > 0 THEN 0 ELSE v)
         /\ LegsOf(t, v)["sum"] = v
  BY DEF LegsOf, Legs

(* The result of a transaction is a result and keeps the rules of its      *)
(* legs.                                                                   *)
LEMMA ResultTyped ==
  ASSUME NEW t \in Transactions
  PROVE  ResultOf(t) \in Result /\ Signed(ResultOf(t), t.currency)
<1>1. t.amount \in Int /\ t.currency \in Currencies
  BY QueriesAssumption DEF QueriesAssumption
<1> DEFINE n == LegsOf(t, t.amount)
           e == [c \in Currencies |-> LegsOf(t, ValueIn(t, c))]
<1>2. ResultOf(t) = [native |-> n, ex |-> e, count |-> 1]
  BY DEF ResultOf
<1>3. n \in [Legs -> Int] /\ n["inc"] = (IF t.amount > 0 THEN t.amount ELSE 0)
      /\ n["exp"] = (IF t.amount > 0 THEN 0 ELSE t.amount) /\ n["sum"] = t.amount
  BY <1>1, LegsInt
<1>4. ASSUME NEW c \in Currencies
      PROVE  e[c] \in [Legs -> Int] /\ e[c]["inc"] = (IF t.amount > 0 THEN ValueIn(t, c) ELSE 0)
             /\ e[c]["exp"] = (IF t.amount > 0 THEN 0 ELSE ValueIn(t, c)) /\ e[c]["sum"] = ValueIn(t, c)
             /\ ValueIn(t, c) \in Int
  BY LegsInt, ValueInt
<1>5. e[t.currency] = n
  BY <1>1 DEF ValueIn
<1>6. e \in [Currencies -> [Legs -> Int]]
  BY <1>4
<1> HIDE DEF n, e
<1>7. ResultOf(t) \in Result
  BY <1>2, <1>3, <1>6 DEF Result
<1>8. n["inc"] >= 0 /\ n["exp"] <= 0 /\ n["sum"] = n["inc"] + n["exp"]
  BY <1>1, <1>3
<1>9. ASSUME NEW c \in Currencies
      PROVE  /\ e[c]["sum"] = e[c]["inc"] + e[c]["exp"]
             /\ n["inc"] = 0 => e[c]["inc"] = 0
             /\ n["exp"] = 0 => e[c]["exp"] = 0
  <2>1. ValueIn(t, c) = 0 \/ t.amount # 0
    <3>1. ASSUME t.amount = 0 PROVE ValueIn(t, c) = 0
      <4>1. Rate[t.currency][t.date] \in Nat /\ Rate[c][t.date] \in Nat
        BY <1>1, QueriesAssumption DEF QueriesAssumption
      <4>2. t.amount * Rate[t.currency][t.date] = 0
        BY <3>1, <4>1
      <4>3. Rate[c][t.date] # 0 => Quot(0, Rate[c][t.date]) = 0
        BY <4>1 DEF Quot
      <4> QED
        BY <3>1, <4>2, <4>3 DEF ValueIn
    <3> QED
      BY <3>1
  <2> QED
    BY <1>1, <1>3, <1>4, <2>1
<1> QED
  BY <1>2, <1>5, <1>7, <1>8, <1>9 DEF Signed

(* Results add up to results.                                              *)
LEMMA MergedTyped ==
  ASSUME NEW r \in Result, NEW s \in Result
  PROVE  /\ Merged(r, s) \in Result
         /\ \A l \in Legs : Merged(r, s).native[l] = r.native[l] + s.native[l]
         /\ \A c \in Currencies : \A l \in Legs :
              Merged(r, s).ex[c][l] = r.ex[c][l] + s.ex[c][l]
         /\ Merged(r, s).count = r.count + s.count
<1>1. r.native \in [Legs -> Int] /\ s.native \in [Legs -> Int]
      /\ r.ex \in [Currencies -> [Legs -> Int]] /\ s.ex \in [Currencies -> [Legs -> Int]]
      /\ r.count \in Int /\ s.count \in Int
  BY DEF Result
<1>2. ASSUME NEW a \in [Legs -> Int], NEW b \in [Legs -> Int]
      PROVE  Plus(a, b) \in [Legs -> Int] /\ \A l \in Legs : Plus(a, b)[l] = a[l] + b[l]
  BY DEF Plus, Legs
<1>3. Plus(r.native, s.native) \in [Legs -> Int]
      /\ \A l \in Legs : Plus(r.native, s.native)[l] = r.native[l] + s.native[l]
  BY <1>1, <1>2
<1>4. ASSUME NEW c \in Currencies
      PROVE  Plus(r.ex[c], s.ex[c]) \in [Legs -> Int]
             /\ \A l \in Legs : Plus(r.ex[c], s.ex[c])[l] = r.ex[c][l] + s.ex[c][l]
  <2>1. r.ex[c] \in [Legs -> Int] /\ s.ex[c] \in [Legs -> Int]
    BY <1>1
  <2> QED
    BY <1>2, <2>1
<1>5. Merged(r, s) = [native |-> Plus(r.native, s.native),
                      ex |-> [c \in Currencies |-> Plus(r.ex[c], s.ex[c])],
                      count |-> r.count + s.count]
  BY DEF Merged
<1> QED
  BY <1>1, <1>3, <1>4, <1>5 DEF Result

(* An empty result is a result and all zeros.                              *)
LEMMA NoResultTyped ==
  /\ NoResult \in Result /\ NoResult.count = 0
  /\ \A l \in Legs : NoResult.native[l] = 0
  /\ \A c \in Currencies : \A l \in Legs : NoResult.ex[c][l] = 0
<1>1. NoResult = [native |-> [l \in Legs |-> 0], ex |-> [c \in Currencies |-> [l \in Legs |-> 0]],
                  count |-> 0]
  BY NoLegsFlat DEF NoResult
<1> QED
  BY <1>1 DEF Result

(* Results add up to a result.                                             *)
LEMMA TotalsTyped ==
  ASSUME NEW f, \A k \in DOMAIN f : f[k] \in Result, NEW S, IsFiniteSet(S), S \subseteq DOMAIN f
  PROVE  /\ Totals(f, S) \in Result
         /\ \A l \in Legs : Totals(f, S).native[l] = SumFunctionOnSet(Natives(f, l), S)
         /\ \A c \in Currencies : \A l \in Legs :
              Totals(f, S).ex[c][l] = SumFunctionOnSet(Exchangeds(f, c, l), S)
         /\ Totals(f, S).count = SumFunctionOnSet(Counts(f), S)
<1>1. ASSUME NEW l \in Legs PROVE SumFunctionOnSet(Natives(f, l), S) \in Int
  <2>1. \A k \in S : Natives(f, l)[k] \in Int
    BY DEF Natives, Result
  <2> QED
    BY <2>1, SumInt
<1>2. ASSUME NEW c \in Currencies, NEW l \in Legs
      PROVE  SumFunctionOnSet(Exchangeds(f, c, l), S) \in Int
  <2>1. \A k \in S : Exchangeds(f, c, l)[k] \in Int
    BY DEF Exchangeds, Result
  <2> QED
    BY <2>1, SumInt
<1>3. SumFunctionOnSet(Counts(f), S) \in Int
  <2>1. \A k \in S : Counts(f)[k] \in Int
    BY DEF Counts, Result
  <2> QED
    BY <2>1, SumInt
<1> QED
  BY <1>1, <1>2, <1>3 DEF Totals, Result

(* Results are equal if their legs and counts are.                         *)
LEMMA ResultsEqual ==
  ASSUME NEW r \in Result, NEW s \in Result, r.count = s.count,
         \A l \in Legs : r.native[l] = s.native[l],
         \A c \in Currencies : \A l \in Legs : r.ex[c][l] = s.ex[c][l]
  PROVE  r = s
<1>1. r.native \in [Legs -> Int] /\ s.native \in [Legs -> Int]
      /\ r.ex \in [Currencies -> [Legs -> Int]] /\ s.ex \in [Currencies -> [Legs -> Int]]
  BY DEF Result
<1>2. r.native = s.native
  BY <1>1
<1>3. \A c \in Currencies : r.ex[c] = s.ex[c]
  <2> TAKE c \in Currencies
  <2>1. r.ex[c] \in [Legs -> Int] /\ s.ex[c] \in [Legs -> Int]
    BY <1>1
  <2> QED
    BY <2>1
<1>4. r.ex = s.ex
  BY <1>1, <1>3
<1> QED
  BY <1>2, <1>4 DEF Result

-----------------------------------------------------------------------------
(* What one more transaction does to totals.                               *)

(* g is h over D with one more entry, or one that has become bigger by d.  *)
Adds(g, h, D, key, d) ==
  /\ d \in Int
  /\ \A k \in D : h[k] \in Int /\ (k # key => g[k] = h[k])
  /\ key \in D => g[key] = h[key] + d
  /\ key \notin D => g[key] = d

(* Then its sums are bigger by d where the entry is among them.            *)
LEMMA SumAdds ==
  ASSUME NEW g, NEW h, NEW D, NEW key, NEW d, Adds(g, h, D, key, d),
         NEW K, K \subseteq D \cup {key}, IsFiniteSet(K \cap D)
  PROVE  /\ key \in K => SumFunctionOnSet(g, K) = SumFunctionOnSet(h, K \cap D) + d
         /\ key \notin K => SumFunctionOnSet(g, K) = SumFunctionOnSet(h, K \cap D)
<1> USE DEF Adds
<1>1. IsFiniteSet(K)
  <2>1. IsFiniteSet((K \cap D) \cup {key})
    BY FS_AddElement
  <2> QED
    BY <2>1, FS_Subset
<1>2. \A k \in K : g[k] \in Int
  OBVIOUS
<1> DEFINE R == K \ {key}
<1>3. IsFiniteSet(R) /\ R \subseteq D /\ \A k \in R : g[k] \in Int /\ g[k] = h[k]
  BY <1>1, FS_Subset
<1>4. SumFunctionOnSet(g, R) = SumFunctionOnSet(h, R) /\ SumFunctionOnSet(h, R) \in Int
  <2> HIDE DEF R
  <2>1. \A k \in R : h[k] \in Int
    BY <1>3
  <2> QED
    BY <1>3, <2>1, SumAgrees, SumInt
<1>5. CASE key \notin K
  <2>1. K \cap D = R /\ R = K
    BY <1>5
  <2> HIDE DEF R
  <2>2. SumFunctionOnSet(g, K) = SumFunctionOnSet(h, K \cap D)
    BY <1>4, <2>1
  <2> QED
    BY <1>5, <2>2
<1>6. CASE key \in K
  <2>1. SumFunctionOnSet(g, K) = g[key] + SumFunctionOnSet(g, R)
    BY <1>1, <1>2, <1>6, SumTake
  <2>2. CASE key \in D
    <3>1. g[key] = h[key] + d /\ key \in K \cap D /\ (K \cap D) \ {key} = R /\ h[key] \in Int
      BY <1>6, <2>2
    <3>2. \A k \in K \cap D : h[k] \in Int
      OBVIOUS
    <3> HIDE DEF R
    <3>3. SumFunctionOnSet(h, K \cap D) = h[key] + SumFunctionOnSet(h, R)
      BY <3>1, <3>2, SumTake
    <3> QED
      BY <1>4, <1>6, <2>1, <3>1, <3>3
  <2>3. CASE key \notin D
    <3>1. g[key] = d /\ K \cap D = R
      BY <1>6, <2>3
    <3> HIDE DEF R
    <3>2. SumFunctionOnSet(h, K \cap D) = SumFunctionOnSet(h, R)
      BY <3>1
    <3> QED
      BY <1>4, <1>6, <2>1, <3>1, <3>2
  <2> QED
    BY <2>2, <2>3
<1> QED
  BY <1>5, <1>6

(* What a transaction does to a table of results.                          *)
MoreBy(g, f, key, t) ==
  /\ DOMAIN g = DOMAIN f \cup {key}
  /\ \A k \in DOMAIN g : g[k] \in Result
  /\ \A k \in DOMAIN g : k # key => g[k] = f[k]
  /\ key \in DOMAIN f => g[key] = Merged(f[key], ResultOf(t))
  /\ key \notin DOMAIN f => g[key] = Merged(NoResult, ResultOf(t))

(* That is what the model does to a table.                                 *)
LEMMA AddToTyped ==
  ASSUME NEW f, \A k \in DOMAIN f : f[k] \in Result, NEW key, NEW t \in Transactions
  PROVE  MoreBy(AddTo(f, key, t), f, key, t)
<1> DEFINE g == AddTo(f, key, t)
<1>1. DOMAIN g = DOMAIN f \cup {key}
  BY DEF AddTo
<1>2. \A k \in DOMAIN g : k # key => g[k] = f[k] /\ k \in DOMAIN f
  BY DEF AddTo
<1>3. g[key] = Merged(IF key \in DOMAIN f THEN f[key] ELSE NoResult, ResultOf(t))
  BY DEF AddTo
<1>4. Merged(IF key \in DOMAIN f THEN f[key] ELSE NoResult, ResultOf(t)) \in Result
  BY NoResultTyped, ResultTyped, MergedTyped
<1> HIDE DEF g
<1>5. \A k \in DOMAIN g : g[k] \in Result
  BY <1>1, <1>2, <1>3, <1>4
<1> QED
  BY <1>1, <1>2, <1>3, <1>5 DEF g, MoreBy

(* The totals of a set of keys are those from before, with the transaction *)
(* merged in if its key is in the set.                                     *)
LEMMA TotalsAdd ==
  ASSUME NEW f, \A k \in DOMAIN f : f[k] \in Result, NEW key, NEW t \in Transactions,
         NEW K, K \subseteq DOMAIN f \cup {key}, IsFiniteSet(K \cap DOMAIN f)
  PROVE  /\ key \in K => Totals(AddTo(f, key, t), K)
                             = Merged(Totals(f, K \cap DOMAIN f), ResultOf(t))
         /\ key \notin K => Totals(AddTo(f, key, t), K) = Totals(f, K \cap DOMAIN f)
<1> DEFINE g == AddTo(f, key, t)
           D == DOMAIN f
           r == ResultOf(t)
<1>1. /\ DOMAIN g = D \cup {key} /\ \A k \in DOMAIN g : g[k] \in Result
      /\ \A k \in DOMAIN g : k # key => g[k] = f[k]
      /\ (key \in D => g[key] = Merged(f[key], r))
      /\ (key \notin D => g[key] = Merged(NoResult, r))
  <2>1. MoreBy(AddTo(f, key, t), f, key, t)
    BY AddToTyped
  <2> QED
    BY <2>1 DEF MoreBy
<1>2. r \in Result
  BY ResultTyped
<1>3. IsFiniteSet(K)
  <2>1. IsFiniteSet((K \cap D) \cup {key})
    BY FS_AddElement
  <2> QED
    BY <2>1, FS_Subset
<1> DEFINE T == Totals(f, K \cap D)
           U == Totals(g, K)
<1>4. /\ T \in Result
      /\ \A l \in Legs : T.native[l] = SumFunctionOnSet(Natives(f, l), K \cap D)
      /\ \A c \in Currencies : \A l \in Legs :
           T.ex[c][l] = SumFunctionOnSet(Exchangeds(f, c, l), K \cap D)
      /\ T.count = SumFunctionOnSet(Counts(f), K \cap D)
  BY TotalsTyped
<1> HIDE DEF g
<1>5. /\ U \in Result
      /\ \A l \in Legs : U.native[l] = SumFunctionOnSet(Natives(g, l), K)
      /\ \A c \in Currencies : \A l \in Legs :
           U.ex[c][l] = SumFunctionOnSet(Exchangeds(g, c, l), K)
      /\ U.count = SumFunctionOnSet(Counts(g), K)
  BY <1>1, <1>3, TotalsTyped
<1>8. ASSUME NEW l \in Legs
      PROVE  (key \in K => U.native[l] = T.native[l] + r.native[l]) /\ (key \notin K => U.native[l] = T.native[l])
  <2> DEFINE x == Natives(g, l)
             y == Natives(f, l)
             d == r.native[l]
  <2>1. d \in Int /\ \A k \in D : y[k] = f[k].native[l] /\ y[k] \in Int
    BY <1>2 DEF Natives, Result
  <2>2. \A k \in D \cup {key} : x[k] = g[k].native[l]
    BY <1>1 DEF Natives
  <2>3. (key \in D => x[key] = y[key] + d) /\ (key \notin D => x[key] = d)
    <3>1. ASSUME key \in D PROVE g[key].native[l] = f[key].native[l] + d
      <4>1. f[key] \in Result /\ g[key] = Merged(f[key], r)
        BY <1>1, <3>1
      <4> QED
        BY <1>2, <4>1, MergedTyped
    <3>2. ASSUME key \notin D PROVE g[key].native[l] = d
      <4>1. g[key] = Merged(NoResult, r)
        BY <1>1, <3>2
      <4> QED
        BY <1>2, <2>1, <4>1, MergedTyped, NoResultTyped
    <3> HIDE DEF x, y, d
    <3> QED
      BY <2>1, <2>2, <3>1, <3>2
  <2>4. \A k \in D : k # key => x[k] = y[k]
    BY <1>1, <2>1, <2>2
  <2>5. U.native[l] = SumFunctionOnSet(x, K) /\ T.native[l] = SumFunctionOnSet(y, K \cap D)
    BY <1>4, <1>5
  <2>6. d = r.native[l]
    OBVIOUS
  <2> HIDE DEF x, y, d, D
  <2>7. K \subseteq D \cup {key} /\ IsFiniteSet(K \cap D)
    BY DEF D
  <2>8. d \in Int /\ (\A k \in D : y[k] \in Int) /\ \A k \in D : k # key => x[k] = y[k]
    BY <2>1, <2>4
  <2>9. /\ key \in K => SumFunctionOnSet(x, K) = SumFunctionOnSet(y, K \cap D) + d
        /\ key \notin K => SumFunctionOnSet(x, K) = SumFunctionOnSet(y, K \cap D)
    <3>1. Adds(x, y, D, key, d)
      BY <2>3, <2>8 DEF Adds
    <3> QED
      BY <2>7, <3>1, SumAdds
  <2> QED
    BY <2>5, <2>6, <2>9
<1>9. ASSUME NEW c \in Currencies, NEW l \in Legs
      PROVE  (key \in K => U.ex[c][l] = T.ex[c][l] + r.ex[c][l]) /\ (key \notin K => U.ex[c][l] = T.ex[c][l])
  <2> DEFINE x == Exchangeds(g, c, l)
             y == Exchangeds(f, c, l)
             d == r.ex[c][l]
  <2>1. d \in Int /\ \A k \in D : y[k] = f[k].ex[c][l] /\ y[k] \in Int
    BY <1>2 DEF Exchangeds, Result
  <2>2. \A k \in D \cup {key} : x[k] = g[k].ex[c][l]
    BY <1>1 DEF Exchangeds
  <2>3. (key \in D => x[key] = y[key] + d) /\ (key \notin D => x[key] = d)
    <3>1. ASSUME key \in D PROVE g[key].ex[c][l] = f[key].ex[c][l] + d
      <4>1. f[key] \in Result /\ g[key] = Merged(f[key], r)
        BY <1>1, <3>1
      <4> QED
        BY <1>2, <4>1, MergedTyped
    <3>2. ASSUME key \notin D PROVE g[key].ex[c][l] = d
      <4>1. g[key] = Merged(NoResult, r)
        BY <1>1, <3>2
      <4> QED
        BY <1>2, <2>1, <4>1, MergedTyped, NoResultTyped
    <3> HIDE DEF x, y, d
    <3> QED
      BY <2>1, <2>2, <3>1, <3>2
  <2>4. \A k \in D : k # key => x[k] = y[k]
    BY <1>1, <2>1, <2>2
  <2>5. U.ex[c][l] = SumFunctionOnSet(x, K) /\ T.ex[c][l] = SumFunctionOnSet(y, K \cap D)
    BY <1>4, <1>5
  <2>6. d = r.ex[c][l]
    OBVIOUS
  <2> HIDE DEF x, y, d, D
  <2>7. K \subseteq D \cup {key} /\ IsFiniteSet(K \cap D)
    BY DEF D
  <2>8. d \in Int /\ (\A k \in D : y[k] \in Int) /\ \A k \in D : k # key => x[k] = y[k]
    BY <2>1, <2>4
  <2>9. /\ key \in K => SumFunctionOnSet(x, K) = SumFunctionOnSet(y, K \cap D) + d
        /\ key \notin K => SumFunctionOnSet(x, K) = SumFunctionOnSet(y, K \cap D)
    <3>1. Adds(x, y, D, key, d)
      BY <2>3, <2>8 DEF Adds
    <3> QED
      BY <2>7, <3>1, SumAdds
  <2> QED
    BY <2>5, <2>6, <2>9
<1>10. (key \in K => U.count = T.count + r.count) /\ (key \notin K => U.count = T.count)
  <2> DEFINE x == Counts(g)
             y == Counts(f)
             d == r.count
  <2>1. d \in Int /\ \A k \in D : y[k] = f[k].count /\ y[k] \in Int
    BY <1>2 DEF Counts, Result
  <2>2. \A k \in D \cup {key} : x[k] = g[k].count
    BY <1>1 DEF Counts
  <2>3. (key \in D => x[key] = y[key] + d) /\ (key \notin D => x[key] = d)
    <3>1. ASSUME key \in D PROVE g[key].count = f[key].count + d
      <4>1. f[key] \in Result /\ g[key] = Merged(f[key], r)
        BY <1>1, <3>1
      <4> QED
        BY <1>2, <4>1, MergedTyped
    <3>2. ASSUME key \notin D PROVE g[key].count = d
      <4>1. g[key] = Merged(NoResult, r)
        BY <1>1, <3>2
      <4> QED
        BY <1>2, <2>1, <4>1, MergedTyped, NoResultTyped
    <3> HIDE DEF x, y, d
    <3> QED
      BY <2>1, <2>2, <3>1, <3>2
  <2>4. \A k \in D : k # key => x[k] = y[k]
    BY <1>1, <2>1, <2>2
  <2>5. U.count = SumFunctionOnSet(x, K) /\ T.count = SumFunctionOnSet(y, K \cap D)
    BY <1>4, <1>5
  <2>6. d = r.count
    OBVIOUS
  <2> HIDE DEF x, y, d, D
  <2>7. K \subseteq D \cup {key} /\ IsFiniteSet(K \cap D)
    BY DEF D
  <2>8. d \in Int /\ (\A k \in D : y[k] \in Int) /\ \A k \in D : k # key => x[k] = y[k]
    BY <2>1, <2>4
  <2>9. /\ key \in K => SumFunctionOnSet(x, K) = SumFunctionOnSet(y, K \cap D) + d
        /\ key \notin K => SumFunctionOnSet(x, K) = SumFunctionOnSet(y, K \cap D)
    <3>1. Adds(x, y, D, key, d)
      BY <2>3, <2>8 DEF Adds
    <3> QED
      BY <2>7, <3>1, SumAdds
  <2> QED
    BY <2>5, <2>6, <2>9
<1> HIDE DEF T, U, r
<1>11. CASE key \in K
  <2> DEFINE m == Merged(T, r)
  <2>1. /\ m \in Result /\ m.count = T.count + r.count
        /\ \A l \in Legs : m.native[l] = T.native[l] + r.native[l]
        /\ \A c \in Currencies : \A l \in Legs : m.ex[c][l] = T.ex[c][l] + r.ex[c][l]
    BY <1>2, <1>4, MergedTyped
  <2> HIDE DEF m
  <2>2. U = m
    BY <1>5, <1>8, <1>9, <1>10, <1>11, <2>1, ResultsEqual
  <2> QED
    BY <1>11, <2>2 DEF m, T, U, r, g
<1>12. CASE key \notin K
  <2>1. /\ U.count = T.count
        /\ \A l \in Legs : U.native[l] = T.native[l]
        /\ \A c \in Currencies : \A l \in Legs : U.ex[c][l] = T.ex[c][l]
    <3>1. /\ T.count \in Int
          /\ \A l \in Legs : T.native[l] \in Int
          /\ \A c \in Currencies : \A l \in Legs : T.ex[c][l] \in Int
      BY <1>4 DEF Result
    <3> QED
      BY <1>8, <1>9, <1>10, <1>12, <3>1
  <2>2. U = T
    BY <1>4, <1>5, <2>1, ResultsEqual
  <2> QED
    BY <1>12, <2>2 DEF T, U, g
<1> QED
  BY <1>11, <1>12

-----------------------------------------------------------------------------
(* The invariant is inductive.                                             *)

(* The totals of no keys are an empty result.                              *)
LEMMA TotalsNone ==
  ASSUME NEW f PROVE Totals(f, {}) = NoResult
  BY SumEmpty, NoLegsFlat DEF Totals, NoResult

(* An empty result keeps the rules of the legs.                            *)
LEMMA SignedNone ==
  ASSUME NEW own \in Currencies PROVE Signed(NoResult, own)
<1>1. NoResult.ex[own] = NoResult.native
  BY DEF NoResult
<1> QED
  BY <1>1, NoResultTyped DEF Signed, Legs

(* Merged results keep them if both do.                                    *)
LEMMA SignedAdds ==
  ASSUME NEW r \in Result, NEW s \in Result, NEW own \in Currencies,
         Signed(r, own), Signed(s, own)
  PROVE  Signed(Merged(r, s), own)
<1> DEFINE m == Merged(r, s)
<1>1. /\ m \in Result
      /\ \A l \in Legs : m.native[l] = r.native[l] + s.native[l]
      /\ \A c \in Currencies : \A l \in Legs : m.ex[c][l] = r.ex[c][l] + s.ex[c][l]
  BY MergedTyped
<1>2. m.ex[own] = m.native
  BY DEF Merged, Signed
<1> HIDE DEF m
<1>3. /\ \A l \in Legs : r.native[l] \in Int /\ s.native[l] \in Int
      /\ \A c \in Currencies : \A l \in Legs : r.ex[c][l] \in Int /\ s.ex[c][l] \in Int
  BY DEF Result
<1>4. m.native["inc"] >= 0 /\ m.native["exp"] <= 0
      /\ m.native["sum"] = m.native["inc"] + m.native["exp"]
  BY <1>1, <1>3 DEF Legs, Signed
<1>5. ASSUME NEW c \in Currencies
      PROVE  /\ m.ex[c]["sum"] = m.ex[c]["inc"] + m.ex[c]["exp"]
             /\ m.native["inc"] = 0 => m.ex[c]["inc"] = 0
             /\ m.native["exp"] = 0 => m.ex[c]["exp"] = 0
  <2>1. /\ m.ex[c]["sum"] = r.ex[c]["sum"] + s.ex[c]["sum"]
        /\ m.ex[c]["inc"] = r.ex[c]["inc"] + s.ex[c]["inc"]
        /\ m.ex[c]["exp"] = r.ex[c]["exp"] + s.ex[c]["exp"]
        /\ m.native["inc"] = r.native["inc"] + s.native["inc"]
        /\ m.native["exp"] = r.native["exp"] + s.native["exp"]
    BY <1>1 DEF Legs
  <2>2. /\ r.native["inc"] \in Int /\ s.native["inc"] \in Int
        /\ r.native["exp"] \in Int /\ s.native["exp"] \in Int
        /\ r.ex[c]["inc"] \in Int /\ s.ex[c]["inc"] \in Int
        /\ r.ex[c]["exp"] \in Int /\ s.ex[c]["exp"] \in Int
        /\ r.ex[c]["sum"] \in Int /\ s.ex[c]["sum"] \in Int
    BY <1>3 DEF Legs
  <2>3. m.ex[c]["sum"] = m.ex[c]["inc"] + m.ex[c]["exp"]
    BY <2>1, <2>2 DEF Signed
  <2>4. ASSUME m.native["inc"] = 0 PROVE m.ex[c]["inc"] = 0
    <3>1. r.native["inc"] = 0 /\ s.native["inc"] = 0
      BY <2>1, <2>2, <2>4 DEF Signed
    <3> QED
      BY <2>1, <3>1 DEF Signed
  <2>5. ASSUME m.native["exp"] = 0 PROVE m.ex[c]["exp"] = 0
    <3>1. r.native["exp"] = 0 /\ s.native["exp"] = 0
      BY <2>1, <2>2, <2>5 DEF Signed
    <3> QED
      BY <2>1, <3>1 DEF Signed
  <2> QED
    BY <2>3, <2>4, <2>5
<1> QED
  BY <1>2, <1>4, <1>5 DEF Signed, m

(* A query begins with empty tables.                                       *)
LEMMA QInvInit == Init => QInv
<1> SUFFICES ASSUME Init PROVE QInv
  OBVIOUS
<1>1. DOMAIN sums = {} /\ DOMAIN cells = {} /\ DOMAIN span = {}
  BY DEF Init
<1>2. IsFiniteSet({})
  BY FS_EmptySet
<1>3. QTypes
  BY <1>1, <1>2 DEF QTypes, Init
<1> QED
  BY <1>1, <1>3 DEF QInv, TopicKeys, Spanned, Split

(* The sum and the cell that a transaction is added to.                    *)
Own(t) == <<Topic(t), t.currency>>
Cell(t) == <<Topic(t), PeriodOf[t.date], t.currency>>

(* They have the types of keys.                                            *)
LEMMA Keys ==
  ASSUME QTypes, NEW t \in Transactions
  PROVE  /\ Topic(t) \in Topics \cup Currencies /\ t.currency \in Currencies
         /\ PeriodOf[t.date] \in Range(PeriodOf) /\ PeriodOf[t.date] \in Int
<1>1. t.topic \in Topics /\ t.currency \in Currencies /\ t.date \in DOMAIN PeriodOf
  BY QueriesAssumption DEF QueriesAssumption
<1>2. PeriodOf[t.date] \in Range(PeriodOf)
  BY <1>1 DEF Range
<1> QED
  BY <1>1, <1>2, QueriesAssumption DEF QueriesAssumption, Topic

\* What RunQuery() does to a transaction that the filters let through.
Booked(t) ==
  /\ MoreBy(sums', sums, Own(t), t) /\ MoreBy(cells', cells, Cell(t), t)
  /\ sums' = AddTo(sums, Own(t), t) /\ cells' = AddTo(cells, Cell(t), t)
  /\ filter' = filter /\ side' = side

(* A run of a transaction that the filters let through adds it to one sum  *)
(* and one cell.                                                           *)
LEMMA RunsBooked ==
  ASSUME QInv, NEW t \in Transactions, RunQuery(t), Lets(t)
  PROVE  Booked(t)
<1>1. sums' = AddTo(sums, Own(t), t) /\ cells' = AddTo(cells, Cell(t), t)
      /\ filter' = filter /\ side' = side
  BY DEF RunQuery, Own, Cell
<1>2. (\A k \in DOMAIN sums : sums[k] \in Result) /\ \A k \in DOMAIN cells : cells[k] \in Result
  BY DEF QInv, QTypes
<1>3. MoreBy(AddTo(sums, Own(t), t), sums, Own(t), t)
  BY <1>2, AddToTyped
<1>4. MoreBy(AddTo(cells, Cell(t), t), cells, Cell(t), t)
  BY <1>2, AddToTyped
<1> QED
  BY <1>1, <1>3, <1>4 DEF Booked

(* A run keeps the types of the tables.                                    *)
LEMMA RunTypes ==
  ASSUME QInv, NEW t \in Transactions, RunQuery(t)
  PROVE  QTypes'
<1>1. seen' \in [Transactions -> Nat]
  BY DEF RunQuery, QInv, QTypes
<1>2. CASE ~Lets(t)
  <2>1. sums' = sums /\ cells' = cells /\ filter' = filter /\ side' = side
    BY <1>2 DEF RunQuery
  <2> QED
    BY <1>1, <2>1 DEF QInv, QTypes
<1>3. CASE Lets(t)
  <2>1. Booked(t)
    BY <1>3, RunsBooked
  <2>2. DOMAIN sums' = DOMAIN sums \cup {Own(t)} /\ DOMAIN cells' = DOMAIN cells \cup {Cell(t)}
        /\ (\A k \in DOMAIN sums' : sums'[k] \in Result)
        /\ (\A k \in DOMAIN cells' : cells'[k] \in Result)
    BY <2>1 DEF Booked, MoreBy
  <2>3. IsFiniteSet(DOMAIN sums') /\ IsFiniteSet(DOMAIN cells')
    BY <2>2, FS_AddElement DEF QInv, QTypes
  <2>4. Own(t) \in (Topics \cup Currencies) \X Currencies
        /\ Cell(t) \in (Topics \cup Currencies) \X Range(PeriodOf) \X Currencies
    BY Keys DEF QInv, Own, Cell
  <2>5. filter' = filter /\ side' = side
    BY <2>1 DEF Booked
  <2>6. DOMAIN sums' \subseteq (Topics \cup Currencies) \X Currencies
        /\ DOMAIN cells' \subseteq (Topics \cup Currencies) \X Range(PeriodOf) \X Currencies
    BY <2>2, <2>4 DEF QInv, QTypes
  <2> QED
    BY <1>1, <2>2, <2>3, <2>5, <2>6 DEF QInv, QTypes
<1> QED
  BY <1>2, <1>3

(* A run adds the key of a sum if it adds the key of its cell.             *)
LEMMA RunKeys ==
  ASSUME QInv, NEW t \in Transactions, RunQuery(t)
  PROVE  TopicKeys'
<1>2. CASE ~Lets(t)
  <2>1. sums' = sums /\ cells' = cells
    BY <1>2 DEF RunQuery
  <2> QED
    BY <2>1 DEF QInv, TopicKeys
<1>3. CASE Lets(t)
  <2>1. Booked(t)
    BY <1>3, RunsBooked
  <2>2. DOMAIN sums' = DOMAIN sums \cup {Own(t)} /\ DOMAIN cells' = DOMAIN cells \cup {Cell(t)}
    BY <2>1 DEF Booked, MoreBy
  <2>3. Own(t) = <<Cell(t)[1], Cell(t)[3]>>
    BY DEF Own, Cell
  <2>4. {<<c[1], c[3]>> : c \in DOMAIN cells'}
          = {<<c[1], c[3]>> : c \in DOMAIN cells} \cup {<<Cell(t)[1], Cell(t)[3]>>}
    BY <2>2
  <2> QED
    BY <2>2, <2>3, <2>4 DEF QInv, TopicKeys
<1> QED
  BY <1>2, <1>3

(* A run widens the span of the topic over the new cell.                   *)
LEMMA RunSpans ==
  ASSUME QInv, NEW t \in Transactions, RunQuery(t)
  PROVE  Spanned'
<1>2. CASE ~Lets(t)
  <2>1. span' = span /\ cells' = cells
    BY <1>2 DEF RunQuery
  <2> QED
    BY <2>1 DEF QInv, Spanned
<1>3. CASE Lets(t)
  <2> DEFINE topic == Topic(t)
             p == PeriodOf[t.date]
             new == IF topic \in DOMAIN span THEN Widened(span[topic], p) ELSE <<p, p>>
  <2>1. Booked(t)
    BY <1>3, RunsBooked
  <2>2. DOMAIN cells' = DOMAIN cells \cup {<<topic, p, t.currency>>}
    BY <2>1 DEF Booked, MoreBy, Cell
  <2>3. span' = [k \in DOMAIN span \cup {topic} |-> IF k = topic THEN new ELSE span[k]]
    BY <1>3 DEF RunQuery
  <2>4. p \in Int
    BY Keys DEF QInv
  <2>5. \A c \in DOMAIN cells : c[2] \in Int
    <3>1. \A c \in DOMAIN cells : c[2] \in Range(PeriodOf)
      BY DEF QInv, QTypes
    <3> QED
      BY <3>1, QueriesAssumption DEF QueriesAssumption
  <2>6. /\ new[1] \in Int /\ new[2] \in Int /\ new[1] <= p /\ p <= new[2]
        /\ topic \in DOMAIN span => new[1] <= span[topic][1] /\ span[topic][2] <= new[2]
    BY <2>4 DEF QInv, Spanned, Widened
  <2> HIDE DEF new
  <2>7. /\ span'[topic] = new
        /\ \A l \in DOMAIN span : l # topic => span'[l] = span[l]
        /\ DOMAIN span' = DOMAIN span \cup {topic}
    BY <2>3
  <2> HIDE DEF topic, p
  <2>8. \A l \in DOMAIN span' : span'[l][1] \in Int /\ span'[l][2] \in Int
    BY <2>6, <2>7 DEF QInv, Spanned
  <2>9. ASSUME NEW c \in DOMAIN cells'
        PROVE  c[1] \in DOMAIN span' /\ span'[c[1]][1] <= c[2] /\ c[2] <= span'[c[1]][2]
    <3>1. CASE c = <<topic, p, t.currency>>
      BY <2>6, <2>7, <3>1
    <3>2. CASE c \in DOMAIN cells
      <4>1. /\ c[1] \in DOMAIN span /\ span[c[1]][1] <= c[2] /\ c[2] <= span[c[1]][2]
            /\ span[c[1]][1] \in Int /\ span[c[1]][2] \in Int /\ c[2] \in Int
        BY <2>5, <3>2 DEF QInv, Spanned
      <4>2. CASE c[1] = topic
        BY <2>6, <2>7, <4>1, <4>2
      <4>3. CASE c[1] # topic
        BY <2>7, <4>1, <4>3
      <4> QED
        BY <4>2, <4>3
    <3> QED
      BY <2>2, <3>1, <3>2
  <2> QED
    BY <2>8, <2>9 DEF Spanned
<1> QED
  BY <1>2, <1>3

(* A run keeps the sums split in cells: both gain the same result.         *)
LEMMA RunSplits ==
  ASSUME QInv, NEW t \in Transactions, RunQuery(t), Lets(t), NEW k \in DOMAIN sums'
  PROVE  sums'[k] = Totals(cells', {c \in DOMAIN cells' : c[1] = k[1] /\ c[3] = k[2]})
<1> DEFINE own == Own(t)
           key == Cell(t)
           K == {c \in DOMAIN cells' : c[1] = k[1] /\ c[3] = k[2]}
<1>1. Booked(t)
  BY RunsBooked
<1>2. /\ DOMAIN sums' = DOMAIN sums \cup {own} /\ DOMAIN cells' = DOMAIN cells \cup {key}
      /\ \A i \in DOMAIN sums' : i # own => sums'[i] = sums[i]
      /\ own \in DOMAIN sums => sums'[own] = Merged(sums[own], ResultOf(t))
      /\ own \notin DOMAIN sums => sums'[own] = Merged(NoResult, ResultOf(t))
  BY <1>1 DEF Booked, MoreBy
<1>3. own = <<key[1], key[3]>>
  BY DEF Own, Cell
<1>4. \E a, b : k = <<a, b>>
  <2>1. QTypes'
    BY RunTypes
  <2> QED
    BY <2>1 DEF QTypes
<1>5. K \cap DOMAIN cells = CellsOf(k) /\ K \subseteq DOMAIN cells \cup {key}
  BY <1>2 DEF CellsOf
<1>6. key \in K <=> k = own
  BY <1>2, <1>3, <1>4
<1>7. IsFiniteSet(K \cap DOMAIN cells) /\ \A c \in DOMAIN cells : cells[c] \in Result
  <2>1. IsFiniteSet(DOMAIN cells) /\ \A c \in DOMAIN cells : cells[c] \in Result
    BY DEF QInv, QTypes
  <2> QED
    BY <2>1, FS_Subset
<1>8. cells' = AddTo(cells, key, t)
  BY <1>1 DEF Booked
<1> HIDE DEF own, key, K
<1>9. /\ key \in K => Totals(cells', K) = Merged(Totals(cells, K \cap DOMAIN cells), ResultOf(t))
      /\ key \notin K => Totals(cells', K) = Totals(cells, K \cap DOMAIN cells)
  <2>1. /\ key \in K => Totals(AddTo(cells, key, t), K)
                          = Merged(Totals(cells, K \cap DOMAIN cells), ResultOf(t))
        /\ key \notin K => Totals(AddTo(cells, key, t), K) = Totals(cells, K \cap DOMAIN cells)
    BY <1>5, <1>7, TotalsAdd
  <2> QED
    BY <1>8, <2>1
<1>10. \A i \in DOMAIN sums : sums[i] = Totals(cells, CellsOf(i))
  BY DEF QInv, Split
<1>11. own \notin DOMAIN sums => CellsOf(own) = {}
  BY <1>3 DEF QInv, TopicKeys, CellsOf, own, Own
<1>12. own \notin DOMAIN sums => Totals(cells, CellsOf(own)) = NoResult
  BY <1>11, TotalsNone
<1>13. CASE k = own
  <2>1. Totals(cells', K) = Merged(Totals(cells, CellsOf(own)), ResultOf(t))
    BY <1>5, <1>6, <1>9, <1>13
  <2>2. CASE own \in DOMAIN sums
    BY <1>2, <1>10, <1>13, <2>1, <2>2 DEF K
  <2>3. CASE own \notin DOMAIN sums
    BY <1>2, <1>12, <1>13, <2>1, <2>3 DEF K
  <2> QED
    BY <2>2, <2>3
<1>14. CASE k # own
  <2>1. Totals(cells', K) = Totals(cells, CellsOf(k))
    BY <1>5, <1>6, <1>9, <1>14
  <2>2. sums'[k] = sums[k] /\ k \in DOMAIN sums
    BY <1>2, <1>14
  <2> QED
    BY <1>10, <2>1, <2>2 DEF K
<1> QED
  BY <1>13, <1>14

(* Every step keeps the invariant.                                         *)
LEMMA QInvStep ==
  ASSUME QInv, [Next]_vars PROVE QInv'
<1>1. CASE UNCHANGED vars
  BY <1>1 DEF vars, QInv, QTypes, TopicKeys, Spanned, Split, Signed, CellsOf
<1>2. ASSUME NEW t \in Transactions, RunQuery(t) PROVE QInv'
  <2>1. QTypes' /\ TopicKeys' /\ Spanned'
    BY <1>2, RunTypes, RunKeys, RunSpans
  <2>2. ASSUME NEW k \in DOMAIN sums'
        PROVE  sums'[k] = Totals(cells', {c \in DOMAIN cells' : c[1] = k[1] /\ c[3] = k[2]})
               /\ Signed(sums'[k], k[2])
    <3>1. CASE ~Lets(t)
      <4>1. sums' = sums /\ cells' = cells
        BY <1>2, <3>1 DEF RunQuery
      <4> QED
        BY <4>1 DEF QInv, Split, CellsOf
    <3>2. CASE Lets(t)
      <4> DEFINE own == Own(t)
      <4>1. Booked(t)
        BY <1>2, <3>2, RunsBooked
      <4>2. /\ DOMAIN sums' = DOMAIN sums \cup {own}
            /\ \A i \in DOMAIN sums' : i # own => sums'[i] = sums[i]
            /\ own \in DOMAIN sums => sums'[own] = Merged(sums[own], ResultOf(t))
            /\ own \notin DOMAIN sums => sums'[own] = Merged(NoResult, ResultOf(t))
        BY <4>1 DEF Booked, MoreBy
      <4>3. own[2] = t.currency /\ t.currency \in Currencies
        BY Keys DEF QInv, Own
      <4>4. ResultOf(t) \in Result /\ Signed(ResultOf(t), t.currency)
        BY ResultTyped
      <4>5. \A i \in DOMAIN sums : Signed(sums[i], i[2]) /\ sums[i] \in Result
        BY DEF QInv, QTypes
      <4> HIDE DEF own
      <4>6. Signed(sums'[k], k[2])
        <5>1. CASE k # own
          <6>1. k \in DOMAIN sums /\ sums'[k] = sums[k]
            BY <4>2, <5>1
          <6> QED
            BY <4>5, <6>1
        <5>2. CASE k = own /\ own \in DOMAIN sums
          BY <4>2, <4>3, <4>4, <4>5, <5>2, SignedAdds
        <5>3. CASE k = own /\ own \notin DOMAIN sums
          BY <4>2, <4>3, <4>4, <5>3, SignedAdds, SignedNone, NoResultTyped
        <5> QED
          BY <5>1, <5>2, <5>3
      <4> QED
        BY <1>2, <3>2, <4>6, RunSplits
    <3> QED
      BY <3>1, <3>2
  <2>3. Split'
    BY <2>2 DEF Split, CellsOf
  <2>4. (\A k \in DOMAIN sums : Signed(sums[k], k[2]))'
    BY <2>2 DEF Signed
  <2> QED
    BY <2>1, <2>3, <2>4 DEF QInv
<1> QED
  BY <1>1, <1>2 DEF Next

(* Whatever transactions a query has run over, in whatever order and       *)
(* however often: every sum is what the cells of its topic and currency    *)
(* add up to, every cell lies in the span of its topic, and the legs of a  *)
(* result fit together (QuerySumByTopic::CheckTransaction(),               *)
(* TopicPeriodicSubQuery::CheckTransaction()).                             *)
THEOREM SumsByCells == Spec => []QInv
<1> QED
  BY QInvInit, QInvStep, PTL DEF Spec

-----------------------------------------------------------------------------
(* The sums against the transactions that were run.                        *)

(* A sum by SumFunction() is a sum over the domain.                        *)
LEMMA SumOver ==
  ASSUME NEW S, IsFiniteSet(S), NEW f, DOMAIN f = S
  PROVE  SumFunction(f) = SumFunctionOnSet(f, S)
  BY DEF SumFunction

(* The sums of a currency.                                                 *)
OfCurrency(c) == {k \in DOMAIN sums : k[2] = c}
(* The transactions that the filters of the query ask for.                 *)
Asked(t) == t.date \in filter.min .. filter.max /\ (filter.include <=> t.topic \in filter.ids)
AskedIn(c) == {t \in Transactions : t.currency = c /\ Asked(t)}
(* How often each of them was run, times its share of a leg.               *)
Tally(c, share) == [t \in AskedIn(c) |-> seen[t] * share[t]]
(* The share of a transaction in the count, in income and in expense.      *)
One == [t \in Transactions |-> 1]
Inc == [t \in Transactions |-> IF t.amount > 0 THEN t.amount ELSE 0]
Exp == [t \in Transactions |-> IF t.amount < 0 THEN t.amount ELSE 0]

(* All the sums of a currency together are the tally of its transactions.  *)
Exact ==
  \A c \in Currencies :
    LET r == Totals(sums, OfCurrency(c))
    IN  /\ r.count = SumFunctionOnSet(Tally(c, One), AskedIn(c))
        /\ r.native["inc"] = SumFunctionOnSet(Tally(c, Inc), AskedIn(c))
        /\ r.native["exp"] = SumFunctionOnSet(Tally(c, Exp), AskedIn(c))

(* The transactions asked for are finitely many.                           *)
LEMMA AskedFinite ==
  ASSUME NEW c PROVE IsFiniteSet(AskedIn(c)) /\ AskedIn(c) \subseteq Transactions
  BY FS_Subset, QueriesAssumption DEF QueriesAssumption, AskedIn

(* The filters let through what the query asks for.                        *)
LEMMA LetsAsked ==
  ASSUME QTypes, NEW t \in Transactions PROVE Lets(t) <=> Asked(t)
<1>1. t.date \in Int
  BY QueriesAssumption DEF QueriesAssumption
<1>2. filter.min \in Int /\ filter.max \in Int /\ filter.include \in BOOLEAN
  BY QueriesAssumption DEF QueriesAssumption, QTypes
<1> QED
  BY <1>1, <1>2 DEF Lets, Asked

(* Nothing was run, and nothing is summed.                                 *)
LEMMA ExactInit == Init => Exact
<1> SUFFICES ASSUME Init, NEW c \in Currencies
    PROVE  LET r == Totals(sums, OfCurrency(c))
           IN  /\ r.count = SumFunctionOnSet(Tally(c, One), AskedIn(c))
               /\ r.native["inc"] = SumFunctionOnSet(Tally(c, Inc), AskedIn(c))
               /\ r.native["exp"] = SumFunctionOnSet(Tally(c, Exp), AskedIn(c))
  BY DEF Exact
<1>1. OfCurrency(c) = {}
  <2>1. DOMAIN sums = {}
    BY DEF Init
  <2> QED
    BY <2>1 DEF OfCurrency
<1>2. Totals(sums, OfCurrency(c)) = NoResult
  BY <1>1, TotalsNone
<1>3. ASSUME NEW share, \A t \in Transactions : share[t] \in Int
      PROVE  SumFunctionOnSet(Tally(c, share), AskedIn(c)) = 0
  <2>1. \A t \in AskedIn(c) : Tally(c, share)[t] = 0
    <3>1. \A t \in AskedIn(c) : t \in Transactions
      BY AskedFinite
    <3>2. \A t \in Transactions : seen[t] = 0
      BY DEF Init
    <3>3. \A n \in Int : 0 * n = 0
      OBVIOUS
    <3> QED
      BY <1>3, <3>1, <3>2, <3>3 DEF Tally
  <2> QED
    BY <2>1, AskedFinite, SumZero
<1>4. /\ \A t \in Transactions : One[t] \in Int
      /\ \A t \in Transactions : Inc[t] \in Int
      /\ \A t \in Transactions : Exp[t] \in Int
  BY QueriesAssumption DEF QueriesAssumption, One, Inc, Exp
<1>5. /\ SumFunctionOnSet(Tally(c, One), AskedIn(c)) = 0
      /\ SumFunctionOnSet(Tally(c, Inc), AskedIn(c)) = 0
      /\ SumFunctionOnSet(Tally(c, Exp), AskedIn(c)) = 0
  BY <1>3, <1>4
<1> QED
  BY <1>2, <1>5, NoResultTyped DEF Legs

(* A tally grows by the share of the transaction that is run, if it is     *)
(* asked for.                                                              *)
LEMMA TallyMoves ==
  ASSUME QInv, NEW t \in Transactions, RunQuery(t), NEW c \in Currencies,
         NEW share, \A u \in Transactions : share[u] \in Int
  PROVE  /\ AskedIn(c)' = AskedIn(c)
         /\ t \in AskedIn(c) =>
              SumFunctionOnSet([u \in AskedIn(c) |-> seen'[u] * share[u]], AskedIn(c))
                = SumFunctionOnSet(Tally(c, share), AskedIn(c)) + share[t]
         /\ t \notin AskedIn(c) =>
              SumFunctionOnSet([u \in AskedIn(c) |-> seen'[u] * share[u]], AskedIn(c))
                = SumFunctionOnSet(Tally(c, share), AskedIn(c))
<1> DEFINE S == AskedIn(c)
           f == Tally(c, share)
           g == [u \in S |-> seen'[u] * share[u]]
           d == share[t]
<1>1. filter' = filter
  BY DEF RunQuery
<1>2. AskedIn(c)' = AskedIn(c)
  BY <1>1 DEF AskedIn, Asked
<1>3. seen \in [Transactions -> Nat] /\ seen' = [seen EXCEPT ![t] = @ + 1]
  BY DEF QInv, QTypes, RunQuery
<1>4. IsFiniteSet(S) /\ S \subseteq Transactions /\ d \in Int
  BY AskedFinite
<1>5. ASSUME NEW u \in S
      PROVE  /\ f[u] \in Int
             /\ u = t => g[u] = f[u] + d
             /\ u # t => g[u] = f[u]
  <2>1. seen[u] \in Nat /\ share[u] \in Int /\ u \in Transactions
    BY <1>3, <1>4
  <2>2. f[u] = seen[u] * share[u] /\ g[u] = seen'[u] * share[u]
    BY DEF Tally
  <2>3. seen'[u] = IF u = t THEN seen[u] + 1 ELSE seen[u]
    BY <1>3, <2>1
  <2>4. \A n \in Nat, a \in Int : n * a \in Int /\ (n + 1) * a = n * a + a
    OBVIOUS
  <2> HIDE DEF f, g
  <2> QED
    BY <2>1, <2>2, <2>3, <2>4
<1> HIDE DEF f, g, S, d
<1>6. t \in S => SumFunctionOnSet(g, S) = SumFunctionOnSet(f, S) + d
  <2>1. \A u \in S : f[u] \in Int /\ g[u] = IF u = t THEN f[u] + d ELSE f[u]
    BY <1>5
  <2> QED
    BY <1>4, <2>1, SumChanges
<1>7. t \notin S => SumFunctionOnSet(g, S) = SumFunctionOnSet(f, S)
  <2>1. ASSUME t \notin S PROVE \A u \in S : f[u] \in Int /\ f[u] = g[u]
    BY <1>5, <2>1
  <2> QED
    BY <1>4, <2>1, SumAgrees
<1> QED
  BY <1>2, <1>6, <1>7 DEF f, g, S, d

(* So do the sums of its currency, and no others.                          *)
LEMMA CurrencyMoves ==
  ASSUME QInv, NEW t \in Transactions, RunQuery(t), NEW c \in Currencies
  PROVE  /\ Lets(t) /\ c = t.currency =>
              Totals(sums', OfCurrency(c)') = Merged(Totals(sums, OfCurrency(c)), ResultOf(t))
         /\ ~(Lets(t) /\ c = t.currency) =>
              Totals(sums', OfCurrency(c)') = Totals(sums, OfCurrency(c))
<1>1. CASE ~Lets(t)
  <2>1. sums' = sums
    BY <1>1 DEF RunQuery
  <2> QED
    BY <1>1, <2>1 DEF OfCurrency
<1>2. CASE Lets(t)
  <2> DEFINE own == Own(t)
             K == OfCurrency(c)'
  <2>1. Booked(t)
    BY <1>2, RunsBooked
  <2>2. DOMAIN sums' = DOMAIN sums \cup {own} /\ sums' = AddTo(sums, own, t)
    BY <2>1 DEF Booked, MoreBy
  <2>3. own[2] = t.currency
    BY DEF Own
  <2> HIDE DEF own
  <2>4. K = {k \in DOMAIN sums' : k[2] = c}
    BY DEF OfCurrency
  <2>5. /\ K \subseteq DOMAIN sums \cup {own} /\ K \cap DOMAIN sums = OfCurrency(c)
        /\ own \in K <=> c = t.currency
    BY <2>2, <2>3, <2>4 DEF OfCurrency
  <2>6. IsFiniteSet(K \cap DOMAIN sums) /\ \A k \in DOMAIN sums : sums[k] \in Result
    <3>1. IsFiniteSet(DOMAIN sums) /\ \A k \in DOMAIN sums : sums[k] \in Result
      BY DEF QInv, QTypes
    <3> QED
      BY <3>1, FS_Subset
  <2> HIDE DEF K
  <2>7. /\ own \in K => Totals(AddTo(sums, own, t), K)
                          = Merged(Totals(sums, K \cap DOMAIN sums), ResultOf(t))
        /\ own \notin K => Totals(AddTo(sums, own, t), K) = Totals(sums, K \cap DOMAIN sums)
    BY <2>5, <2>6, TotalsAdd
  <2> QED
    BY <1>2, <2>2, <2>5, <2>7 DEF K
<1> QED
  BY <1>1, <1>2

(* The sums of a currency add up to a result.                              *)
LEMMA CurrencyTyped ==
  ASSUME QTypes, NEW c
  PROVE  /\ IsFiniteSet(OfCurrency(c)) /\ OfCurrency(c) \subseteq DOMAIN sums
         /\ Totals(sums, OfCurrency(c)) \in Result
<1>1. IsFiniteSet(OfCurrency(c)) /\ OfCurrency(c) \subseteq DOMAIN sums
  BY FS_Subset DEF OfCurrency, QTypes
<1> QED
  BY <1>1, TotalsTyped DEF QTypes

(* A run moves the sums and the tallies alike.                             *)
LEMMA ExactRun ==
  ASSUME QInv, Exact, NEW t \in Transactions, RunQuery(t), NEW c \in Currencies
  PROVE  /\ Totals(sums', OfCurrency(c)').count
              = SumFunctionOnSet([u \in AskedIn(c) |-> seen'[u] * One[u]], AskedIn(c))
         /\ Totals(sums', OfCurrency(c)').native["inc"]
              = SumFunctionOnSet([u \in AskedIn(c) |-> seen'[u] * Inc[u]], AskedIn(c))
         /\ Totals(sums', OfCurrency(c)').native["exp"]
              = SumFunctionOnSet([u \in AskedIn(c) |-> seen'[u] * Exp[u]], AskedIn(c))
<1> DEFINE r == Totals(sums, OfCurrency(c))
           q == Totals(sums', OfCurrency(c)')
           n == ResultOf(t)
<1>1. r.count = SumFunctionOnSet(Tally(c, One), AskedIn(c))
      /\ r.native["inc"] = SumFunctionOnSet(Tally(c, Inc), AskedIn(c))
      /\ r.native["exp"] = SumFunctionOnSet(Tally(c, Exp), AskedIn(c))
  BY DEF Exact
<1>2. r \in Result /\ n \in Result
  BY CurrencyTyped, ResultTyped DEF QInv
<1>3. t \in AskedIn(c) <=> Lets(t) /\ c = t.currency
  BY LetsAsked DEF QInv, AskedIn
<1>4. /\ t \in AskedIn(c) => q = Merged(r, n)
      /\ t \notin AskedIn(c) => q = r
  BY <1>3, CurrencyMoves
<1>5. t.amount \in Int
  BY QueriesAssumption DEF QueriesAssumption
<1>6. /\ \A u \in Transactions : One[u] \in Int
      /\ \A u \in Transactions : Inc[u] \in Int
      /\ \A u \in Transactions : Exp[u] \in Int
  BY QueriesAssumption DEF QueriesAssumption, One, Inc, Exp
<1>7. n.count = One[t] /\ n.native["inc"] = Inc[t] /\ n.native["exp"] = Exp[t]
  <2>1. n.count = 1 /\ n.native = LegsOf(t, t.amount)
    BY DEF ResultOf
  <2>2. n.native["inc"] = (IF t.amount > 0 THEN t.amount ELSE 0)
        /\ n.native["exp"] = (IF t.amount > 0 THEN 0 ELSE t.amount)
    BY <1>5, <2>1, LegsInt
  <2> HIDE DEF n
  <2> QED
    BY <1>5, <2>1, <2>2 DEF One, Inc, Exp
<1>8. ASSUME t \in AskedIn(c)
      PROVE  /\ q.count = r.count + n.count
             /\ q.native["inc"] = r.native["inc"] + n.native["inc"]
             /\ q.native["exp"] = r.native["exp"] + n.native["exp"]
  BY <1>2, <1>4, <1>8, MergedTyped DEF Legs
<1> HIDE DEF q, r, n
<1>9. ASSUME NEW share, \A u \in Transactions : share[u] \in Int
      PROVE  /\ t \in AskedIn(c) =>
                  SumFunctionOnSet([u \in AskedIn(c) |-> seen'[u] * share[u]], AskedIn(c))
                    = SumFunctionOnSet(Tally(c, share), AskedIn(c)) + share[t]
             /\ t \notin AskedIn(c) =>
                  SumFunctionOnSet([u \in AskedIn(c) |-> seen'[u] * share[u]], AskedIn(c))
                    = SumFunctionOnSet(Tally(c, share), AskedIn(c))
  BY <1>9, TallyMoves
<1> DEFINE T(share) == SumFunctionOnSet([u \in AskedIn(c) |-> seen'[u] * share[u]], AskedIn(c))
<1>10. /\ q.count = T(One) /\ q.native["inc"] = T(Inc) /\ q.native["exp"] = T(Exp)
  <2>1. CASE t \in AskedIn(c)
    BY <1>1, <1>6, <1>7, <1>8, <1>9, <2>1
  <2>2. CASE t \notin AskedIn(c)
    BY <1>1, <1>4, <1>6, <1>9, <2>2
  <2> QED
    BY <2>1, <2>2
<1> QED
  BY <1>10, Zenon DEF q

(* Every step keeps sums and tallies equal.                                *)
LEMMA ExactStep ==
  ASSUME QInv, Exact, [Next]_vars PROVE Exact'
<1>1. CASE UNCHANGED vars
  <2>1. sums' = sums /\ filter' = filter /\ seen' = seen
    BY <1>1 DEF vars
  <2>2. ASSUME NEW c \in Currencies
        PROVE  /\ OfCurrency(c)' = OfCurrency(c) /\ AskedIn(c)' = AskedIn(c)
               /\ \A share : Tally(c, share)' = Tally(c, share)
    BY <2>1 DEF OfCurrency, Tally, AskedIn, Asked
  <2> QED
    BY <2>1, <2>2, SMTT(30) DEF Exact
<1>2. ASSUME NEW t \in Transactions, RunQuery(t) PROVE Exact'
  <2>1. ASSUME NEW c \in Currencies
        PROVE  AskedIn(c)' = AskedIn(c)
    <3>1. filter' = filter
      BY <1>2 DEF RunQuery
    <3> QED
      BY <3>1 DEF AskedIn, Asked
  <2>2. ASSUME NEW c \in Currencies, NEW share
        PROVE  Tally(c, share)' = [u \in AskedIn(c) |-> seen'[u] * share[u]]
    BY <2>1 DEF Tally
  <2>3. ASSUME NEW c \in Currencies
        PROVE  /\ Totals(sums, OfCurrency(c))'.count
                    = SumFunctionOnSet(Tally(c, One), AskedIn(c))'
               /\ Totals(sums, OfCurrency(c))'.native["inc"]
                    = SumFunctionOnSet(Tally(c, Inc), AskedIn(c))'
               /\ Totals(sums, OfCurrency(c))'.native["exp"]
                    = SumFunctionOnSet(Tally(c, Exp), AskedIn(c))'
    <3>1. /\ Tally(c, One)' = [u \in AskedIn(c) |-> seen'[u] * One[u]]
          /\ Tally(c, Inc)' = [u \in AskedIn(c) |-> seen'[u] * Inc[u]]
          /\ Tally(c, Exp)' = [u \in AskedIn(c) |-> seen'[u] * Exp[u]]
      BY <2>2 DEF One, Inc, Exp
    <3> QED
      BY <1>2, <2>1, <3>1, ExactRun
  <2> QED
    BY <2>3, SMTT(30) DEF Exact
<1> QED
  BY <1>1, <1>2 DEF Next

(* The legs of totals fit together, since those of each result do.         *)
LEMMA SignedTotals ==
  ASSUME QInv, NEW c \in Currencies
  PROVE  LET r == Totals(sums, OfCurrency(c))
         IN  r.native["sum"] = r.native["inc"] + r.native["exp"] /\ r.ex[c] = r.native
<1> DEFINE S == OfCurrency(c)
           r == Totals(sums, S)
<1>1. /\ IsFiniteSet(S) /\ S \subseteq DOMAIN sums /\ r \in Result
      /\ \A k \in DOMAIN sums : sums[k] \in Result
  BY CurrencyTyped DEF QInv, QTypes
<1>2. \A k \in S : Signed(sums[k], c)
  BY DEF QInv, OfCurrency
<1>3. /\ \A l \in Legs : r.native[l] = SumFunctionOnSet(Natives(sums, l), S)
      /\ \A l \in Legs : r.ex[c][l] = SumFunctionOnSet(Exchangeds(sums, c, l), S)
  BY <1>1, TotalsTyped
<1> HIDE DEF S, r
<1>4. r.native["sum"] = r.native["inc"] + r.native["exp"]
  <2> DEFINE f == Natives(sums, "inc")
             g == Natives(sums, "exp")
             h == Natives(sums, "sum")
  <2>1. \A k \in S : f[k] \in Int /\ g[k] \in Int /\ h[k] = f[k] + g[k]
    <3>1. \A k \in S : f[k] = sums[k].native["inc"] /\ f[k] \in Int
      BY <1>1, ResultColumns DEF Legs
    <3>2. \A k \in S : g[k] = sums[k].native["exp"] /\ g[k] \in Int
      BY <1>1, ResultColumns DEF Legs
    <3>3. \A k \in S : h[k] = sums[k].native["sum"]
      BY <1>1 DEF Natives
    <3> HIDE DEF f, g, h
    <3> QED
      BY <1>2, <3>1, <3>2, <3>3 DEF Signed
  <2>2. r.native["sum"] = SumFunctionOnSet(h, S) /\ r.native["inc"] = SumFunctionOnSet(f, S)
        /\ r.native["exp"] = SumFunctionOnSet(g, S)
    BY <1>3 DEF Legs
  <2> HIDE DEF f, g, h
  <2> QED
    BY <1>1, <2>1, <2>2, SumPlus
<1>5. r.ex[c] = r.native
  <2>1. ASSUME NEW l \in Legs PROVE r.ex[c][l] = r.native[l]
    <3> DEFINE f == Exchangeds(sums, c, l)
               g == Natives(sums, l)
    <3>1. \A k \in S : f[k] \in Int /\ f[k] = g[k]
      <4>1. \A k \in S : f[k] = sums[k].ex[c][l] /\ f[k] \in Int
        BY <1>1, ResultColumns
      <4>2. \A k \in S : g[k] = sums[k].native[l]
        BY <1>1, ResultColumns
      <4> HIDE DEF f, g
      <4> QED
        BY <1>2, <4>1, <4>2 DEF Signed
    <3>2. r.ex[c][l] = SumFunctionOnSet(f, S) /\ r.native[l] = SumFunctionOnSet(g, S)
      BY <1>3
    <3> HIDE DEF f, g
    <3> QED
      BY <1>1, <3>1, <3>2, SumAgrees
  <2>2. r.ex[c] \in [Legs -> Int] /\ r.native \in [Legs -> Int]
    BY <1>1 DEF Result
  <2> QED
    BY <2>1, <2>2
<1> QED
  BY <1>4, <1>5 DEF r, S

(* GetResults() adds up the sums of a currency.                            *)
LEMMA SumsExact == QInv /\ Exact => SumsAreExact
<1> SUFFICES ASSUME QInv, Exact PROVE SumsAreExact
  OBVIOUS
<1>1. ASSUME NEW c \in Currencies PROVE GetResults(c) = Totals(sums, OfCurrency(c))
  BY CurrencyTyped, AllSums DEF GetResults, OfCurrency, QInv, QTypes
<1>2. ASSUME NEW c \in Currencies, NEW share
      PROVE  SumFunction([t \in {t \in Transactions : t.currency = c /\
                           t.date \in filter.min .. filter.max
                           /\ (filter.include <=> t.topic \in filter.ids)} |-> seen[t] * share[t]])
               = SumFunctionOnSet(Tally(c, share), AskedIn(c))
  BY DEF SumFunction, Tally, AskedIn, Asked
<1> DEFINE of(c, share) ==
             SumFunction([t \in {t \in Transactions : t.currency = c /\
                           (t.date \in filter.min .. filter.max
                            /\ (filter.include <=> t.topic \in filter.ids))} |-> seen[t] * share[t]])
<1>3. ASSUME NEW c \in Currencies
      PROVE  /\ GetResults(c).count = of(c, One)
             /\ GetResults(c).native.inc = of(c, Inc)
             /\ GetResults(c).native.exp = of(c, Exp)
             /\ GetResults(c).native.sum = GetResults(c).native.inc + GetResults(c).native.exp
             /\ GetResults(c).ex[c] = GetResults(c).native
  <2> DEFINE r == Totals(sums, OfCurrency(c))
  <2>1. GetResults(c) = r
    BY <1>1
  <2>2. r.native["sum"] = r.native["inc"] + r.native["exp"] /\ r.ex[c] = r.native
    BY SignedTotals
  <2>3. /\ r.count = SumFunctionOnSet(Tally(c, One), AskedIn(c))
        /\ r.native["inc"] = SumFunctionOnSet(Tally(c, Inc), AskedIn(c))
        /\ r.native["exp"] = SumFunctionOnSet(Tally(c, Exp), AskedIn(c))
    BY DEF Exact
  <2>4. of(c, One) = SumFunctionOnSet(Tally(c, One), AskedIn(c))
        /\ of(c, Inc) = SumFunctionOnSet(Tally(c, Inc), AskedIn(c))
        /\ of(c, Exp) = SumFunctionOnSet(Tally(c, Exp), AskedIn(c))
    BY <1>2
  <2> HIDE DEF r, of
  <2> QED
    BY <2>1, <2>2, <2>3, <2>4
<1> QED
  BY <1>3, Zenon DEF SumsAreExact, One, Inc, Exp

(* Whatever a query has run over, its results per currency are exactly the *)
(* transactions of the currency that its filters let through, each as      *)
(* often as it was run: none lost, counted twice or put under another      *)
(* currency (QuerySumByTopic::GetResults()).                               *)
THEOREM SumsExactly == Spec => []SumsAreExact
<1>1. Init => QInv /\ Exact
  BY QInvInit, ExactInit
<1>2. QInv /\ Exact /\ [Next]_vars => (QInv /\ Exact)'
  BY QInvStep, ExactStep
<1> QED
  BY <1>1, <1>2, SumsExact, PTL DEF Spec

-----------------------------------------------------------------------------
(* Sums of numbers that wrap around.                                       *)

(* Division with remainder, where the divisor is a constant.               *)
LEMMA Division ==
  ASSUME NEW m \in Nat, m > 0, NEW n \in Int
  PROVE  \E q \in Int : n = m * q + (n % m)
<1> DEFINE q == n \div m
           r == n % m
<1>1. q \in Int /\ q = n \div m /\ r = n % m
  OBVIOUS
<1> HIDE DEF q, r
<1>2. n = m * q + r
  BY <1>1, SMTT(60)
<1>3. n = m * q + (n % m)
  BY <1>2, Zenon DEF r
<1> QED
  BY <1>1, <1>3, Zenon

(* Whole divisors do not change the remainder.                             *)
LEMMA SameRemainder ==
  ASSUME NEW m \in Nat, m > 0, NEW n \in Int, NEW k \in Int
  PROVE  (n + m * k) % m = n % m
<1> DEFINE x == n + m * k
           r == n % m
           s == x % m
<1>1. m * k \in Int /\ x \in Int
  OBVIOUS
<1>2. PICK p \in Int : n = m * p + r
  BY Division
<1>3. PICK q \in Int : x = m * q + s
  BY <1>1, Division
<1>4. r \in 0 .. m - 1 /\ s \in 0 .. m - 1
  BY <1>1
<1> DEFINE d == p + k - q
<1>5. m * d = s - r /\ d \in Int
  <2>1. x = n + m * k /\ m * d = m * p + m * k - m * q /\ m * p \in Int /\ m * q \in Int
    OBVIOUS
  <2> HIDE DEF x, r, s
  <2> QED
    BY <1>1, <1>2, <1>3, <1>4, <2>1
<1> HIDE DEF d, x, r, s
<1>6. ~ (d >= 1)
  <2>1. ASSUME d >= 1 PROVE m * d >= m
    BY <1>5, <2>1
  <2> QED
    BY <1>4, <1>5, <2>1
<1>7. ~ (d <= -1)
  <2>1. ASSUME d <= -1 PROVE m * d <= -m
    BY <1>5, <2>1
  <2> QED
    BY <1>4, <1>5, <2>1
<1>8. d = 0
  BY <1>5, <1>6, <1>7
<1>9. s = r
  BY <1>4, <1>5, <1>8
<1> QED
  BY <1>9 DEF x, r, s

(* The numbers an int32_t has.                                             *)
Turn == 2 * Word

(* There are some.                                                         *)
LEMMA TurnNat == Turn \in Nat /\ Turn > 0 /\ Word \in Nat
  BY QueriesAssumption DEF QueriesAssumption, Turn

(* Every number is whole turns and a remainder.                            *)
LEMMA TurnDivision ==
  ASSUME NEW n \in Int PROVE \E q \in Int : n = Turn * q + (n % Turn)
  BY TurnNat, Division, Zenon

(* The wrapping of an int32_t loses whole turns only ...                   *)
LEMMA WrapTurns ==
  ASSUME NEW n \in Int
  PROVE  Int32(n) \in Int /\ \E k \in Int : Int32(n) = n + Turn * k
<1> DEFINE x == n + Word
           r == x % Turn
<1>1. x \in Int /\ Turn \in Nat /\ Turn > 0
  BY TurnNat
<1>2. PICK q \in Int : x = Turn * q + r
  BY <1>1, TurnDivision, Zenon
<1>3. r \in Int
  BY <1>1
<1>4. Int32(n) = r - Word
  BY DEF Int32, Turn
<1>5. Turn * (-q) = -(Turn * q) /\ Turn * q \in Int /\ -q \in Int
  BY <1>1
<1>6. x = n + Word
  OBVIOUS
<1> HIDE DEF x, r
<1>7. Int32(n) = n + Turn * (-q)
  BY <1>2, <1>3, <1>4, <1>5, <1>6, TurnNat
<1>8. Int32(n) \in Int
  BY <1>3, <1>4, TurnNat
<1> QED
  BY <1>5, <1>7, <1>8, Zenon

(* ... and whole turns do not matter to it ...                             *)
LEMMA WrapSame ==
  ASSUME NEW n \in Int, NEW k \in Int
  PROVE  Int32(n + Turn * k) = Int32(n)
<1>1. Turn * k \in Int /\ (n + Turn * k) + Word = (n + Word) + Turn * k /\ n + Word \in Int
  BY TurnNat
<1>2. ((n + Word) + Turn * k) % Turn = (n + Word) % Turn
  BY <1>1, TurnNat, SameRemainder
<1>3. ((n + Turn * k) + Word) % Turn = (n + Word) % Turn
  BY <1>1, <1>2
<1> QED
  BY <1>3 DEF Int32, Turn

(* ... so that it does not matter whether the parts of a sum were wrapped. *)
LEMMA WrapSum ==
  ASSUME NEW S, IsFiniteSet(S), NEW f, NEW g, \A x \in S : f[x] \in Int /\ g[x] = Int32(f[x])
  PROVE  Int32(SumFunctionOnSet(g, S)) = Int32(SumFunctionOnSet(f, S))
<1> DEFINE F(T) == SumFunctionOnSet(f, T)
           H(T) == SumFunctionOnSet(g, T)
           G == {T \in SUBSET S : \E k \in Int : H(T) = F(T) + Turn * k}
<1>0. \A x \in S : g[x] \in Int
  BY WrapTurns
<1>1. ASSUME NEW T \in SUBSET S
      PROVE  /\ IsFiniteSet(T) /\ F(T) \in Int /\ H(T) \in Int
             /\ \A x \in T : F(T) = f[x] + F(T \ {x}) /\ H(T) = g[x] + H(T \ {x})
  <2>1. IsFiniteSet(T) /\ (\A x \in T : f[x] \in Int) /\ \A x \in T : g[x] \in Int
    BY <1>0, FS_Subset
  <2> QED
    BY <2>1, SumInt, SumTake
<1>2. {} \in G
  <2>1. F({}) = 0 /\ H({}) = 0 /\ Turn * 0 = 0
    BY SumEmpty, TurnNat
  <2> HIDE DEF F, H
  <2> QED
    BY <2>1
<1>3. ASSUME NEW T \in SUBSET S, T # {}, \A x \in T : T \ {x} \in G
      PROVE  T \in G
  <2>1. PICK x \in T : TRUE
    BY <1>3
  <2> DEFINE U == T \ {x}
  <2>2. F(T) = f[x] + F(U) /\ H(T) = g[x] + H(U) /\ x \in S /\ F(U) \in Int /\ H(U) \in Int
    BY <1>1
  <2>3. PICK k \in Int : H(U) = F(U) + Turn * k
    BY <1>3
  <2>4. PICK j \in Int : g[x] = f[x] + Turn * j
    BY <2>2, WrapTurns
  <2>5. Turn * (j + k) = Turn * j + Turn * k /\ Turn * j \in Int /\ Turn * k \in Int /\ f[x] \in Int
    BY <2>2, TurnNat
  <2> HIDE DEF F, H, U
  <2>6. H(T) = F(T) + Turn * (j + k)
    BY <2>2, <2>3, <2>4, <2>5
  <2>7. \E i \in Int : H(T) = F(T) + Turn * i
    BY <2>6
  <2> QED
    BY <2>7
<1>4. S \in G
  <2>1. \A T \in SUBSET S : T # {} /\ (\A x \in T : T \ {x} \in G) => T \in G
    BY <1>3
  <2> HIDE DEF G
  <2> QED
    BY <1>2, <2>1, PartByPart
<1>5. PICK k \in Int : H(S) = F(S) + Turn * k
  BY <1>4
<1>6. F(S) \in Int
  BY <1>1
<1> HIDE DEF F, H
<1>7. Int32(H(S)) = Int32(F(S))
  BY <1>5, <1>6, WrapSame
<1> QED
  BY <1>7 DEF F, H

-----------------------------------------------------------------------------
(* The table of a periodic query: rows, columns and cells.                 *)

(* The cells of a period, and the sum that a cell belongs to.              *)
OfPeriod(p) == {c \in DOMAIN cells : c[2] = p}
SumKey == [c \in DOMAIN cells |-> <<c[1], c[3]>>]

(* A cell is in one of the columns that the table shows.                   *)
LEMMA EveryCellHasItsColumn ==
  ASSUME QInv, NEW c \in DOMAIN cells PROVE c[2] \in Columns
<1>1. c[2] \in Range(PeriodOf)
  BY DEF QInv, QTypes
<1>2. c[1] \in DOMAIN span /\ span[c[1]][1] <= c[2] /\ c[2] <= span[c[1]][2]
      /\ span[c[1]][2] \in Int /\ c[2] \in Int
  BY <1>1, QueriesAssumption DEF QInv, Spanned, QueriesAssumption
<1> QED
  BY <1>1, <1>2 DEF Columns

(* The columns are finitely many.                                          *)
LEMMA ColumnsFinite == IsFiniteSet(Columns)
<1> DEFINE f == [d \in DOMAIN PeriodOf |-> PeriodOf[d]]
<1>1. f \in Surjection(DOMAIN PeriodOf, Range(PeriodOf))
  BY DEF Surjection, Range
<1>2. IsFiniteSet(Range(PeriodOf))
  <2> HIDE DEF f
  <2> QED
    BY <1>1, FS_Surjection, QueriesAssumption DEF QueriesAssumption
<1> QED
  BY <1>2, FS_Subset DEF Columns

(* The tables are finite and hold results.                                 *)
LEMMA CellsTyped ==
  ASSUME QInv
  PROVE  /\ IsFiniteSet(DOMAIN cells) /\ \A c \in DOMAIN cells : cells[c] \in Result
         /\ IsFiniteSet(DOMAIN sums) /\ \A k \in DOMAIN sums : sums[k] \in Result
  BY DEF QInv, QTypes

(* All() over cells adds up column by column.                              *)
LEMMA TotalsOfCells ==
  ASSUME QInv, NEW S, S \subseteq DOMAIN cells
  PROVE  /\ All(cells, S) = Totals(cells, S) /\ IsFiniteSet(S) /\ Totals(cells, S) \in Result
         /\ \A l \in Legs : Totals(cells, S).native[l] = SumFunctionOnSet(Natives(cells, l), S)
         /\ \A c \in Currencies : \A l \in Legs :
              Totals(cells, S).ex[c][l] = SumFunctionOnSet(Exchangeds(cells, c, l), S)
<1>1. IsFiniteSet(S)
  BY CellsTyped, FS_Subset
<1> QED
  BY <1>1, CellsTyped, AllSums, TotalsTyped

(* A sum is what its cells add up to, leg by leg.                          *)
LEMMA SumOfCells ==
  ASSUME QInv, NEW k \in DOMAIN sums
  PROVE  /\ CellsOf(k) = {c \in DOMAIN cells : SumKey[c] = k}
         /\ \A l \in Legs : sums[k].native[l] = SumFunctionOnSet(Natives(cells, l), CellsOf(k))
         /\ \A c \in Currencies : \A l \in Legs :
              sums[k].ex[c][l] = SumFunctionOnSet(Exchangeds(cells, c, l), CellsOf(k))
<1>1. k = <<k[1], k[2]>>
  BY DEF QInv, QTypes
<1>2. CellsOf(k) = {c \in DOMAIN cells : SumKey[c] = k}
  BY <1>1 DEF CellsOf, SumKey
<1>3. CellsOf(k) \subseteq DOMAIN cells /\ sums[k] = Totals(cells, CellsOf(k))
  BY DEF CellsOf, QInv, Split
<1> QED
  BY <1>2, <1>3, TotalsOfCells

(* Every cell belongs to a sum.                                            *)
LEMMA SumsOfKeys ==
  ASSUME QInv PROVE \A c \in DOMAIN cells : SumKey[c] \in DOMAIN sums
  BY DEF QInv, TopicKeys, SumKey

(* All sums and all cells have the same whole.                             *)
LEMMA SameWhole ==
  ASSUME QInv, NEW x \in Currencies, NEW l \in Legs
  PROVE  Totals(sums, DOMAIN sums).ex[x][l] = Totals(cells, DOMAIN cells).ex[x][l]
<1> DEFINE f == Exchangeds(cells, x, l)
           g == Exchangeds(sums, x, l)
<1>1. \A c \in DOMAIN cells : f[c] \in Int
  BY CellsTyped, ResultColumns
<1>2. \A k \in DOMAIN sums : g[k] = SumFunctionOnSet(f, {c \in DOMAIN cells : SumKey[c] = k})
  <2> TAKE k \in DOMAIN sums
  <2>1. g[k] = sums[k].ex[x][l]
    BY DEF Exchangeds
  <2> HIDE DEF g, f
  <2> QED
    BY <2>1, SumOfCells DEF f
<1>3. Totals(sums, DOMAIN sums).ex[x][l] = SumFunctionOnSet(g, DOMAIN sums)
  BY CellsTyped, TotalsTyped
<1>4. Totals(cells, DOMAIN cells).ex[x][l] = SumFunctionOnSet(f, DOMAIN cells)
  BY TotalsOfCells
<1> HIDE DEF f, g
<1>5. SumFunctionOnSet(g, DOMAIN sums) = SumFunctionOnSet(f, DOMAIN cells)
  <2>1. /\ IsFiniteSet(DOMAIN cells) /\ IsFiniteSet(DOMAIN sums)
        /\ \A c \in DOMAIN cells : SumKey[c] \in DOMAIN sums
    BY CellsTyped, SumsOfKeys
  <2>2. Groups(g, DOMAIN sums, f, DOMAIN cells, SumKey)
    BY <1>1, <1>2, <2>1 DEF Groups
  <2> QED
    BY <2>2, SumByKey
<1> QED
  BY <1>3, <1>4, <1>5

(* The totals of the columns add up to the whole of the cells.             *)
LEMMA ColumnsAddUp ==
  ASSUME QInv
  PROVE  Int32(SumFunction([p \in Columns |-> ColumnTotal(p)]))
           = Int32(Totals(cells, DOMAIN cells).ex[Default]["sum"])
<1> DEFINE f == Exchangeds(cells, Default, "sum")
           h == [p \in Columns |-> SumFunctionOnSet(f, OfPeriod(p))]
           g == [p \in Columns |-> ColumnTotal(p)]
           at == [c \in DOMAIN cells |-> c[2]]
<1>0. Default \in Currencies /\ "sum" \in Legs
  BY QueriesAssumption DEF QueriesAssumption, Legs
<1>1. \A c \in DOMAIN cells : f[c] \in Int
  BY <1>0, CellsTyped, ResultColumns
<1>2. ASSUME NEW p \in Columns
      PROVE  h[p] \in Int /\ g[p] = Int32(h[p])
             /\ h[p] = SumFunctionOnSet(f, {c \in DOMAIN cells : at[c] = p})
  <2>1. OfPeriod(p) \subseteq DOMAIN cells /\ OfPeriod(p) = {k \in DOMAIN cells : k[2] = p}
    BY DEF OfPeriod
  <2>2. All(cells, OfPeriod(p)).ex[Default]["sum"] = SumFunctionOnSet(f, OfPeriod(p))
        /\ IsFiniteSet(OfPeriod(p))
    BY <1>0, <2>1, TotalsOfCells
  <2>3. ColumnTotal(p) = Int32(SumFunctionOnSet(f, OfPeriod(p)))
    BY <2>1, <2>2 DEF ColumnTotal
  <2>4. SumFunctionOnSet(f, OfPeriod(p)) \in Int
    <3> HIDE DEF f
    <3> QED
      BY <1>1, <2>1, <2>2, SumInt
  <2>5. OfPeriod(p) = {c \in DOMAIN cells : at[c] = p}
    BY DEF OfPeriod
  <2> HIDE DEF f, at
  <2> QED
    BY <2>3, <2>4, <2>5
<1>3. \A c \in DOMAIN cells : at[c] \in Columns
  BY EveryCellHasItsColumn
<1>4. SumFunction(g) = SumFunctionOnSet(g, Columns)
  BY DEF SumFunction
<1>5. Totals(cells, DOMAIN cells).ex[Default]["sum"] = SumFunctionOnSet(f, DOMAIN cells)
  BY <1>0, TotalsOfCells
<1> HIDE DEF f, g, h, at
<1>6. SumFunctionOnSet(h, Columns) = SumFunctionOnSet(f, DOMAIN cells)
  <2>1. Groups(h, Columns, f, DOMAIN cells, at)
    BY <1>1, <1>2, <1>3, CellsTyped, ColumnsFinite DEF Groups
  <2> QED
    BY <2>1, SumByKey
<1>7. Int32(SumFunctionOnSet(g, Columns)) = Int32(SumFunctionOnSet(h, Columns))
  BY <1>2, ColumnsFinite, WrapSum
<1> QED
  BY <1>4, <1>5, <1>6, <1>7 DEF g

(* The total of a row is its sum.                                          *)
LEMMA RowsAddUp ==
  ASSUME QInv, NEW k \in DOMAIN sums
  PROVE  RowTotal(k[1], k[2]) = Int32(sums[k].native["sum"])
<1>1. {c \in DOMAIN cells : c[1] = k[1] /\ c[2] \in Columns /\ c[3] = k[2]} = CellsOf(k)
  BY EveryCellHasItsColumn DEF CellsOf
<1>2. All(cells, CellsOf(k)) = sums[k]
  BY TotalsOfCells DEF CellsOf, QInv, Split
<1> QED
  BY <1>1, <1>2 DEF RowTotal

(* Rows and columns of the table of results have the same whole.           *)
LEMMA TablesOfSums == QInv => TablesAgree
<1> SUFFICES ASSUME QInv PROVE TablesAgree
  OBVIOUS
<1>1. {k \in DOMAIN cells : k[2] \in Columns} = DOMAIN cells
  BY EveryCellHasItsColumn
<1>2. GrandTotal = Int32(Totals(cells, DOMAIN cells).ex[Default]["sum"])
  BY <1>1, TotalsOfCells DEF GrandTotal
<1>3. ExchangedTotal = Totals(sums, DOMAIN sums).ex[Default]
  BY CellsTyped, AllSums DEF ExchangedTotal
<1>4. Totals(sums, DOMAIN sums).ex[Default]["sum"] = Totals(cells, DOMAIN cells).ex[Default]["sum"]
  BY SameWhole, QueriesAssumption DEF QueriesAssumption, Legs
<1>5. \A k \in DOMAIN sums : RowTotal(k[1], k[2]) = Int32(sums[k].native["sum"])
  BY RowsAddUp
<1>6. GrandTotal = Int32(ExchangedTotal["sum"])
  BY <1>2, <1>3, <1>4
<1>7. GrandTotal = Int32(SumFunction([p \in Columns |-> ColumnTotal(p)]))
  BY <1>2, ColumnsAddUp
<1> QED
  BY <1>5, <1>6, <1>7 DEF TablesAgree

(* The table of a periodic query adds up: each row to the sum of its       *)
(* topic, the columns together to what the rows have, even where the       *)
(* 32-bit totals wrap around (PeriodicQuery::GetTableResult()).            *)
THEOREM TablesAgreeAlways == Spec => []TablesAgree
  BY SumsByCells, TablesOfSums, PTL

-----------------------------------------------------------------------------
(* Series over the periods, and points over all time.                      *)

(* What a series shows in all is the sum of its topic.                     *)
LEMMA SeriesTotals ==
  ASSUME QInv, NEW k \in DOMAIN sums PROVE TotalsOf(k) = sums[k]
<1>1. {c \in DOMAIN cells : c[1] = k[1] /\ c[2] \in Columns /\ c[3] = k[2]} = CellsOf(k)
  BY EveryCellHasItsColumn DEF CellsOf
<1>2. All(cells, CellsOf(k)) = sums[k]
  BY TotalsOfCells DEF CellsOf, QInv, Split
<1> QED
  BY <1>1, <1>2 DEF TotalsOf

\* The leg that a dataset shows.
LegOf(d) == IF d = "net" \/ side = "net_sign" THEN "sum"
            ELSE IF d = "income" THEN "inc" ELSE "exp"

(* A dataset shows one leg, the expense turned positive.                   *)
LEMMA PickIsLeg ==
  ASSUME NEW d \in Datasets
  PROVE  /\ LegOf(d) \in Legs
         /\ d # "expense" => \A legs : Pick(d, legs) = legs[LegOf(d)]
         /\ d = "expense" => \A legs : Pick(d, legs) = -legs[LegOf(d)]
<1>1. LegOf(d) \in Legs
  BY DEF LegOf, Legs
<1>2. d # "net" => d = "income" \/ d = "expense"
  BY DEF Datasets
<1>3. ASSUME d # "expense", NEW legs PROVE Pick(d, legs) = legs[LegOf(d)]
  <2>1. CASE d = "net"
    <3>1. LegOf(d) = "sum"
      BY <2>1 DEF LegOf
    <3> QED
      BY <2>1, <3>1 DEF Pick
  <2>2. CASE d = "income" /\ side = "net_sign"
    <3>1. LegOf(d) = "sum"
      BY <2>2 DEF LegOf
    <3> QED
      BY <2>2, <3>1 DEF Pick
  <2>3. CASE d = "income" /\ side # "net_sign"
    BY <2>3 DEF Pick, LegOf
  <2> QED
    BY <1>2, <1>3, <2>1, <2>2, <2>3
<1>4. ASSUME d = "expense", NEW legs PROVE Pick(d, legs) = -legs[LegOf(d)]
  <2>1. CASE side = "net_sign"
    BY <1>4, <2>1 DEF Pick, LegOf
  <2>2. CASE side # "net_sign"
    BY <1>4, <2>2 DEF Pick, LegOf
  <2> QED
    BY <2>1, <2>2
<1> QED
  BY <1>1, <1>3, <1>4

(* That leg of a result in a currency, and over a table of results.        *)
LegIn(d, key, r, to) == IF key[2] = to THEN r.native[LegOf(d)] ELSE r.ex[to][LegOf(d)]
ColumnOf(d, key, f, to) == IF key[2] = to THEN Natives(f, LegOf(d))
                                          ELSE Exchangeds(f, to, LegOf(d))

(* So does what it shows in another currency.                              *)
LEMMA ExchangedIsLeg ==
  ASSUME NEW d \in Datasets, NEW key, NEW r, NEW to
  PROVE  /\ d # "expense" => Exchanged(d, key, r, to) = LegIn(d, key, r, to)
         /\ d = "expense" => Exchanged(d, key, r, to) = -LegIn(d, key, r, to)
<1>1. /\ d # "expense" => \A legs : Pick(d, legs) = legs[LegOf(d)]
      /\ d = "expense" => \A legs : Pick(d, legs) = -legs[LegOf(d)]
  BY PickIsLeg
<1> QED
  BY <1>1 DEF Exchanged, LegIn

(* A leg is a number ...                                                   *)
LEMMA LegInInt ==
  ASSUME NEW d \in Datasets, NEW key, NEW r \in Result, NEW to \in Currencies
  PROVE  LegIn(d, key, r, to) \in Int
  BY PickIsLeg DEF LegIn, Result

(* ... in every row of its column.                                         *)
LEMMA ColumnOfInt ==
  ASSUME NEW d \in Datasets, NEW key, NEW to \in Currencies,
         NEW f, \A c \in DOMAIN f : f[c] \in Result
  PROVE  \A c \in DOMAIN f : ColumnOf(d, key, f, to)[c] = LegIn(d, key, f[c], to)
                             /\ ColumnOf(d, key, f, to)[c] \in Int
<1> TAKE c \in DOMAIN f
<1>1. ColumnOf(d, key, f, to)[c] = LegIn(d, key, f[c], to)
  BY DEF ColumnOf, LegIn, Natives, Exchangeds
<1> QED
  BY <1>1, LegInInt

(* The leg of a sum is the sum over its cells.                             *)
LEMMA SumInColumn ==
  ASSUME QInv, NEW d \in Datasets, NEW k \in DOMAIN sums, NEW to \in Currencies
  PROVE  LegIn(d, k, sums[k], to)
           = SumFunctionOnSet(ColumnOf(d, k, cells, to), CellsOf(k))
  BY SumOfCells, PickIsLeg DEF LegIn, ColumnOf

\* Period after period, a series shows the cells of its sum.
LEMMA SeriesCells ==
  ASSUME QInv, NEW d \in Datasets, NEW k \in DOMAIN sums, NEW to \in Currencies,
         NEW g, g = [p \in Columns |-> LegIn(d, k, At(k, p), to)]
  PROVE  /\ \A p \in Columns : g[p] \in Int
         /\ SumFunctionOnSet(g, Columns) = LegIn(d, k, sums[k], to)
<1> DEFINE f == ColumnOf(d, k, cells, to)
           S == CellsOf(k)
           at == [c \in S |-> c[2]]
<1>1. IsFiniteSet(S) /\ S \subseteq DOMAIN cells /\ IsFiniteSet(Columns)
  BY TotalsOfCells, ColumnsFinite DEF CellsOf
<1>2. \A c \in DOMAIN cells : f[c] = LegIn(d, k, cells[c], to) /\ f[c] \in Int
  BY CellsTyped, ColumnOfInt
<1>3. \A c \in S : at[c] \in Columns
  BY <1>1, EveryCellHasItsColumn
<1>4. ASSUME NEW p \in Columns
      PROVE  g[p] \in Int /\ g[p] = SumFunctionOnSet(f, {c \in S : at[c] = p})
  <2> DEFINE c == <<k[1], p, k[2]>>
  <2>1. At(k, p) = IF c \in DOMAIN cells THEN cells[c] ELSE NoResult
    BY DEF At
  <2>2. \A x \in S : x = <<x[1], x[2], x[3]>> /\ x[1] = k[1] /\ x[3] = k[2]
    BY <1>1 DEF CellsOf, QInv, QTypes
  <2>3. c \in S <=> c \in DOMAIN cells
    BY DEF CellsOf
  <2>4. \A x \in S : at[x] = p <=> x = c
    BY <2>2
  <2>5. g[p] = LegIn(d, k, At(k, p), to)
    OBVIOUS
  <2> HIDE DEF c, S, f, at
  <2>6. CASE c \in DOMAIN cells
    <3>1. {x \in S : at[x] = p} = {c}
      BY <2>3, <2>4, <2>6
    <3>2. g[p] = f[c] /\ f[c] \in Int
      BY <1>2, <2>1, <2>5, <2>6
    <3> QED
      BY <3>1, <3>2, SumSingle
  <2>7. CASE c \notin DOMAIN cells
    <3>1. {x \in S : at[x] = p} = {}
      BY <2>3, <2>4, <2>7
    <3>2. g[p] = 0
      <4>1. LegIn(d, k, NoResult, to) = 0
        BY NoResultTyped, PickIsLeg DEF LegIn
      <4> QED
        BY <2>1, <2>5, <2>7, <4>1
    <3> QED
      BY <3>1, <3>2, SumEmpty
  <2> QED
    BY <2>6, <2>7
<1> HIDE DEF f, S, at
<1>5. Groups(g, Columns, f, S, at)
  BY <1>1, <1>2, <1>3, <1>4 DEF Groups
<1>6. SumFunctionOnSet(g, Columns) = SumFunctionOnSet(f, S)
  BY <1>5, SumByKey
<1> QED
  BY <1>4, <1>6, SumInColumn DEF f, S

(* What a series shows over its columns adds up to what its topic shows in *)
(* all.                                                                    *)
LEMMA SeriesAddUp ==
  ASSUME QInv, NEW d \in Datasets, NEW k \in DOMAIN sums, NEW to \in Currencies
  PROVE  SumFunction([p \in Columns |-> Exchanged(d, k, At(k, p), to)])
           = Exchanged(d, k, sums[k], to)
<1> DEFINE g == [p \in Columns |-> LegIn(d, k, At(k, p), to)]
           h == [p \in Columns |-> Exchanged(d, k, At(k, p), to)]
<1>1. (\A p \in Columns : g[p] \in Int) /\ SumFunctionOnSet(g, Columns) = LegIn(d, k, sums[k], to)
  BY SeriesCells
<1>2. SumFunction(h) = SumFunctionOnSet(h, Columns)
  BY DEF SumFunction
<1>3. \A p \in Columns : (d # "expense" => h[p] = g[p]) /\ (d = "expense" => h[p] = -g[p])
  BY ExchangedIsLeg
<1> HIDE DEF g, h
<1>4. CASE d # "expense"
  <2>1. \A p \in Columns : h[p] \in Int /\ h[p] = g[p]
    BY <1>1, <1>3, <1>4
  <2>2. SumFunctionOnSet(h, Columns) = SumFunctionOnSet(g, Columns)
    BY <2>1, ColumnsFinite, SumAgrees
  <2> QED
    BY <1>1, <1>2, <1>4, <2>2, ExchangedIsLeg DEF h
<1>5. CASE d = "expense"
  <2>1. \A p \in Columns : g[p] \in Int /\ h[p] = -g[p]
    BY <1>1, <1>3, <1>5
  <2>2. SumFunctionOnSet(h, Columns) = -SumFunctionOnSet(g, Columns)
    BY <2>1, ColumnsFinite, SumNegated
  <2> QED
    BY <1>1, <1>2, <1>5, <2>2, ExchangedIsLeg DEF h
<1> QED
  BY <1>4, <1>5

(* Series and points show the same topics and amounts.                     *)
LEMMA ShapesOfSums == QInv => ShapesAgree
<1> SUFFICES ASSUME QInv, NEW d \in Datasets
    PROVE  /\ DOMAIN SeriesPoints(d) = DOMAIN TopicPoints(d)
           /\ \A k \in DOMAIN SeriesPoints(d) : \A to \in Currencies :
                SumFunction([p \in Columns |-> Exchanged(d, k, SeriesPoints(d)[k][p], to)])
                  = Exchanged(d, k, TopicPoints(d)[k], to)
  BY DEF ShapesAgree
<1>1. {<<k[1], k[3]>> : k \in DOMAIN cells} = DOMAIN sums
  BY DEF QInv, TopicKeys
<1>2. \A k \in DOMAIN sums : TotalsOf(k) = sums[k]
  BY SeriesTotals
<1>3. DOMAIN SeriesPoints(d) = {k \in DOMAIN sums : Shows(d, sums[k].native)}
  BY <1>1, <1>2 DEF SeriesPoints
<1>4. DOMAIN TopicPoints(d) = {k \in DOMAIN sums : Shows(d, sums[k].native)}
  BY DEF TopicPoints
<1>5. ASSUME NEW k \in DOMAIN SeriesPoints(d), NEW to \in Currencies
      PROVE  SumFunction([p \in Columns |-> Exchanged(d, k, SeriesPoints(d)[k][p], to)])
               = Exchanged(d, k, TopicPoints(d)[k], to)
  <2>1. k \in DOMAIN sums /\ TopicPoints(d)[k] = sums[k]
    BY <1>3, <1>4 DEF TopicPoints
  <2>2. \A p \in Columns : SeriesPoints(d)[k][p] = At(k, p)
    BY <1>1, <1>3 DEF SeriesPoints
  <2>3. [p \in Columns |-> Exchanged(d, k, SeriesPoints(d)[k][p], to)]
          = [p \in Columns |-> Exchanged(d, k, At(k, p), to)]
    BY <2>2
  <2> QED
    BY <2>1, <2>3, SeriesAddUp
<1> QED
  BY <1>3, <1>4, <1>5

(* The two shapes of a chart agree: a series over the periods has the same *)
(* topics as the points over all time, and adds up to them in every        *)
(* currency (PeriodicQuery::GetChartResult(),                              *)
(* QuerySumByTopic::GetChartResult()).                                     *)
THEOREM ShapesAgreeAlways == Spec => []ShapesAgree
  BY SumsByCells, ShapesOfSums, PTL

-----------------------------------------------------------------------------
(* The datasets of a chart: income, expense and net.                       *)

(* Finitely many keys have finitely many labels.                           *)
LEMMA ImageFinite ==
  ASSUME NEW S, IsFiniteSet(S), NEW f PROVE IsFiniteSet({f[x] : x \in S})
<1> DEFINE T == {f[x] : x \in S}
           g == [x \in S |-> f[x]]
<1>1. g \in Surjection(S, T)
  BY DEF Surjection
<1> HIDE DEF g, T
<1>2. IsFiniteSet(T)
  BY <1>1, FS_Surjection
<1> QED
  BY <1>2 DEF T

\* The sums that a dataset shows among K, and what each is shown as.
Part(d, K) == {k \in K : Shows(d, sums[k].native)}
Value(d, to) == [k \in DOMAIN sums |-> Exchanged(d, k, sums[k], to)]
Shown(d, to) ==
  [k \in DOMAIN sums |-> IF Shows(d, sums[k].native) THEN Value(d, to)[k] ELSE 0]

(* Both are numbers.                                                       *)
LEMMA ShownInt ==
  ASSUME QInv, NEW d \in Datasets, NEW to \in Currencies, NEW k \in DOMAIN sums
  PROVE  Value(d, to)[k] \in Int /\ Shown(d, to)[k] \in Int
<1>1. sums[k] \in Result
  BY CellsTyped
<1>2. LegIn(d, k, sums[k], to) \in Int
  BY <1>1, LegInInt
<1>3. Exchanged(d, k, sums[k], to) \in Int
  BY <1>2, ExchangedIsLeg
<1> QED
  BY <1>3 DEF Value, Shown

(* Which topics a dataset shows, side by side.                             *)
LEMMA ShowsWhich ==
  ASSUME NEW legs
  PROVE  /\ Shows("net", legs) <=> legs["inc"] # 0 \/ legs["exp"] # 0
         /\ side = "net_sign" => (Shows("income", legs) <=> legs["inc"] + legs["exp"] >= 0)
         /\ side = "net_sign" => (Shows("expense", legs) <=> ~ (legs["inc"] + legs["exp"] >= 0))
         /\ side # "net_sign" => (Shows("income", legs) <=> legs["inc"] > 0)
         /\ side # "net_sign" => (Shows("expense", legs) <=> legs["exp"] < 0)
  BY DEF Shows

(* What it shows of them, side by side.                                    *)
LEMMA PickWhich ==
  ASSUME NEW legs
  PROVE  /\ Pick("net", legs) = legs["sum"]
         /\ side = "net_sign" => Pick("income", legs) = legs["sum"]
         /\ side = "net_sign" => Pick("expense", legs) = -legs["sum"]
         /\ side # "net_sign" => Pick("income", legs) = legs["inc"]
         /\ side # "net_sign" => Pick("expense", legs) = -legs["exp"]
  BY DEF Pick

(* For one sum, income less expense is the net, where what is not shown    *)
(* counts as zero.                                                         *)
LEMMA OneBalances ==
  ASSUME QInv, NEW to \in Currencies, NEW k \in DOMAIN sums
  PROVE  Shown("net", to)[k] = Shown("income", to)[k] - Shown("expense", to)[k]
<1> DEFINE n == sums[k].native
           legs == IF k[2] = to THEN n ELSE sums[k].ex[to]
<1>1. sums[k] \in Result /\ Signed(sums[k], k[2])
  BY DEF QInv, QTypes
<1>2. /\ n["inc"] \in Int /\ n["exp"] \in Int /\ n["inc"] >= 0 /\ n["exp"] <= 0
      /\ legs["inc"] \in Int /\ legs["exp"] \in Int /\ legs["sum"] = legs["inc"] + legs["exp"]
      /\ n["inc"] = 0 => legs["inc"] = 0
      /\ n["exp"] = 0 => legs["exp"] = 0
  <2>1. CASE k[2] = to
    BY <1>1, <2>1 DEF Signed, Result, Legs
  <2>2. CASE k[2] # to
    BY <1>1, <2>2 DEF Signed, Result, Legs
  <2> QED
    BY <2>1, <2>2
<1>3. \A d \in Datasets : Shown(d, to)[k] = IF Shows(d, n) THEN Pick(d, legs) ELSE 0
  BY DEF Shown, Value, Exchanged
<1>4. "net" \in Datasets /\ "income" \in Datasets /\ "expense" \in Datasets
  BY DEF Datasets
<1> HIDE DEF n, legs
<1>5. Shown("net", to)[k] = legs["sum"]
  BY <1>2, <1>3, <1>4, ShowsWhich, PickWhich
<1>6. CASE side = "net_sign"
  <2>1. Shown("income", to)[k] = (IF n["inc"] + n["exp"] >= 0 THEN legs["sum"] ELSE 0)
    BY <1>3, <1>4, <1>6, ShowsWhich, PickWhich
  <2>2. Shown("expense", to)[k] = (IF n["inc"] + n["exp"] >= 0 THEN 0 ELSE -legs["sum"])
    BY <1>3, <1>4, <1>6, ShowsWhich, PickWhich
  <2> QED
    BY <1>2, <1>5, <2>1, <2>2
<1>7. CASE side # "net_sign"
  <2>1. Shown("income", to)[k] = legs["inc"]
    BY <1>2, <1>3, <1>4, <1>7, ShowsWhich, PickWhich
  <2>2. Shown("expense", to)[k] = -legs["exp"]
    BY <1>2, <1>3, <1>4, <1>7, ShowsWhich, PickWhich
  <2> QED
    BY <1>2, <1>5, <2>1, <2>2
<1> QED
  BY <1>6, <1>7

(* What is not shown adds nothing.                                         *)
LEMMA ShownPart ==
  ASSUME QInv, NEW d \in Datasets, NEW to \in Currencies, NEW K, K \subseteq DOMAIN sums
  PROVE  /\ IsFiniteSet(K) /\ IsFiniteSet(Part(d, K))
         /\ SumFunctionOnSet(Value(d, to), Part(d, K)) = SumFunctionOnSet(Shown(d, to), K)
<1> DEFINE P == Part(d, K)
           f == Shown(d, to)
           g == Value(d, to)
<1>1. IsFiniteSet(K) /\ IsFiniteSet(P) /\ P \in SUBSET K
  BY CellsTyped, FS_Subset DEF Part
<1>2. \A k \in K : f[k] \in Int
  BY ShownInt
<1>3. (\A k \in K \ P : f[k] = 0) /\ \A k \in P : f[k] = g[k]
  BY DEF Part, Shown
<1> HIDE DEF P, f, g
<1>4. SumFunctionOnSet(f, K) = SumFunctionOnSet(f, P)
  BY <1>1, <1>2, <1>3, SumSupport
<1>5. SumFunctionOnSet(f, P) = SumFunctionOnSet(g, P)
  <2>1. \A k \in P : f[k] \in Int /\ f[k] = g[k]
    BY <1>1, <1>2, <1>3
  <2> QED
    BY <1>1, <2>1, SumAgrees
<1> QED
  BY <1>1, <1>4, <1>5 DEF P, f, g

(* So income less expense is the net for any set of sums.                  *)
LEMMA PartsBalance ==
  ASSUME QInv, NEW to \in Currencies, NEW K, K \subseteq DOMAIN sums
  PROVE  SumFunctionOnSet(Value("income", to), Part("income", K))
           - SumFunctionOnSet(Value("expense", to), Part("expense", K))
           = SumFunctionOnSet(Value("net", to), Part("net", K))
<1> DEFINE f == Shown("income", to)
           g == Shown("expense", to)
           h == Shown("net", to)
<1>1. "net" \in Datasets /\ "income" \in Datasets /\ "expense" \in Datasets
  BY DEF Datasets
<1>2. \A k \in K : f[k] \in Int /\ g[k] \in Int /\ h[k] = f[k] - g[k]
  BY <1>1, ShownInt, OneBalances
<1>3. IsFiniteSet(K)
  BY <1>1, ShownPart
<1>4. /\ SumFunctionOnSet(Value("income", to), Part("income", K)) = SumFunctionOnSet(f, K)
      /\ SumFunctionOnSet(Value("expense", to), Part("expense", K)) = SumFunctionOnSet(g, K)
      /\ SumFunctionOnSet(Value("net", to), Part("net", K)) = SumFunctionOnSet(h, K)
  BY <1>1, ShownPart
<1> HIDE DEF f, g, h
<1>5. SumFunctionOnSet(h, K) = SumFunctionOnSet(f, K) - SumFunctionOnSet(g, K)
  BY <1>2, <1>3, SumMinus
<1> QED
  BY <1>4, <1>5

(* The sums that are shown under a label, and the labels there are.        *)
Labelled(d, l) == {k \in Part(d, DOMAIN sums) : Label(d, k) = l}
Labels(d) == {Label(d, k) : k \in Part(d, DOMAIN sums)}

(* The points of a chart are the sums that are shown.                      *)
LEMMA PointsOfPart ==
  ASSUME NEW d
  PROVE  /\ DOMAIN TopicPoints(d) = Part(d, DOMAIN sums)
         /\ \A k \in Part(d, DOMAIN sums) : TopicPoints(d)[k] = sums[k]
  BY DEF TopicPoints, Part

(* The labels are finitely many.                                           *)
LEMMA LabelsFinite ==
  ASSUME QInv, NEW d \in Datasets PROVE IsFiniteSet(Labels(d))
<1> DEFINE P == Part(d, DOMAIN sums)
           f == [k \in P |-> Label(d, k)]
<1>1. IsFiniteSet(P)
  BY CellsTyped, FS_Subset DEF Part
<1>2. IsFiniteSet({f[k] : k \in P})
  <2> HIDE DEF f, P
  <2> QED
    BY <1>1, ImageFinite
<1>3. Labels(d) = {f[k] : k \in P}
  BY DEF Labels
<1> QED
  BY <1>2, <1>3

\* What is merged under a label.
LEMMA MergedLabels ==
  ASSUME QInv, NEW d \in Datasets, NEW to \in Currencies
  PROVE  /\ DOMAIN MergeConverted(d, TopicPoints(d), to) = Labels(d)
         /\ \A l \in Labels(d) :
              /\ MergeConverted(d, TopicPoints(d), to)[l]
                   = SumFunctionOnSet(Value(d, to), Labelled(d, l))
              /\ MergeConverted(d, TopicPoints(d), to)[l] \in Int
<1> DEFINE P == Part(d, DOMAIN sums)
           m == MergeConverted(d, TopicPoints(d), to)
<1>1. DOMAIN TopicPoints(d) = P /\ \A k \in P : TopicPoints(d)[k] = sums[k] /\ k \in DOMAIN sums
  BY PointsOfPart DEF Part
<1>2. DOMAIN m = Labels(d)
  BY <1>1 DEF MergeConverted, Labels
<1>3. ASSUME NEW l \in Labels(d)
      PROVE  m[l] = SumFunctionOnSet(Value(d, to), Labelled(d, l)) /\ m[l] \in Int
  <2> DEFINE S == Labelled(d, l)
             g == [k \in S |-> Exchanged(d, k, TopicPoints(d)[k], to)]
             f == Value(d, to)
  <2>1. S = {k \in DOMAIN TopicPoints(d) : Label(d, k) = l} /\ S \subseteq P
    BY <1>1 DEF Labelled
  <2>2. m[l] = SumFunction(g)
    BY <1>1, <2>1, <1>2 DEF MergeConverted, Labels
  <2>3. SumFunction(g) = SumFunctionOnSet(g, S)
    BY DEF SumFunction
  <2>4. \A k \in S : f[k] \in Int /\ f[k] = g[k]
    <3>1. \A k \in S : k \in DOMAIN sums /\ TopicPoints(d)[k] = sums[k]
      BY <1>1, <2>1
    <3>2. \A k \in S : g[k] = Exchanged(d, k, sums[k], to)
      BY <3>1
    <3>3. \A k \in S : f[k] = Exchanged(d, k, sums[k], to)
      BY <3>1 DEF Value
    <3>4. \A k \in S : f[k] \in Int
      BY <3>1, ShownInt
    <3> HIDE DEF f, g, S
    <3> QED
      BY <3>2, <3>3, <3>4
  <2>5. IsFiniteSet(S)
    <3>1. IsFiniteSet(P)
      BY CellsTyped, FS_Subset DEF Part
    <3> HIDE DEF S, P
    <3> QED
      BY <2>1, <3>1, FS_Subset
  <2> HIDE DEF S, f, g, m
  <2>6. SumFunctionOnSet(g, S) = SumFunctionOnSet(f, S)
    BY <2>4, <2>5, SumAgrees
  <2>7. SumFunctionOnSet(f, S) \in Int
    BY <2>4, <2>5, SumInt
  <2> QED
    BY <2>2, <2>3, <2>6, <2>7 DEF f, S
<1> QED
  BY <1>2, <1>3

(* All labels together are all the sums that are shown.                    *)
LEMMA WholeIsPart ==
  ASSUME QInv, NEW d \in Datasets, NEW to \in Currencies
  PROVE  SumFunction(MergeConverted(d, TopicPoints(d), to))
           = SumFunctionOnSet(Value(d, to), Part(d, DOMAIN sums))
<1> DEFINE m == MergeConverted(d, TopicPoints(d), to)
           f == Value(d, to)
           P == Part(d, DOMAIN sums)
           label == [k \in P |-> Label(d, k)]
<1>1. SumFunction(m) = SumFunctionOnSet(m, Labels(d))
  BY MergedLabels DEF SumFunction
<1>2. IsFiniteSet(P) /\ IsFiniteSet(Labels(d))
  BY CellsTyped, FS_Subset, LabelsFinite DEF Part
<1>3. \A k \in P : f[k] \in Int /\ label[k] \in Labels(d)
  <2>1. \A k \in P : f[k] \in Int
    BY ShownInt DEF Part
  <2>2. \A k \in P : label[k] \in Labels(d)
    BY DEF Labels
  <2> QED
    BY <2>1, <2>2
<1>4. \A l \in Labels(d) : m[l] = SumFunctionOnSet(f, {k \in P : label[k] = l})
  <2>1. \A l \in Labels(d) : Labelled(d, l) = {k \in P : label[k] = l}
    BY DEF Labelled
  <2>2. \A l \in Labels(d) : m[l] = SumFunctionOnSet(f, Labelled(d, l))
    BY MergedLabels
  <2> HIDE DEF m, f, P, label
  <2> QED
    BY <2>1, <2>2
<1> HIDE DEF m, f, P, label
<1>5. Groups(m, Labels(d), f, P, label)
  BY <1>2, <1>3, <1>4 DEF Groups
<1>6. SumFunctionOnSet(m, Labels(d)) = SumFunctionOnSet(f, P)
  BY <1>5, SumByKey
<1> QED
  BY <1>1, <1>6 DEF m, f, P

(* A label is the sums of its topic.                                       *)
LEMMA LabelIsPart ==
  ASSUME QInv, NEW d \in Datasets, NEW to \in Currencies, NEW l, side # "unsided"
  PROVE  (IF l \in DOMAIN MergeConverted(d, TopicPoints(d), to)
            THEN MergeConverted(d, TopicPoints(d), to)[l] ELSE 0)
           = SumFunctionOnSet(Value(d, to), Part(d, {k \in DOMAIN sums : k[1] = l}))
<1> DEFINE m == MergeConverted(d, TopicPoints(d), to)
           K == {k \in DOMAIN sums : k[1] = l}
<1>1. Labelled(d, l) = Part(d, K)
  BY DEF Labelled, Part, Label
<1>2. CASE l \in Labels(d)
  BY <1>1, <1>2, MergedLabels
<1>3. CASE l \notin Labels(d)
  <2>1. Labelled(d, l) = {}
    BY <1>3 DEF Labelled, Labels
  <2>2. SumFunctionOnSet(Value(d, to), Part(d, K)) = 0
    BY <1>1, <2>1, SumEmpty
  <2> QED
    BY <1>3, <2>2, MergedLabels
<1> QED
  BY <1>2, <1>3

(* What is shown in a currency is the sums of the currency.                *)
LEMMA ShownIsPart ==
  ASSUME QInv, NEW d \in Datasets, NEW c \in Currencies
  PROVE  SumFunction([k \in {k \in DOMAIN TopicPoints(d) : k[2] = c} |-> Pick(d, sums[k].native)])
           = SumFunctionOnSet(Value(d, c), Part(d, OfCurrency(c)))
<1> DEFINE S == {k \in DOMAIN TopicPoints(d) : k[2] = c}
           g == [k \in S |-> Pick(d, sums[k].native)]
           f == Value(d, c)
<1>1. S = Part(d, OfCurrency(c)) /\ S \subseteq DOMAIN sums
  BY PointsOfPart DEF Part, OfCurrency
<1>2. SumFunction(g) = SumFunctionOnSet(g, S)
  BY DEF SumFunction
<1>3. \A k \in S : f[k] \in Int /\ f[k] = g[k]
  <2>1. \A k \in S : f[k] \in Int
    BY <1>1, ShownInt
  <2>2. \A k \in S : f[k] = g[k]
    BY <1>1 DEF Value, Exchanged
  <2> QED
    BY <2>1, <2>2
<1>4. IsFiniteSet(S)
  <2> HIDE DEF S
  <2> QED
    BY <1>1, CellsTyped, FS_Subset
<1> HIDE DEF S, f, g
<1>5. SumFunctionOnSet(f, S) = SumFunctionOnSet(g, S)
  BY <1>3, <1>4, SumAgrees
<1> QED
  BY <1>1, <1>2, <1>5 DEF S, f, g

(* The three balances of a chart are balances of such sets.                *)
LEMMA ChartsOfSums == QInv => ChartsBalance
<1> SUFFICES ASSUME QInv PROVE ChartsBalance
  OBVIOUS
<1> DEFINE shown(d, c) ==
             SumFunction([k \in {k \in DOMAIN TopicPoints(d) : k[2] = c} |->
                            Pick(d, sums[k].native)])
           whole(d, to) == SumFunction(MergeConverted(d, TopicPoints(d), to))
           label(d, l, to) ==
             IF l \in DOMAIN MergeConverted(d, TopicPoints(d), to)
             THEN MergeConverted(d, TopicPoints(d), to)[l] ELSE 0
<1>1. "net" \in Datasets /\ "income" \in Datasets /\ "expense" \in Datasets
  BY DEF Datasets
<1>2. ASSUME NEW c \in Currencies
      PROVE  shown("income", c) - shown("expense", c) = shown("net", c)
  <2>1. OfCurrency(c) \subseteq DOMAIN sums
    BY DEF OfCurrency
  <2>2. \A d \in Datasets :
          shown(d, c) = SumFunctionOnSet(Value(d, c), Part(d, OfCurrency(c)))
    BY ShownIsPart
  <2> HIDE DEF shown
  <2> QED
    BY <1>1, <2>1, <2>2, PartsBalance
<1>3. ASSUME NEW to \in Currencies
      PROVE  whole("income", to) - whole("expense", to) = whole("net", to)
  <2>1. \A d \in Datasets :
          whole(d, to) = SumFunctionOnSet(Value(d, to), Part(d, DOMAIN sums))
    BY WholeIsPart
  <2> HIDE DEF whole
  <2> QED
    BY <1>1, <2>1, PartsBalance
<1>4. ASSUME side # "unsided", NEW to \in Currencies, NEW l
      PROVE  label("income", l, to) - label("expense", l, to) = label("net", l, to)
  <2> DEFINE K == {k \in DOMAIN sums : k[1] = l}
  <2>1. \A d \in Datasets : label(d, l, to) = SumFunctionOnSet(Value(d, to), Part(d, K))
    BY <1>4, LabelIsPart
  <2>2. K \subseteq DOMAIN sums
    OBVIOUS
  <2> HIDE DEF label, K
  <2> QED
    BY <1>1, <2>1, <2>2, PartsBalance
<1> QED
  BY <1>2, <1>3, <1>4, Zenon DEF ChartsBalance

(* Income less expense is the net in every chart: in each currency by      *)
(* itself, in all converted to one, and under each label where the sides   *)
(* are told apart (QuerySumByTopic::GetChartResult(),                      *)
(* MergeConvertedToCurrency()).                                            *)
THEOREM ChartsBalanceAlways == Spec => []ChartsBalance
  BY SumsByCells, ChartsOfSums, PTL

-----------------------------------------------------------------------------
(* The slices of a chart, and the tail that is folded into one.            *)

(* Of some sizes one is the least.                                         *)
LEMMA SmallestOf ==
  ASSUME NEW T, T # {}, NEW z, \A x \in T : z[x] \in Nat
  PROVE  \E x \in T : \A y \in T : z[x] <= z[y]
<1> DEFINE N == {z[x] : x \in T}
<1>1. N \subseteq Nat /\ N # {}
  OBVIOUS
<1> HIDE DEF N
<1>2. PICK n \in N : \A m \in N : n <= m
  BY <1>1, LeastNumber
<1> QED
  BY <1>2 DEF N

(* The sequences of all of D, each once, biggest first.                    *)
Sorted(D, z) ==
  {s \in SetToSeqs(D) : \A i, j \in DOMAIN s : i < j => z[s[i]] >= z[s[j]]}

(* Every finite set can be sorted by size, ties or not.                    *)
LEMMA CanBeSorted ==
  ASSUME NEW D, IsFiniteSet(D), NEW z, \A x \in D : z[x] \in Nat
  PROVE  Sorted(D, z) # {}
<1> DEFINE G == {T \in SUBSET D : Sorted(T, z) # {}}
<1>1. {} \in G
  <2>1. Cardinality({}) = 0
    BY FS_EmptySet
  <2> DEFINE s == [i \in 1 .. 0 |-> i]
  <2>2. s \in [1 .. 0 -> {}]
    OBVIOUS
  <2>3. s \in SetToSeqs({})
    BY <2>1, <2>2 DEF SetToSeqs
  <2>4. s \in Sorted({}, z)
    BY <2>3 DEF Sorted
  <2> QED
    BY <2>4
<1>2. ASSUME NEW T \in SUBSET D, T # {}, \A x \in T : T \ {x} \in G
      PROVE  T \in G
  <2>1. PICK x \in T : \A y \in T : z[x] <= z[y]
    BY <1>2, SmallestOf
  <2> DEFINE U == T \ {x}
             n == Cardinality(U)
  <2>2. IsFiniteSet(T)
    BY FS_Subset
  <2>3. n \in Nat /\ Cardinality(T) = n + 1
    <3>1. IsFiniteSet(U) /\ n = Cardinality(T) - 1
      BY <2>1, <2>2, FS_RemoveElement
    <3>2. Cardinality(T) \in Nat
      BY <2>2, FS_CardinalityType
    <3>3. n \in Nat
      BY <3>1, FS_CardinalityType
    <3> HIDE DEF n
    <3> QED
      BY <3>1, <3>2, <3>3
  <2>4. PICK s : s \in Sorted(U, z)
    BY <1>2
  <2>5. /\ s \in [1 .. n -> U] /\ DOMAIN s = 1 .. n
        /\ \A i, j \in 1 .. n : i # j => s[i] # s[j]
        /\ \A i, j \in 1 .. n : i < j => z[s[i]] >= z[s[j]]
    BY <2>4 DEF Sorted, SetToSeqs
  <2> DEFINE t == [i \in 1 .. n + 1 |-> IF i = n + 1 THEN x ELSE s[i]]
  <2> HIDE DEF n
  <2>6. \A i \in 1 .. n + 1 : i = n + 1 \/ i \in 1 .. n
    BY <2>3
  <2>7. t \in [1 .. n + 1 -> T] /\ DOMAIN t = 1 .. n + 1
    BY <2>5, <2>6
  <2>8. ASSUME NEW i \in 1 .. n + 1, NEW j \in 1 .. n + 1, i # j
        PROVE  t[i] # t[j]
    BY <2>3, <2>5, <2>6, <2>8
  <2>9. ASSUME NEW i \in 1 .. n + 1, NEW j \in 1 .. n + 1, i < j
        PROVE  z[t[i]] >= z[t[j]]
    <3>1. i \in 1 .. n /\ t[i] = s[i] /\ s[i] \in T /\ z[s[i]] \in Nat /\ z[x] \in Nat
      BY <2>3, <2>5, <2>9
    <3>2. CASE j = n + 1
      <4>1. t[j] = x
        BY <3>2
      <4> QED
        BY <2>1, <3>1, <4>1
    <3>3. CASE j # n + 1
      <4>1. j \in 1 .. n /\ t[j] = s[j]
        BY <2>6, <3>3
      <4> QED
        BY <2>5, <2>9, <3>1, <4>1
    <3> QED
      BY <3>2, <3>3
  <2>10. t \in SetToSeqs(T)
    <3> HIDE DEF t
    <3> QED
      BY <2>3, <2>7, <2>8 DEF SetToSeqs
  <2>11. t \in Sorted(T, z)
    <3> HIDE DEF t
    <3> QED
      BY <2>7, <2>9, <2>10 DEF Sorted
  <2> QED
    BY <2>11
<1>3. D \in G
  <2>1. \A T \in SUBSET D : T # {} /\ (\A x \in T : T \ {x} \in G) => T \in G
    BY <1>2
  <2> HIDE DEF G
  <2> QED
    BY <1>1, <2>1, PartByPart
<1> QED
  BY <1>3

(* A sorted sequence has each element once and in order.                   *)
LEMMA SortedOnce ==
  ASSUME NEW D, IsFiniteSet(D), NEW z, NEW s \in Sorted(D, z)
  PROVE  /\ s \in Seq(D) /\ Len(s) \in Nat /\ DOMAIN s = 1 .. Len(s)
         /\ \A i \in 1 .. Len(s) : s[i] \in D
         /\ \A i, j \in 1 .. Len(s) : i # j => s[i] # s[j]
         /\ \A i, j \in 1 .. Len(s) : i < j => z[s[i]] >= z[s[j]]
         /\ \A x \in D : \E i \in 1 .. Len(s) : x = s[i]
<1> DEFINE n == Cardinality(D)
<1>1. n \in Nat
  BY FS_CardinalityType
<1>2. /\ s \in [1 .. n -> D] /\ DOMAIN s = 1 .. n
      /\ \A i, j \in 1 .. n : i # j => s[i] # s[j]
      /\ \A i, j \in 1 .. n : i < j => z[s[i]] >= z[s[j]]
  BY DEF Sorted, SetToSeqs
<1>3. s \in Injection(1 .. n, D)
  <2> HIDE DEF n
  <2> QED
    BY <1>2 DEF Injection, IsInjective
<1>4. IsFiniteSet(1 .. n) /\ Cardinality(1 .. n) = n
  BY <1>1, FS_Interval
<1>5. s \in Surjection(1 .. n, D)
  BY <1>3, <1>4, FS_Injection
<1> HIDE DEF n
<1>6. \A x \in D : \E i \in 1 .. n : x = s[i]
  BY <1>5 DEF Surjection
<1>7. s \in Seq(D) /\ Len(s) = n
  BY <1>1, <1>2, SeqDef, LenProperties
<1> QED
  BY <1>1, <1>2, <1>6, <1>7

(* How big each slice is, and which slices are drawn.                      *)
Bigness(value) == [l \in DOMAIN value |-> Size(value, l)]
Drawn(value) == {l \in DOMAIN value : value[l] # 0}

(* The slices of a chart are the ones drawn, biggest first.                *)
LEMMA SlicesSorted ==
  ASSUME NEW value, IsFiniteSet(DOMAIN value), \A l \in DOMAIN value : value[l] \in Int
  PROVE  /\ IsFiniteSet(Drawn(value)) /\ Drawn(value) \subseteq DOMAIN value
         /\ \A l \in DOMAIN value : Bigness(value)[l] = Size(value, l) /\ Size(value, l) \in Nat
         /\ Slices(value) \in Sorted(Drawn(value), Bigness(value))
<1> DEFINE D == Drawn(value)
           z == Bigness(value)
<1>1. IsFiniteSet(D) /\ D \subseteq DOMAIN value
  BY FS_Subset DEF Drawn
<1>2. \A l \in DOMAIN value : z[l] = Size(value, l) /\ Size(value, l) \in Nat
  BY DEF Bigness, Size, Abs
<1> HIDE DEF D, z
<1>3. PICK s : s \in Sorted(D, z)
  <2>1. \A l \in D : z[l] \in Nat
    BY <1>1, <1>2
  <2> QED
    BY <1>1, <2>1, CanBeSorted
<1>4. ASSUME NEW q \in SetToSeqs(D)
      PROVE  q \in Sorted(D, z) <=>
               \A i, j \in DOMAIN q : i < j => Size(value, q[i]) >= Size(value, q[j])
  <2>1. \A i \in DOMAIN q : q[i] \in DOMAIN value
    BY <1>1 DEF SetToSeqs
  <2> QED
    BY <1>2, <2>1 DEF Sorted
<1>5. s \in SetToSeqs(D)
  BY <1>3 DEF Sorted
<1> DEFINE ok(q) == \A i, j \in DOMAIN q : i < j => Size(value, q[i]) >= Size(value, q[j])
<1>6. ok(s)
  BY <1>3, <1>4, <1>5
<1>7. Slices(value) = CHOOSE q \in SetToSeqs(D) : ok(q)
  BY DEF Slices, D, Drawn
<1> HIDE DEF ok
<1>8. Slices(value) \in SetToSeqs(D) /\ ok(Slices(value))
  BY <1>5, <1>6, <1>7, Zenon
<1>9. Slices(value) \in Sorted(D, z)
  BY <1>4, <1>8 DEF ok
<1> QED
  BY <1>1, <1>2, <1>9 DEF D, z

(* What the sums over a tail of the slices need.                           *)
Ranked(value, s) ==
  /\ Len(s) \in Nat /\ \A i \in 1 .. Len(s) : Size(value, s[i]) \in Nat
  /\ \A i, j \in 1 .. Len(s) : i # j => s[i] # s[j]

(* A tail is its first slice and the tail after it.                        *)
LEMMA SizeFromSum ==
  ASSUME NEW value, NEW s, Ranked(value, s),
         NEW n \in Nat, n >= 1
  PROVE  /\ SizeFrom(value, s, n) \in Nat
         /\ n <= Len(s) => SizeFrom(value, s, n) = Size(value, s[n]) + SizeFrom(value, s, n + 1)
         /\ n > Len(s) => SizeFrom(value, s, n) = 0
<1> USE DEF Ranked
<1> DEFINE f == [i \in n .. Len(s) |-> Size(value, s[i])]
           g == [i \in n + 1 .. Len(s) |-> Size(value, s[i])]
<1>1. SizeFrom(value, s, n) = SumFunctionOnSet(f, n .. Len(s))
  BY DEF SizeFrom, SumFunction
<1>2. SizeFrom(value, s, n + 1) = SumFunctionOnSet(g, n + 1 .. Len(s))
  BY DEF SizeFrom, SumFunction
<1>3. IsFiniteSet(n .. Len(s)) /\ IsFiniteSet(n + 1 .. Len(s))
  BY FS_Interval
<1>4. \A i \in n .. Len(s) : f[i] \in Nat
  OBVIOUS
<1>5. \A i \in n + 1 .. Len(s) : f[i] \in Int /\ f[i] = g[i]
  OBVIOUS
<1> HIDE DEF f, g
<1>6. SizeFrom(value, s, n) \in Nat
  BY <1>1, <1>3, <1>4, SumNat
<1>7. ASSUME n <= Len(s)
      PROVE  SizeFrom(value, s, n) = Size(value, s[n]) + SizeFrom(value, s, n + 1)
  <2>1. n \in n .. Len(s) /\ (n .. Len(s)) \ {n} = n + 1 .. Len(s)
    BY <1>7
  <2>2. \A i \in n .. Len(s) : f[i] \in Int
    BY <1>4
  <2>3. SumFunctionOnSet(f, n .. Len(s)) = f[n] + SumFunctionOnSet(f, (n .. Len(s)) \ {n})
    BY <1>3, <2>1, <2>2, SumTake
  <2>4. SumFunctionOnSet(f, n + 1 .. Len(s)) = SumFunctionOnSet(g, n + 1 .. Len(s))
    BY <1>3, <1>5, SumAgrees
  <2>5. f[n] = Size(value, s[n])
    BY <2>1 DEF f
  <2> QED
    BY <1>1, <1>2, <2>1, <2>3, <2>4, <2>5
<1>8. ASSUME n > Len(s) PROVE SizeFrom(value, s, n) = 0
  <2>1. n .. Len(s) = {}
    BY <1>8
  <2> QED
    BY <1>1, <2>1, SumEmpty
<1> QED
  BY <1>6, <1>7, <1>8

(* The cutoff is where the code's loop stops: the least tail that is too   *)
(* big lies just before it.                                                *)
LEMMA CutoffStops ==
  ASSUME NEW value, NEW s, Ranked(value, s)
  PROVE  /\ Cutoff(value, s) \in 0 .. Len(s)
         /\ SizeFrom(value, s, Cutoff(value, s) + 1) * Share <= SizeFrom(value, s, 1)
         /\ Cutoff(value, s) > 0 =>
              SizeFrom(value, s, Cutoff(value, s)) * Share > SizeFrom(value, s, 1)
<1> USE DEF Ranked
<1> DEFINE left(n) == SizeFrom(value, s, n)
           ok(n) == /\ left(n + 1) * Share <= left(1)
                    /\ n > 0 => left(n) * Share > left(1)
           T == {n \in 0 .. Len(s) : left(n + 1) * Share <= left(1)}
<1>1. \A n \in Nat : n >= 1 => left(n) \in Nat
  BY SizeFromSum
<1>2. left(Len(s) + 1) = 0
  BY SizeFromSum
<1>3. Share \in Nat
  BY QueriesAssumption DEF QueriesAssumption
<1>4. Cutoff(value, s) = CHOOSE n \in 0 .. Len(s) : ok(n)
  BY DEF Cutoff
<1> HIDE DEF left
<1>5. T \subseteq Nat /\ Len(s) \in T
  <2>1. 0 * Share = 0 /\ left(1) >= 0
    BY <1>1, <1>3
  <2> QED
    BY <1>2, <2>1
<1>6. PICK n \in T : \A m \in T : n <= m
  <2> HIDE DEF T
  <2> QED
    BY <1>5, LeastNumber
<1>7. ok(n)
  <2>1. ASSUME n > 0 PROVE left(n) * Share > left(1)
    <3>1. n - 1 \in 0 .. Len(s) /\ (n - 1) + 1 = n /\ n >= 1 /\ n \in Nat
      BY <1>6, <2>1
    <3>2. ~ (left(n) * Share <= left(1))
      <4>1. n - 1 \notin T
        <5> HIDE DEF T
        <5> QED
          BY <1>6, <3>1
      <4> QED
        BY <3>1, <4>1
    <3>3. left(n) * Share \in Int /\ left(1) \in Int
      BY <1>1, <1>3, <3>1
    <3> QED
      BY <3>2, <3>3
  <2> QED
    BY <1>6, <2>1
<1>8. n \in 0 .. Len(s)
  BY <1>6
<1> HIDE DEF ok
<1>9. Cutoff(value, s) \in 0 .. Len(s) /\ ok(Cutoff(value, s))
  BY <1>4, <1>7, <1>8, Zenon
<1> QED
  BY <1>9 DEF ok, left

(* The size of a tail is the sum over the set of its slices.               *)
LEMMA TailSum ==
  ASSUME NEW value, NEW s, Ranked(value, s),
         NEW n \in Nat, n >= 1, NEW S, S = {s[i] : i \in n .. Len(s)}
  PROVE  /\ IsFiniteSet(S)
         /\ SumFunction([l \in S |-> Size(value, l)]) = SizeFrom(value, s, n)
<1> USE DEF Ranked
<1> DEFINE I == n .. Len(s)
           f == [i \in I |-> Size(value, s[i])]
           g == [l \in S |-> Size(value, l)]
<1>1. IsFiniteSet(I) /\ \A i \in I : i \in 1 .. Len(s)
  BY FS_Interval
<1>2. IsFiniteSet(S)
  <2> HIDE DEF I
  <2>1. IsFiniteSet({s[i] : i \in I})
    BY <1>1, ImageFinite
  <2> QED
    BY <2>1 DEF I
<1>3. \A i \in I : f[i] \in Int /\ s[i] \in S
  OBVIOUS
<1>4. ASSUME NEW l \in S PROVE g[l] = SumFunctionOnSet(f, {i \in I : s[i] = l})
  <2>1. PICK i \in I : l = s[i]
    OBVIOUS
  <2>2. {j \in I : s[j] = l} = {i}
    BY <1>1, <2>1
  <2>3. f[i] = g[l] /\ f[i] \in Int
    BY <1>3, <2>1
  <2> HIDE DEF f, g, I
  <2> QED
    BY <2>2, <2>3, SumSingle
<1>5. SizeFrom(value, s, n) = SumFunctionOnSet(f, I) /\ SumFunction(g) = SumFunctionOnSet(g, S)
  BY DEF SizeFrom, SumFunction
<1> HIDE DEF f, g, I
<1>6. Groups(g, S, f, I, s)
  BY <1>1, <1>2, <1>3, <1>4 DEF Groups
<1>7. SumFunctionOnSet(g, S) = SumFunctionOnSet(f, I)
  BY <1>6, SumByKey
<1> QED
  BY <1>2, <1>5, <1>7 DEF g

(* The slices that are folded are the longest tail that is small enough.   *)
LEMMA TailIsTail ==
  ASSUME NEW value, IsFiniteSet(DOMAIN value), \A l \in DOMAIN value : value[l] \in Int,
         Folded(value) # {}
  PROVE  LET others == Folded(value)
             size(S) == SumFunction([l \in S |-> Size(value, l)])
         IN  /\ Cardinality(others) >= 2
             /\ size(others) * Share <= size(Drawn(value))
             /\ \A l \in Drawn(value) \ others :
                  /\ \A o \in others : Size(value, o) <= Size(value, l)
                  /\ size(others \cup {l}) * Share > size(Drawn(value))
<1> DEFINE s == Slices(value)
           n == Cutoff(value, s)
           D == Drawn(value)
           others == Folded(value)
           size(S) == SumFunction([l \in S |-> Size(value, l)])
           left(i) == SizeFrom(value, s, i)
<1>1. /\ IsFiniteSet(D) /\ D \subseteq DOMAIN value
      /\ \A l \in DOMAIN value : Bigness(value)[l] = Size(value, l) /\ Size(value, l) \in Nat
      /\ s \in Sorted(D, Bigness(value))
  BY SlicesSorted
<1>2. /\ s \in Seq(D) /\ Len(s) \in Nat
      /\ \A i \in 1 .. Len(s) : s[i] \in D
      /\ \A i, j \in 1 .. Len(s) : i # j => s[i] # s[j]
      /\ \A i, j \in 1 .. Len(s) : i < j => Bigness(value)[s[i]] >= Bigness(value)[s[j]]
      /\ \A x \in D : \E i \in 1 .. Len(s) : x = s[i]
  <2> HIDE DEF s, D
  <2> QED
    BY <1>1, SortedOnce
<1> HIDE DEF s, D
<1>3. \A i \in 1 .. Len(s) : Size(value, s[i]) \in Nat /\ Bigness(value)[s[i]] = Size(value, s[i])
  BY <1>1, <1>2
<1>4. \A i, j \in 1 .. Len(s) : i < j => Size(value, s[i]) >= Size(value, s[j])
  <2> SUFFICES ASSUME NEW i \in 1 .. Len(s), NEW j \in 1 .. Len(s), i < j
      PROVE  Size(value, s[i]) >= Size(value, s[j])
    OBVIOUS
  <2>1. Bigness(value)[s[i]] >= Bigness(value)[s[j]]
    BY <1>2
  <2> QED
    BY <1>3, <2>1
<1>a. Ranked(value, s)
  BY <1>2, <1>3 DEF Ranked
<1>5. /\ n \in 0 .. Len(s) /\ left(n + 1) * Share <= left(1)
      /\ n > 0 => left(n) * Share > left(1)
  BY <1>a, CutoffStops
<1>6. others = {s[i] : i \in n + 1 .. Len(s)} /\ Len(s) - n > 1
  <2>1. others = IF s = <<>> \/ Len(s) - n <= 1 THEN {} ELSE {s[i] : i \in n + 1 .. Len(s)}
    BY Zenon DEF Folded, s
  <2> HIDE DEF n
  <2>2. others # {}
    OBVIOUS
  <2> HIDE DEF others
  <2>3. Len(s) \in Nat /\ n \in Int
    BY <1>2, <1>5
  <2> QED
    BY <2>1, <2>2, <2>3
<1> HIDE DEF n, others
<1>7. n \in Nat /\ n + 1 \in Nat /\ n + 1 >= 1
  BY <1>5
<1>8. size(others) = left(n + 1) /\ IsFiniteSet(others)
  BY <1>a, <1>6, <1>7, TailSum
<1>9. size(D) = left(1)
  <2>1. D = {s[i] : i \in 1 .. Len(s)}
    BY <1>2
  <2> QED
    BY <1>a, <2>1, TailSum
<1>10. Cardinality(others) >= 2
  <2> DEFINE a == s[n + 1]
             b == s[n + 2]
  <2>1. n + 1 \in 1 .. Len(s) /\ n + 2 \in 1 .. Len(s) /\ n + 1 # n + 2
        /\ n + 1 \in n + 1 .. Len(s) /\ n + 2 \in n + 1 .. Len(s)
    BY <1>2, <1>6, <1>7
  <2>2. a \in others /\ b \in others /\ a # b
    BY <1>2, <1>6, <2>1
  <2> HIDE DEF a, b
  <2>3. IsFiniteSet({a}) /\ Cardinality({a}) = 1
    BY FS_Singleton
  <2>4. Cardinality({a} \cup {b}) = 2
    <3>1. b \notin {a}
      BY <2>2
    <3>2. Cardinality({a} \cup {b}) = IF b \in {a} THEN Cardinality({a}) ELSE Cardinality({a}) + 1
      BY <2>3, FS_AddElement
    <3> QED
      BY <2>3, <3>1, <3>2
  <2>5. Cardinality({a} \cup {b}) <= Cardinality(others)
    BY <1>8, <2>2, FS_Subset
  <2>6. Cardinality(others) \in Nat
    BY <1>8, FS_CardinalityType
  <2> QED
    BY <2>4, <2>5, <2>6
<1>11. ASSUME NEW l \in D \ others
       PROVE  /\ \A o \in others : Size(value, o) <= Size(value, l)
              /\ size(others \cup {l}) * Share > size(D)
  <2>1. PICK i \in 1 .. Len(s) : l = s[i]
    BY <1>2
  <2>2. i <= n
    BY <1>6, <1>7, <2>1
  <2>3. ASSUME NEW o \in others PROVE Size(value, o) <= Size(value, l)
    <3>1. PICK j \in n + 1 .. Len(s) : o = s[j]
      BY <1>6
    <3>2. j \in 1 .. Len(s) /\ i < j
      BY <1>2, <1>7, <2>2, <3>1
    <3>3. Size(value, s[i]) >= Size(value, s[j]) /\ Size(value, s[i]) \in Nat
          /\ Size(value, s[j]) \in Nat
      BY <1>3, <1>4, <3>2
    <3> QED
      BY <2>1, <3>1, <3>3
  <2>4. n >= 1 /\ n <= Len(s) /\ n \in 1 .. Len(s)
    BY <1>2, <1>5, <1>7, <2>2
  <2>5. left(n) = Size(value, s[n]) + left(n + 1) /\ left(n) \in Nat /\ left(n + 1) \in Nat
        /\ left(1) \in Nat
    <3>1. left(n) = Size(value, s[n]) + left(n + 1) /\ left(n) \in Nat
      BY <1>a, <1>7, <2>4, SizeFromSum
    <3>2. left(n + 1) \in Nat
      BY <1>a, <1>7, SizeFromSum
    <3>3. left(1) \in Nat
      BY <1>a, SizeFromSum
    <3> QED
      BY <3>1, <3>2, <3>3
  <2>6. Size(value, l) >= Size(value, s[n]) /\ Size(value, l) \in Nat /\ Size(value, s[n]) \in Nat
    <3>1. CASE i = n
      BY <1>3, <2>1, <2>4, <3>1
    <3>2. CASE i # n
      BY <1>3, <1>4, <2>1, <2>2, <2>4, <3>2
    <3> QED
      BY <3>1, <3>2
  <2>7. size(others \cup {l}) = Size(value, l) + size(others)
    <3> DEFINE S == others \cup {l}
               f == [x \in S |-> Size(value, x)]
               g == [x \in others |-> Size(value, x)]
    <3>1. IsFiniteSet(S) /\ S \ {l} = others /\ l \in S
      BY <1>8, FS_AddElement
    <3>2. \A x \in S : f[x] = Size(value, x) /\ f[x] \in Int
      <4>1. \A x \in others : x \in D
        <5>1. \A j \in n + 1 .. Len(s) : j \in 1 .. Len(s)
          BY <1>2, <1>7
        <5> HIDE DEF S, f, g
        <5> QED
          BY <1>2, <1>6, <5>1
      <4> QED
        BY <1>1, <4>1
    <3>3. \A x \in others : f[x] \in Int /\ f[x] = g[x]
      BY <3>2
    <3>4. size(S) = SumFunctionOnSet(f, S) /\ size(others) = SumFunctionOnSet(g, others)
      BY DEF SumFunction
    <3>5. \A x \in S : f[x] \in Int
      BY <3>2
    <3>6. f[l] = Size(value, l)
      BY <3>1, <3>2
    <3> HIDE DEF S, f, g
    <3>7. SumFunctionOnSet(f, S) = f[l] + SumFunctionOnSet(f, others)
      BY <3>1, <3>5, SumTake
    <3>8. SumFunctionOnSet(f, others) = SumFunctionOnSet(g, others)
      BY <1>8, <3>3, SumAgrees
    <3>9. size(S) = Size(value, l) + size(others)
      BY <3>4, <3>6, <3>7, <3>8
    <3> QED
      BY <3>9 DEF S
  <2> HIDE DEF size, left
  <2>8. size(others \cup {l}) >= left(n) /\ size(others \cup {l}) \in Nat
    BY <1>8, <2>5, <2>6, <2>7
  <2>9. ASSUME NEW a \in Nat, NEW b \in Nat, a >= b, NEW c \in Nat
        PROVE  a * c >= b * c /\ a * c \in Int /\ b * c \in Int
    <3>1. (a - b) * c >= 0
      BY <2>9
    <3> QED
      BY <2>9, <3>1
  <2>10. size(others \cup {l}) * Share >= left(n) * Share
         /\ size(others \cup {l}) * Share \in Int /\ left(n) * Share \in Int
    BY <2>5, <2>8, <2>9, QueriesAssumption DEF QueriesAssumption
  <2>11. left(n) * Share > left(1) /\ size(D) = left(1) /\ left(1) \in Int
    BY <1>5, <1>9, <2>4, <2>5
  <2>12. size(others \cup {l}) * Share > size(D)
    BY <2>10, <2>11
  <2> QED
    BY <2>3, <2>12 DEF size
<1>12. size(others) * Share <= size(D)
  BY <1>5, <1>8, <1>9
<1> QED
  BY <1>10, <1>11, <1>12 DEF others, D

(* This is so for the slices of every chart.                               *)
LEMMA OthersOfSums == QInv => OthersIsTheTail
<1> SUFFICES ASSUME QInv, NEW d \in Datasets, NEW to \in Currencies,
                    Folded(MergeConverted(d, TopicPoints(d), to)) # {}
    PROVE  LET value == MergeConverted(d, TopicPoints(d), to)
               others == Folded(value)
               size(S) == SumFunction([l \in S |-> Size(value, l)])
           IN  /\ Cardinality(others) >= 2
               /\ size(others) * Share <= size(Drawn(value))
               /\ \A l \in Drawn(value) \ others :
                    /\ \A o \in others : Size(value, o) <= Size(value, l)
                    /\ size(others \cup {l}) * Share > size(Drawn(value))
  BY Zenon DEF OthersIsTheTail, Drawn
<1> DEFINE value == MergeConverted(d, TopicPoints(d), to)
<1>1. IsFiniteSet(DOMAIN value) /\ \A l \in DOMAIN value : value[l] \in Int
  BY MergedLabels, LabelsFinite
<1> HIDE DEF value
<1>2. Folded(value) # {} =>
        LET others == Folded(value)
            size(S) == SumFunction([l \in S |-> Size(value, l)])
        IN  /\ Cardinality(others) >= 2
            /\ size(others) * Share <= size(Drawn(value))
            /\ \A l \in Drawn(value) \ others :
                 /\ \A o \in others : Size(value, o) <= Size(value, l)
                 /\ size(others \cup {l}) * Share > size(Drawn(value))
  BY <1>1, TailIsTail, Zenon
<1> QED
  BY <1>2 DEF value

(* What a chart folds into "Others" is at least two slices, none of them   *)
(* bigger than a slice left out of it, small enough together, and too big  *)
(* with any slice more (BuildFoldedTopicSlices()).                         *)
THEOREM OthersIsTheTailAlways == Spec => []OthersIsTheTail
  BY SumsByCells, OthersOfSums, PTL

-----------------------------------------------------------------------------
(* How much was counted, and where a span ends.                            *)

(* A sum counts at least one transaction, and no more than were run.       *)
Counted ==
  /\ SumFunction(seen) \in Nat /\ SumFunction(seen) <= MaxRun
  /\ \A k \in DOMAIN sums : sums[k].count >= 1 /\ sums[k].count <= SumFunction(seen)

(* A topic has a span if it has cells, and its ends are periods of them.   *)
Reached ==
  /\ DOMAIN span = {c[1] : c \in DOMAIN cells}
  /\ \A l \in DOMAIN span :
       /\ \E c \in DOMAIN cells : c[1] = l /\ c[2] = span[l][1]
       /\ \E c \in DOMAIN cells : c[1] = l /\ c[2] = span[l][2]

(* At first there is nothing to count.                                     *)
LEMMA CountedInit == Init => Counted /\ Reached
<1> SUFFICES ASSUME Init PROVE Counted /\ Reached
  OBVIOUS
<1>1. DOMAIN sums = {} /\ DOMAIN cells = {} /\ DOMAIN span = {}
  BY DEF Init
<1>2. DOMAIN seen = Transactions /\ \A t \in Transactions : seen[t] = 0
  BY DEF Init
<1>3. IsFiniteSet(Transactions) /\ MaxRun \in Nat
  BY QueriesAssumption DEF QueriesAssumption
<1>4. SumFunction(seen) = SumFunctionOnSet(seen, Transactions)
  BY <1>2, <1>3, SumOver
<1>5. SumFunctionOnSet(seen, Transactions) = 0
  BY <1>2, <1>3, SumZero
<1> QED
  BY <1>1, <1>3, <1>4, <1>5 DEF Counted, Reached

(* One more transaction was run.                                           *)
LEMMA OneMore ==
  ASSUME QInv, NEW t \in Transactions, RunQuery(t)
  PROVE  SumFunction(seen') = SumFunction(seen) + 1
<1>1. seen \in [Transactions -> Nat] /\ seen' = [seen EXCEPT ![t] = @ + 1]
  BY DEF QInv, QTypes, RunQuery
<1>2. IsFiniteSet(Transactions)
  BY QueriesAssumption DEF QueriesAssumption
<1>3. /\ DOMAIN seen = Transactions /\ DOMAIN seen' = Transactions
      /\ \A u \in Transactions :
           seen[u] \in Int /\ seen'[u] = IF u = t THEN seen[u] + 1 ELSE seen[u]
  BY <1>1
<1>4. SumFunctionOnSet(seen', Transactions) = SumFunctionOnSet(seen, Transactions) + 1
  BY <1>2, <1>3, SumChanges
<1>5. /\ SumFunction(seen) = SumFunctionOnSet(seen, Transactions)
      /\ SumFunction(seen') = SumFunctionOnSet(seen', Transactions)
  BY <1>2, <1>3, SumOver
<1> QED
  BY <1>4, <1>5

(* A run counts one transaction more, in one sum at most.                  *)
LEMMA RunCounts ==
  ASSUME QInv, Counted, NEW t \in Transactions, RunQuery(t)
  PROVE  Counted'
<1> DEFINE n == SumFunction(seen)
<1>1. SumFunction(seen') = n + 1 /\ n \in Nat /\ n < MaxRun
      /\ MaxRun \in Nat
  BY OneMore, QueriesAssumption DEF Counted, RunQuery, QueriesAssumption
<1>2. \A k \in DOMAIN sums :
        sums[k].count \in Int /\ sums[k].count >= 1 /\ sums[k].count <= n
  BY DEF Counted, QInv, QTypes, Result
<1>3. CASE ~Lets(t)
  <2>1. sums' = sums
    BY <1>3 DEF RunQuery
  <2>2. \A k \in DOMAIN sums' : sums'[k].count >= 1 /\ sums'[k].count <= n + 1
    <3> HIDE DEF n
    <3> QED
      BY <1>1, <1>2, <2>1
  <2> QED
    BY <1>1, <2>2 DEF Counted
<1>4. CASE Lets(t)
  <2> DEFINE own == Own(t)
  <2>1. Booked(t)
    BY <1>4, RunsBooked
  <2>2. /\ DOMAIN sums' = DOMAIN sums \cup {own}
        /\ \A k \in DOMAIN sums' : k # own => sums'[k] = sums[k]
        /\ own \in DOMAIN sums => sums'[own] = Merged(sums[own], ResultOf(t))
        /\ own \notin DOMAIN sums => sums'[own] = Merged(NoResult, ResultOf(t))
    BY <2>1 DEF Booked, MoreBy
  <2>3. \A r : Merged(r, ResultOf(t)).count = r.count + 1
    BY DEF Merged, ResultOf
  <2>4. NoResult.count = 0
    BY DEF NoResult
  <2>5. ASSUME NEW k \in DOMAIN sums'
        PROVE  sums'[k].count >= 1 /\ sums'[k].count <= n + 1
    <3> HIDE DEF n, own
    <3>1. CASE k # own
      <4>1. k \in DOMAIN sums /\ sums'[k] = sums[k]
        BY <2>2, <3>1
      <4> QED
        BY <1>1, <1>2, <4>1
    <3>2. CASE k = own /\ own \in DOMAIN sums
      <4>1. sums'[k].count = sums[own].count + 1
        BY <2>2, <2>3, <3>2
      <4> QED
        BY <1>1, <1>2, <3>2, <4>1
    <3>3. CASE k = own /\ own \notin DOMAIN sums
      <4>1. sums'[k].count = 0 + 1
        BY <2>2, <2>3, <2>4, <3>3
      <4> QED
        BY <1>1, <4>1
    <3> QED
      BY <3>1, <3>2, <3>3
  <2> QED
    BY <1>1, <2>5 DEF Counted
<1> QED
  BY <1>3, <1>4

(* A span is only ever moved to the period of a new cell.                  *)
LEMMA RunReaches ==
  ASSUME QInv, Reached, NEW t \in Transactions, RunQuery(t)
  PROVE  Reached'
<1>1. CASE ~Lets(t)
  <2>1. span' = span /\ cells' = cells
    BY <1>1 DEF RunQuery
  <2> QED
    BY <2>1 DEF Reached
<1>2. CASE Lets(t)
  <2> DEFINE topic == Topic(t)
             p == PeriodOf[t.date]
             new == IF topic \in DOMAIN span THEN Widened(span[topic], p) ELSE <<p, p>>
             cell == <<topic, p, t.currency>>
  <2>1. Booked(t)
    BY <1>2, RunsBooked
  <2>2. DOMAIN cells' = DOMAIN cells \cup {cell} /\ cell[1] = topic /\ cell[2] = p
    BY <2>1 DEF Booked, MoreBy, Cell
  <2>3. span' = [k \in DOMAIN span \cup {topic} |-> IF k = topic THEN new ELSE span[k]]
    BY <1>2 DEF RunQuery
  <2>4. /\ new[1] = p \/ (topic \in DOMAIN span /\ new[1] = span[topic][1])
        /\ new[2] = p \/ (topic \in DOMAIN span /\ new[2] = span[topic][2])
    <3> HIDE DEF topic, p
    <3>1. CASE topic \in DOMAIN span
      BY <3>1 DEF Widened
    <3>2. CASE topic \notin DOMAIN span
      BY <3>2
    <3> QED
      BY <3>1, <3>2
  <2> HIDE DEF new, cell
  <2>5. /\ span'[topic] = new
        /\ \A l \in DOMAIN span : l # topic => span'[l] = span[l]
        /\ DOMAIN span' = DOMAIN span \cup {topic}
    BY <2>3
  <2> HIDE DEF topic, p
  <2>6. DOMAIN span' = {c[1] : c \in DOMAIN cells'}
    <3>1. {c[1] : c \in DOMAIN cells'} = {c[1] : c \in DOMAIN cells} \cup {topic}
      BY <2>2
    <3> QED
      BY <2>5, <3>1 DEF Reached
  <2>7. ASSUME NEW l \in DOMAIN span'
        PROVE  /\ \E c \in DOMAIN cells' : c[1] = l /\ c[2] = span'[l][1]
               /\ \E c \in DOMAIN cells' : c[1] = l /\ c[2] = span'[l][2]
    <3>1. \A i \in DOMAIN span :
            /\ \E c \in DOMAIN cells : c[1] = i /\ c[2] = span[i][1]
            /\ \E c \in DOMAIN cells : c[1] = i /\ c[2] = span[i][2]
      BY DEF Reached
    <3>2. CASE l # topic
      <4>1. l \in DOMAIN span /\ span'[l] = span[l]
        BY <2>5, <3>2
      <4> QED
        BY <2>2, <3>1, <4>1
    <3>3. CASE l = topic
      <4>1. cell \in DOMAIN cells' /\ DOMAIN cells \subseteq DOMAIN cells'
        BY <2>2
      <4>2. \E c \in DOMAIN cells' : c[1] = topic /\ c[2] = new[1]
        BY <2>2, <2>4, <3>1, <4>1
      <4>3. \E c \in DOMAIN cells' : c[1] = topic /\ c[2] = new[2]
        BY <2>2, <2>4, <3>1, <4>1
      <4> QED
        BY <2>5, <3>3, <4>2, <4>3
    <3> QED
      BY <3>2, <3>3
  <2> QED
    BY <2>6, <2>7 DEF Reached
<1> QED
  BY <1>1, <1>2

(* What is counted and spanned has the types that the model gives it.      *)
LEMMA CountedTypes == QInv /\ Counted /\ Reached => TypeOK
<1> SUFFICES ASSUME QInv, Counted, Reached PROVE TypeOK
  OBVIOUS
<1>1. ASSUME NEW k \in DOMAIN sums PROVE sums[k].count \in 1 .. MaxRun
  <2>1. sums[k].count \in Int
    BY DEF QInv, QTypes, Result
  <2>2. /\ SumFunction(seen) \in Nat /\ SumFunction(seen) <= MaxRun
        /\ sums[k].count >= 1 /\ sums[k].count <= SumFunction(seen)
    BY DEF Counted
  <2>3. MaxRun \in Nat
    BY QueriesAssumption DEF QueriesAssumption
  <2> QED
    BY <2>1, <2>2, <2>3
<1>2. ASSUME NEW l \in DOMAIN span
      PROVE  LET ps == {k[2] : k \in {k \in DOMAIN cells : k[1] = l}}
             IN  /\ {span[l][1], span[l][2]} \subseteq ps
                 /\ \A p \in ps : span[l][1] <= p /\ p <= span[l][2]
  <2>1. span[l][1] \in {k[2] : k \in {k \in DOMAIN cells : k[1] = l}}
    BY DEF Reached
  <2>2. span[l][2] \in {k[2] : k \in {k \in DOMAIN cells : k[1] = l}}
    BY DEF Reached
  <2>3. \A k \in DOMAIN cells : k[1] = l => span[l][1] <= k[2] /\ k[2] <= span[l][2]
    BY DEF QInv, Spanned
  <2> QED
    BY <2>1, <2>2, <2>3
<1> QED
  BY <1>1, <1>2 DEF TypeOK, QInv, QTypes, Reached

(* Nothing is counted more often than it was run, and the span of a topic, *)
(* from which the columns of a table are made, begins and ends with a      *)
(* period that the topic has transactions in                               *)
(* (TopicPeriodicSubQuery::CheckTransaction()).                            *)
THEOREM TypesHold == Spec => []TypeOK
<1>1. Init => QInv /\ Counted /\ Reached
  BY QInvInit, CountedInit
<1>2. QInv /\ Counted /\ Reached /\ [Next]_vars => (QInv /\ Counted /\ Reached)'
  <2> SUFFICES ASSUME QInv, Counted, Reached, [Next]_vars PROVE (Counted /\ Reached)'
    BY QInvStep
  <2>1. CASE UNCHANGED vars
    BY <2>1 DEF vars, Counted, Reached
  <2>2. ASSUME NEW t \in Transactions, RunQuery(t) PROVE (Counted /\ Reached)'
    BY <2>2, RunCounts, RunReaches
  <2> QED
    BY <2>1, <2>2 DEF Next
<1> QED
  BY <1>1, <1>2, CountedTypes, PTL DEF Spec
=============================================================================
