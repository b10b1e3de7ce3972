------------------------- MODULE LedgerMemory_proofs -------------------------
(***************************************************************************)
(* What the memory of a session is made of, for collections, accounts,     *)
(* journals and histories of any size.                                     *)
(*                                                                         *)
(* First what the operators of Entities, Accounts and LedgerData do to     *)
(* sequences of children and transactions. Then the invariants, each with  *)
(* the theorems it gives:                                                  *)
(*   MInv      every operation, every replayed row and every load leaves   *)
(*             values of the declared types, and the id stored in a child  *)
(*             is its place, not only in an open session but while it      *)
(*             replays, and in the file once that is loaded. With the      *)
(*             chain of Ledger_proofs: recovery is exact, and what is      *)
(*             saved comes back;                                           *)
(*   Unmarked  what is not marked as changed is what was loaded or saved;  *)
(*   NInv      the names of a collection are distinct, the built-in one is *)
(*             at its place;                                               *)
(*   Merging   how far a merge has come: the collection is merged at once, *)
(*             the transactions one by one;                                *)
(*   RInv      every id of a transaction names a child; and every id that  *)
(*             a row of the journal gives will name one when the row is    *)
(*             replayed, or the replay stops before it.                    *)
(***************************************************************************)
EXTENDS Ledger_proofs

(* The place of i among the members of S, counted from one.                *)
Rank(S, i) == Cardinality({j \in S : j <= i})

(* An injective count reaches every number.                                *)
LEMMA EveryPlaceTaken ==
  ASSUME NEW S, IsFiniteSet(S), NEW f \in [S -> 1 .. Cardinality(S)],
         \A x, y \in S : f[x] = f[y] => x = y
  PROVE  \A k \in 1 .. Cardinality(S) : \E x \in S : f[x] = k
<1> DEFINE n == Cardinality(S)
<1>1. n \in Nat
  BY FS_CardinalityType
<1>2. IsFiniteSet(1 .. n) /\ Cardinality(1 .. n) = n
  BY <1>1, FS_Interval
<1>3. f \in Injection(S, 1 .. n)
  BY DEF Injection, IsInjective
<1>4. f \in Surjection(S, 1 .. n)
  <2> HIDE DEF n
  <2> QED
    BY <1>2, <1>3, FS_Injection DEF n
<1> QED
  BY <1>4 DEF Surjection

(* The members of a finite set of numbers are ranked from one to their     *)
(* count, in their order.                                                  *)
LEMMA Ranks ==
  ASSUME NEW n \in Nat, NEW S, S \subseteq 1 .. n
  PROVE  /\ IsFiniteSet(S) /\ Cardinality(S) \in Nat
         /\ \A i \in S : Rank(S, i) \in 1 .. Cardinality(S)
         /\ \A i, j \in S : i < j => Rank(S, i) < Rank(S, j)
         /\ \A i, j \in S : Rank(S, i) = Rank(S, j) => i = j
         /\ \A k \in 1 .. Cardinality(S) : \E i \in S : Rank(S, i) = k
<1> DEFINE upto(i) == {j \in S : j <= i}
<1>1. IsFiniteSet(1 .. n)
  BY FS_Interval
<1>2. IsFiniteSet(S) /\ Cardinality(S) \in Nat
  BY <1>1, FS_Subset, FS_CardinalityType
<1>3. \A i \in S : /\ IsFiniteSet(upto(i)) /\ Cardinality(upto(i)) \in Nat
                   /\ Cardinality(upto(i)) <= Cardinality(S)
  BY <1>2, FS_Subset, FS_CardinalityType
<1>4. \A i \in S : Cardinality(upto(i)) # 0
  <2>1. \A i \in S : i \in upto(i)
    OBVIOUS
  <2> QED
    BY <1>3, <2>1, FS_EmptySet
<1>5. \A i \in S : Rank(S, i) \in 1 .. Cardinality(S)
  BY <1>2, <1>3, <1>4 DEF Rank
<1>6. ASSUME NEW i \in S, NEW j \in S, i < j PROVE Rank(S, i) < Rank(S, j)
  <2>0. i \in Nat /\ j \in Nat /\ \A k \in S : k \in Nat
    OBVIOUS
  <2>1. upto(i) \in SUBSET upto(j) /\ j \in upto(j) /\ j \notin upto(i)
    <3>1. \A k \in S : k <= i => k <= j
      BY <1>6, <2>0
    <3>2. j <= j /\ ~(j <= i)
      BY <1>6, <2>0
    <3> QED
      BY <3>1, <3>2
  <2>2. /\ Cardinality(upto(i)) <= Cardinality(upto(j))
        /\ Cardinality(upto(j)) = Cardinality(upto(i)) => upto(j) = upto(i)
    <3> HIDE DEF upto
    <3> QED
      BY <1>3, <2>1, FS_Subset
  <2>3. Cardinality(upto(i)) # Cardinality(upto(j))
    BY <2>1, <2>2
  <2> QED
    BY <1>3, <2>2, <2>3 DEF Rank
<1>7. \A i, j \in S : Rank(S, i) = Rank(S, j) => i = j
  <2>1. \A i, j \in S : i < j \/ j < i \/ i = j
    OBVIOUS
  <2>2. \A i \in S : Rank(S, i) \in Nat
    BY <1>2, <1>5
  <2> QED
    BY <1>6, <2>1, <2>2
<1>8. \A k \in 1 .. Cardinality(S) : \E i \in S : Rank(S, i) = k
  <2> DEFINE f == [i \in S |-> Rank(S, i)]
  <2>1. f \in [S -> 1 .. Cardinality(S)]
    BY <1>5
  <2>2. \A x, y \in S : f[x] = f[y] => x = y
    BY <1>7
  <2>3. \A k \in 1 .. Cardinality(S) : \E x \in S : f[x] = k
    <3> HIDE DEF f
    <3> QED
      BY <1>2, <2>1, <2>2, EveryPlaceTaken
  <2> QED
    BY <2>3
<1> QED
  BY <1>2, <1>5, <1>6, <1>7, <1>8

(* A function on an initial segment is a sequence of what it takes.        *)
LEMMA SegmentSeq ==
  ASSUME NEW T, NEW n \in Nat, NEW f \in [1 .. n -> T]
  PROVE  f \in Seq(T) /\ Len(f) = n /\ DOMAIN f = 1 .. n
<1>1. f \in Seq(T)
  BY SeqDef
<1>2. DOMAIN f = 1 .. n /\ DOMAIN f = 1 .. Len(f) /\ Len(f) \in Nat
  BY <1>1, LenProperties
<1> QED
  BY <1>1, <1>2

(* Without() keeps the children that stay, in their order.                 *)
Staying(c, ids) == {i \in DOMAIN c : c[i].id \notin ids}

LEMMA WithoutFacts ==
  ASSUME NEW T, NEW c \in Seq(T), NEW ids
  PROVE  /\ Without(c, ids) \in Seq(T)
         /\ Len(Without(c, ids)) = Cardinality(Staying(c, ids))
         /\ \A i \in Staying(c, ids) :
              /\ Rank(Staying(c, ids), i) \in 1 .. Len(Without(c, ids))
              /\ Without(c, ids)[Rank(Staying(c, ids), i)] = c[i]
         /\ \A k \in 1 .. Len(Without(c, ids)) :
              \E i \in Staying(c, ids) : /\ Rank(Staying(c, ids), i) = k
                                         /\ Without(c, ids)[k] = c[i]
<1> DEFINE S == Staying(c, ids)
           n == Cardinality(S)
           at(k) == CHOOSE i \in S : Rank(S, i) = k
           w == [k \in 1 .. n |-> c[at(k)]]
<1>1. Len(c) \in Nat /\ DOMAIN c = 1 .. Len(c) /\ c \in [1 .. Len(c) -> T]
  BY LenProperties
<1>2. S \subseteq 1 .. Len(c)
  BY <1>1 DEF Staying
<1>3. /\ n \in Nat
      /\ \A i \in S : Rank(S, i) \in 1 .. n
      /\ \A i, j \in S : Rank(S, i) = Rank(S, j) => i = j
      /\ \A k \in 1 .. n : \E i \in S : Rank(S, i) = k
  <2> HIDE DEF S
  <2> QED
    BY <1>1, <1>2, Ranks
<1>4. Without(c, ids) = w
  BY DEF Without, Staying, Rank
<1>5. \A k \in 1 .. n : at(k) \in S /\ Rank(S, at(k)) = k
  <2> HIDE DEF S, n
  <2> QED
    BY <1>3
<1>6. \A i \in S : at(Rank(S, i)) = i
  <2> HIDE DEF S, n, at
  <2> QED
    BY <1>3, <1>5
<1>7. w \in [1 .. n -> T]
  <2> HIDE DEF S, n, at
  <2> QED
    BY <1>1, <1>2, <1>5
<1>8. w \in Seq(T) /\ Len(w) = n
  <2> HIDE DEF w, n
  <2> QED
    BY <1>3, <1>7, SegmentSeq
<1>9. \A i \in S : w[Rank(S, i)] = c[i]
  <2> HIDE DEF S, n, at
  <2> QED
    BY <1>3, <1>6
<1>10. \A k \in 1 .. n : \E i \in S : Rank(S, i) = k /\ w[k] = c[i]
  <2> HIDE DEF S, n, at
  <2> QED
    BY <1>5
<1> HIDE DEF S, n, w
<1> QED
  BY <1>3, <1>4, <1>8, <1>9, <1>10 DEF S, n

-----------------------------------------------------------------------------
(* Sequences of one type.                                                  *)
LEMMA SeqExcept ==
  ASSUME NEW T, NEW s \in Seq(T), NEW k, NEW e, k \in DOMAIN s => e \in T
  PROVE  /\ [s EXCEPT ![k] = e] \in Seq(T)
         /\ Len([s EXCEPT ![k] = e]) = Len(s)
         /\ DOMAIN [s EXCEPT ![k] = e] = DOMAIN s
<1>1. Len(s) \in Nat /\ DOMAIN s = 1 .. Len(s) /\ s \in [1 .. Len(s) -> T]
  BY LenProperties
<1>2. [s EXCEPT ![k] = e] \in [1 .. Len(s) -> T]
  BY <1>1
<1> QED
  BY <1>1, <1>2, SegmentSeq

(* An element that is there is of that type.                               *)
LEMMA SeqAt ==
  ASSUME NEW T, NEW s \in Seq(T)
  PROVE  /\ Len(s) \in Nat /\ DOMAIN s = 1 .. Len(s)
         /\ \A i \in DOMAIN s : i \in Nat /\ i - 1 \in Nat /\ i - 1 + 1 = i
                                  /\ i - 1 < Len(s) /\ s[i] \in T
         /\ \A id \in Nat : id < Len(s) => id + 1 \in DOMAIN s /\ s[id + 1] \in T
<1>1. Len(s) \in Nat /\ DOMAIN s = 1 .. Len(s) /\ s \in [1 .. Len(s) -> T]
  BY LenProperties
<1> QED
  BY <1>1

(* A beginning of a sequence.                                              *)
LEMMA SeqPrefix ==
  ASSUME NEW T, NEW s \in Seq(T), NEW n \in Nat, n <= Len(s)
  PROVE  SubSeq(s, 1, n) \in Seq(T)
<1>1. Len(s) \in Nat /\ DOMAIN s = 1 .. Len(s)
  BY LenProperties
<1>2. \A i \in 1 .. n : s[i] \in T
  BY <1>1, SeqAt
<1> QED
  BY <1>1, <1>2, SubSeqProperties

-----------------------------------------------------------------------------
(* Every operation on a collection leaves children.                        *)
LEMMA DefaultIsChild == DefaultChild \in Child
  BY DEF DefaultChild, NewChild, Child

(* CreateId(): the id is the place behind the others.                      *)
LEMMA CreateFacts ==
  ASSUME NEW c \in Seq(Child), NEW n \in Names
  PROVE  /\ Create(c, n) \in Seq(Child)
         /\ InPlace(c) => InPlace(Create(c, n))
         /\ c # <<>> => Create(c, n) # <<>>
<1> DEFINE e == NewChild(Len(c), n)
<1>1. Len(c) \in Nat /\ DOMAIN c = 1 .. Len(c)
  BY LenProperties
<1>2. e \in Child /\ e.id = Len(c)
  BY <1>1 DEF NewChild, Child
<1> HIDE DEF e
<1>3. /\ Append(c, e) \in Seq(Child) /\ Len(Append(c, e)) = Len(c) + 1
      /\ \A i \in 1 .. Len(c) : Append(c, e)[i] = c[i]
      /\ Append(c, e)[Len(c) + 1] = e
      /\ DOMAIN Append(c, e) = 1 .. Len(c) + 1
  BY <1>1, <1>2, AppendProperties, LenProperties
<1>4. ASSUME InPlace(c), NEW i \in DOMAIN Append(c, e)
      PROVE  Append(c, e)[i].id = i - 1
  <2>1. CASE i = Len(c) + 1
    BY <2>1, <1>1, <1>2, <1>3
  <2>2. CASE i \in 1 .. Len(c)
    BY <2>2, <1>1, <1>3, <1>4 DEF InPlace
  <2> QED
    BY <2>1, <2>2, <1>1, <1>3
<1>5. Create(c, n) \in {c, Append(c, e)}
  BY DEF Create, e
<1>6. Append(c, e) # <<>>
  BY <1>2, AppendProperties
<1> QED
  BY <1>3, <1>4, <1>5, <1>6 DEF InPlace

(* A child that is changed, but not its id.                                *)
LEMMA ChildExcept ==
  ASSUME NEW c \in Seq(Child), NEW k, NEW e,
         k \in DOMAIN c => e \in Child /\ e.id = c[k].id
  PROVE  /\ [c EXCEPT ![k] = e] \in Seq(Child)
         /\ Len([c EXCEPT ![k] = e]) = Len(c)
         /\ DOMAIN [c EXCEPT ![k] = e] = DOMAIN c
         /\ \A i \in DOMAIN c : [c EXCEPT ![k] = e][i].id = c[i].id
         /\ InPlace(c) => InPlace([c EXCEPT ![k] = e])
         /\ c # <<>> => [c EXCEPT ![k] = e] # <<>>
<1>1. /\ [c EXCEPT ![k] = e] \in Seq(Child)
      /\ Len([c EXCEPT ![k] = e]) = Len(c)
      /\ DOMAIN [c EXCEPT ![k] = e] = DOMAIN c
  BY SeqExcept
<1>2. \A i \in DOMAIN c : [c EXCEPT ![k] = e][i].id = c[i].id
  OBVIOUS
<1>3. c # <<>> => [c EXCEPT ![k] = e] # <<>>
  BY <1>1, IsSeqOf, EmptyLen
<1> QED
  BY <1>1, <1>2, <1>3 DEF InPlace

(* Rename() and AddKeyword() touch one child each.                         *)
LEMMA RenameFacts ==
  ASSUME NEW c \in Seq(Child), NEW id, NEW n \in Names
  PROVE  /\ Rename(c, id, n) \in Seq(Child)
         /\ Len(Rename(c, id, n)) = Len(c)
         /\ InPlace(c) => InPlace(Rename(c, id, n))
         /\ c # <<>> => Rename(c, id, n) # <<>>
<1> DEFINE e == [c[id + 1] EXCEPT !.name = n]
<1>1. id + 1 \in DOMAIN c => c[id + 1] \in Child
  BY SeqAt
<1>2. id + 1 \in DOMAIN c => e \in Child /\ e.id = c[id + 1].id
  BY <1>1 DEF Child
<1>3. Rename(c, id, n) = [c EXCEPT ![id + 1] = e]
  BY DEF Rename
<1> HIDE DEF e
<1> DEFINE k == id + 1
<1> HIDE DEF k
<1>4. k \in DOMAIN c => e \in Child /\ e.id = c[k].id
  BY <1>2 DEF k
<1>5. /\ [c EXCEPT ![k] = e] \in Seq(Child)
      /\ Len([c EXCEPT ![k] = e]) = Len(c)
      /\ InPlace(c) => InPlace([c EXCEPT ![k] = e])
      /\ c # <<>> => [c EXCEPT ![k] = e] # <<>>
  BY <1>4, ChildExcept
<1> QED
  BY <1>3, <1>5 DEF k

LEMMA KeywordFacts ==
  ASSUME NEW c \in Seq(Child), NEW id, NEW w \in Words, NEW d
  PROVE  /\ AddKeyword(c, id, w, d) \in Seq(Child)
         /\ Len(AddKeyword(c, id, w, d)) = Len(c)
         /\ InPlace(c) => InPlace(AddKeyword(c, id, w, d))
         /\ c # <<>> => AddKeyword(c, id, w, d) # <<>>
<1> DEFINE e == IF d THEN [c[id + 1] EXCEPT !.sure = @ \cup {w}]
                     ELSE [c[id + 1] EXCEPT !.hints = @ \cup {w}]
<1>1. id + 1 \in DOMAIN c => c[id + 1] \in Child
  BY SeqAt
<1>2. id + 1 \in DOMAIN c => e \in Child /\ e.id = c[id + 1].id
  BY <1>1 DEF Child
<1>3. AddKeyword(c, id, w, d) = [c EXCEPT ![id + 1] = e]
  BY DEF AddKeyword
<1> HIDE DEF e
<1> DEFINE k == id + 1
<1> HIDE DEF k
<1>4. k \in DOMAIN c => e \in Child /\ e.id = c[k].id
  BY <1>2 DEF k
<1>5. /\ [c EXCEPT ![k] = e] \in Seq(Child)
      /\ Len([c EXCEPT ![k] = e]) = Len(c)
      /\ InPlace(c) => InPlace([c EXCEPT ![k] = e])
      /\ c # <<>> => [c EXCEPT ![k] = e] # <<>>
  BY <1>4, ChildExcept
<1> QED
  BY <1>3, <1>5 DEF k

(* Merge(): the children that stay keep their names and their order, and   *)
(* their ids are their new places.                                         *)
LEMMA MergeFacts ==
  ASSUME NEW c \in Seq(Child), NEW froms \in SUBSET Nat, NEW to \in Nat,
         \A id \in froms \cup {to} : id < Len(c)
  PROVE  /\ Merge(c, froms, to) \in Seq(Child)
         /\ InPlace(Merge(c, froms, to))
         /\ InPlace(c) /\ to \notin froms => Merge(c, froms, to) # <<>>
         /\ Len(Merge(c, froms, to)) = Cardinality(Staying(c, froms))
         /\ \A i \in Staying(c, froms) :
              /\ Rank(Staying(c, froms), i) \in 1 .. Len(Merge(c, froms, to))
              /\ Merge(c, froms, to)[Rank(Staying(c, froms), i)].name = c[i].name
         /\ \A k \in 1 .. Len(Merge(c, froms, to)) :
              \E i \in Staying(c, froms) :
                /\ Rank(Staying(c, froms), i) = k
                /\ Merge(c, froms, to)[k].name = c[i].name
<1> DEFINE merged == froms \cup {to}
           sure   == UNION {At(c, id).sure : id \in merged}
           hints  == UNION {At(c, id).hints : id \in merged}
           k      == to + 1
           e      == [c[k] EXCEPT !.sure = sure, !.hints = hints]
           richer == [c EXCEPT ![k] = e]
           kept   == Without(richer, froms)
           m      == [i \in DOMAIN kept |-> [kept[i] EXCEPT !.id = i - 1]]
           S      == Staying(c, froms)
<1>1. \A id \in merged : At(c, id) \in Child
  BY SeqAt DEF At
<1>2. sure \in SUBSET Words /\ hints \in SUBSET Words
  BY <1>1 DEF Child
<1>3. c[k] \in Child /\ k \in DOMAIN c
  BY SeqAt
<1>4. e \in Child /\ e.id = c[k].id /\ e.name = c[k].name
  <2> HIDE DEF sure, hints, k
  <2> QED
    BY <1>2, <1>3 DEF Child
<1>5. Merge(c, froms, to) = m
  <2> DEFINE both == [c EXCEPT ![to + 1].sure = sure, ![to + 1].hints = hints]
  <2>1. richer = both
    <3> HIDE DEF sure, hints
    <3> QED
      BY <1>3
  <2>2. Merge(c, froms, to)
          = [i \in DOMAIN Without(both, froms) |->
               [Without(both, froms)[i] EXCEPT !.id = i - 1]]
    BY DEF Merge
  <2> HIDE DEF both, richer
  <2> QED
    BY <2>1, <2>2
<1> HIDE DEF e, sure, hints, k, merged
<1>6. /\ richer \in Seq(Child) /\ DOMAIN richer = DOMAIN c
      /\ \A i \in DOMAIN c : richer[i].id = c[i].id /\ richer[i].name = c[i].name
  <2>1. /\ richer \in Seq(Child) /\ DOMAIN richer = DOMAIN c
        /\ \A i \in DOMAIN c : richer[i].id = c[i].id
    BY <1>4, ChildExcept
  <2>2. \A i \in DOMAIN c : richer[i].name = c[i].name
    BY <1>4
  <2> QED
    BY <2>1, <2>2
<1>7. Staying(richer, froms) = S
  <2> HIDE DEF richer
  <2> QED
    BY <1>6 DEF Staying
<1> HIDE DEF richer
<1>8. /\ kept \in Seq(Child)
      /\ Len(kept) = Cardinality(S)
      /\ \A i \in S : /\ Rank(S, i) \in 1 .. Len(kept)
                      /\ kept[Rank(S, i)] = richer[i]
      /\ \A j \in 1 .. Len(kept) :
           \E i \in S : Rank(S, i) = j /\ kept[j] = richer[i]
  <2> HIDE DEF S, kept
  <2> QED
    BY <1>6, <1>7, WithoutFacts DEF kept
<1> HIDE DEF kept
<1>9. /\ Len(kept) \in Nat /\ DOMAIN kept = 1 .. Len(kept)
      /\ \A i \in DOMAIN kept : kept[i] \in Child
  BY <1>8, SeqAt
<1>10. \A i \in DOMAIN kept : /\ i - 1 \in Nat
                              /\ m[i] \in Child
                              /\ m[i].id = i - 1
                              /\ m[i].name = kept[i].name
  <2> SUFFICES ASSUME NEW i \in DOMAIN kept
               PROVE  /\ i - 1 \in Nat
                      /\ m[i] \in Child
                      /\ m[i].id = i - 1
                      /\ m[i].name = kept[i].name
    OBVIOUS
  <2>1. i - 1 \in Nat /\ kept[i] \in Child
    BY <1>9
  <2>2. m[i] = [kept[i] EXCEPT !.id = i - 1]
    OBVIOUS
  <2> HIDE DEF m
  <2> QED
    BY <2>1, <2>2 DEF Child
<1>11. /\ m \in Seq(Child) /\ Len(m) = Len(kept) /\ DOMAIN m = 1 .. Len(kept)
  <2>1. m \in [1 .. Len(kept) -> Child]
    BY <1>9, <1>10
  <2> HIDE DEF m
  <2> QED
    BY <1>9, <2>1, SegmentSeq
<1>12. InPlace(m)
  BY <1>9, <1>10, <1>11 DEF InPlace
<1>13. \A i \in S : i \in DOMAIN c
  BY DEF Staying
<1> HIDE DEF m, S
<1>14. \A i \in S : /\ Rank(S, i) \in 1 .. Len(m)
                    /\ m[Rank(S, i)].name = c[i].name
  BY <1>6, <1>8, <1>9, <1>10, <1>11, <1>13
<1>15. \A j \in 1 .. Len(m) :
         \E i \in S : Rank(S, i) = j /\ m[j].name = c[i].name
  <2> SUFFICES ASSUME NEW j \in 1 .. Len(m)
               PROVE  \E i \in S : Rank(S, i) = j /\ m[j].name = c[i].name
    OBVIOUS
  <2>1. j \in 1 .. Len(kept) /\ m[j].name = kept[j].name
    BY <1>9, <1>10, <1>11
  <2>2. PICK i \in S : Rank(S, i) = j /\ kept[j] = richer[i]
    BY <1>8, <2>1
  <2>3. m[j].name = c[i].name
    BY <1>6, <1>13, <2>1, <2>2
  <2> QED
    BY <2>2, <2>3
<1>16. ASSUME InPlace(c), to \notin froms PROVE m # <<>>
  <2>1. to + 1 \in DOMAIN c /\ to + 1 - 1 = to
    BY <1>3 DEF k
  <2>2. c[to + 1].id = to
    BY <1>16, <2>1 DEF InPlace
  <2>3. to + 1 \in S
    BY <1>16, <2>1, <2>2 DEF S, Staying
  <2>4. Rank(S, to + 1) \in 1 .. Len(m)
    BY <1>14, <2>3
  <2> QED
    BY <2>4, EmptySeqFacts
<1> QED
  BY <1>5, <1>8, <1>11, <1>12, <1>14, <1>15, <1>16 DEF S

(* A healed id is an id: no more children are erased before it than there  *)
(* were.                                                                   *)
LEMMA HealedFacts ==
  ASSUME NEW id \in Nat, NEW froms \in SUBSET Nat
  PROVE  HealedId(id, froms) \in Nat
<1> DEFINE before == {f \in froms : f < id}
<1>1. before \subseteq 0 .. (id - 1)
  <2>1. \A f \in froms : f \in Nat
    OBVIOUS
  <2>2. \A f \in Nat : f < id => f \in 0 .. (id - 1)
    OBVIOUS
  <2> QED
    BY <2>1, <2>2
<1>2. IsFiniteSet(0 .. (id - 1)) /\ Cardinality(0 .. (id - 1)) = id
  BY FS_Interval
<1>3. Cardinality(before) \in Nat /\ Cardinality(before) <= id
  <2> HIDE DEF before
  <2> QED
    BY <1>1, <1>2, FS_Subset, FS_CardinalityType
<1> QED
  BY <1>3 DEF HealedId

(* What is saved of a collection whose children are in place, and what     *)
(* that is loaded as: the children are in place again, and they are the    *)
(* same if the built-in one was untouched.                                 *)
LEMMA StreamFacts ==
  ASSUME NEW c \in Seq(Child), NEW d \in BOOLEAN
  PROVE  /\ StreamOut(c, d) \in Seq(Child)
         /\ StreamIn(c, d) \in Seq(Child)
         /\ d => StreamIn(c, d) # <<>>
         /\ InPlace(c) => InPlace(StreamIn(StreamOut(c, d), d))
         /\ InPlace(c) /\ (d => c # <<>> /\ c[1] = DefaultChild) =>
              StreamIn(StreamOut(c, d), d) = c
         /\ InPlace(c) => \A i \in DOMAIN StreamIn(StreamOut(c, d), d) :
              \/ d /\ i = 1 /\ StreamIn(StreamOut(c, d), d)[i] = DefaultChild
              \/ /\ i \in DOMAIN c /\ (d => i # 1)
                 /\ StreamIn(StreamOut(c, d), d)[i] = c[i]
         /\ InPlace(c) /\ (d => c # <<>>) =>
              Len(StreamIn(StreamOut(c, d), d)) = Len(c)
<1> DEFINE w == Without(c, {0})
           S == Staying(c, {0})
<1>1. Len(c) \in Nat /\ DOMAIN c = 1 .. Len(c)
  BY LenProperties
<1>2. /\ w \in Seq(Child)
      /\ Len(w) = Cardinality(S)
      /\ \A i \in S : w[Rank(S, i)] = c[i]
  BY WithoutFacts
<1> HIDE DEF w
<1>3. <<DefaultChild>> \in Seq(Child) /\ Len(<<DefaultChild>>) = 1
        /\ <<DefaultChild>>[1] = DefaultChild
  BY DefaultIsChild
<1>4. \A s \in Seq(Child) :
        /\ <<DefaultChild>> \o s \in Seq(Child)
        /\ Len(<<DefaultChild>> \o s) = 1 + Len(s)
        /\ (<<DefaultChild>> \o s)[1] = DefaultChild
        /\ \A i \in 1 .. Len(s) : (<<DefaultChild>> \o s)[i + 1] = s[i]
  <2> SUFFICES ASSUME NEW s \in Seq(Child)
               PROVE  /\ <<DefaultChild>> \o s \in Seq(Child)
                      /\ Len(<<DefaultChild>> \o s) = 1 + Len(s)
                      /\ (<<DefaultChild>> \o s)[1] = DefaultChild
                      /\ \A i \in 1 .. Len(s) : (<<DefaultChild>> \o s)[i + 1] = s[i]
    OBVIOUS
  <2>1. Len(s) \in Nat
    BY LenProperties
  <2> QED
    BY <1>3, <2>1, ConcatProperties
<1>5. StreamOut(c, d) \in Seq(Child) /\ StreamIn(c, d) \in Seq(Child)
  BY <1>2, <1>4 DEF StreamOut, StreamIn, w
<1>0. ASSUME d PROVE StreamIn(c, d) # <<>>
  <2>1. Len(<<DefaultChild>> \o c) = 1 + Len(c)
    BY <1>4
  <2>2. Len(<<DefaultChild>> \o c) # 0
    BY <1>1, <2>1
  <2> QED
    BY <1>0, <2>2, EmptySeqFacts DEF StreamIn
<1>6. ASSUME InPlace(c)
      PROVE  /\ Len(c) = 0 => Len(w) = 0
             /\ Len(c) # 0 => Len(w) = Len(c) - 1
             /\ \A k \in 1 .. Len(w) : w[k] = c[k + 1]
  <2>1. \A i \in DOMAIN c : c[i].id = i - 1
    BY <1>6 DEF InPlace
  <2>2. S = 2 .. Len(c)
    BY <1>1, <2>1 DEF Staying
  <2>3. /\ Len(c) = 0 => Cardinality(2 .. Len(c)) = 0
        /\ Len(c) # 0 => Cardinality(2 .. Len(c)) = Len(c) - 1
    <3>1. Cardinality(2 .. Len(c)) = IF 2 > Len(c) THEN 0 ELSE Len(c) - 2 + 1
      BY <1>1, FS_Interval
    <3>2. CASE Len(c) = 0
      BY <3>1, <3>2
    <3>3. CASE Len(c) = 1
      BY <3>1, <3>3
    <3>4. CASE Len(c) > 1
      <4>1. ~(2 > Len(c))
        BY <1>1, <3>4
      <4>2. Cardinality(2 .. Len(c)) = Len(c) - 2 + 1
        BY <3>1, <4>1
      <4> QED
        BY <1>1, <3>4, <4>2
    <3> QED
      BY <1>1, <3>2, <3>3, <3>4
  <2>4. /\ Len(c) = 0 => Len(w) = 0
        /\ Len(c) # 0 => Len(w) = Len(c) - 1
    BY <1>2, <2>2, <2>3
  <2>5. ASSUME NEW k \in 1 .. Len(w)
        PROVE  w[k] = c[k + 1]
    <3> DEFINE n == Len(c)
               l == Len(w)
    <3>0. n \in Nat /\ (n = 0 => l = 0) /\ (n # 0 => l = n - 1) /\ k \in 1 .. l
      BY <1>1, <2>4
    <3>1. k \in Nat /\ k + 1 \in 2 .. Len(c) /\ Len(c) \in Nat
      <4> HIDE DEF n, l
      <4>1. n # 0
        BY <3>0
      <4>2. l = n - 1
        BY <3>0, <4>1
      <4>3. k \in Nat /\ k + 1 \in 2 .. n
        BY <3>0, <4>2
      <4> QED
        BY <3>0, <4>3 DEF n
    <3>2. {j \in 2 .. Len(c) : j <= k + 1} = 2 .. (k + 1)
      BY <3>1
    <3>3. Cardinality(2 .. (k + 1)) = k
      BY <3>1, FS_Interval
    <3>4. Rank(S, k + 1) = k
      BY <2>2, <3>2, <3>3 DEF Rank
    <3> QED
      BY <1>2, <2>2, <3>1, <3>4
  <2> QED
    BY <2>4, <2>5
<1>7. ASSUME d, InPlace(c)
      PROVE  LET s == <<DefaultChild>> \o w
             IN  /\ Len(c) = 0 => Len(s) = 1
                 /\ Len(c) # 0 => Len(s) = Len(c)
                 /\ s[1] = DefaultChild
                 /\ \A i \in 2 .. Len(s) : i \in DOMAIN c /\ s[i] = c[i]
  <2> DEFINE s == <<DefaultChild>> \o w
  <2>1. /\ s \in Seq(Child) /\ Len(s) = 1 + Len(w) /\ s[1] = DefaultChild
        /\ \A i \in 1 .. Len(w) : s[i + 1] = w[i]
    BY <1>2, <1>4
  <2> HIDE DEF s
  <2>2. /\ Len(c) = 0 => Len(w) = 0
        /\ Len(c) # 0 => Len(w) = Len(c) - 1
    BY <1>6, <1>7
  <2>3. /\ Len(c) = 0 => Len(s) = 1
        /\ Len(c) # 0 => Len(s) = Len(c)
    <3>1. CASE Len(c) = 0
      BY <3>1, <2>1, <2>2
    <3>2. CASE Len(c) # 0
      <4>1. Len(w) = Len(c) - 1
        BY <3>2, <2>2
      <4> QED
        BY <3>2, <4>1, <1>1, <2>1
    <3> QED
      BY <3>1, <3>2
  <2>4. ASSUME NEW i \in 2 .. Len(s)
        PROVE  i \in DOMAIN c /\ s[i] = c[i]
    <3>0. Len(c) # 0
      <4> SUFFICES ASSUME Len(c) = 0 PROVE FALSE
        OBVIOUS
      <4>1. Len(s) = 1
        BY <2>3
      <4>2. i \in 2 .. 1
        BY <4>1
      <4> QED
        BY <4>2
    <3>1. i - 1 \in 1 .. Len(w) /\ i - 1 + 1 = i /\ i \in DOMAIN c
      <4>1. Len(w) = Len(c) - 1 /\ Len(s) = Len(c)
        BY <3>0, <2>2, <2>3
      <4> QED
        BY <4>1, <1>1
    <3> QED
      BY <3>1, <2>1, <1>6, <1>7
  <2> QED
    BY <2>1, <2>3, <2>4 DEF s
<1>8. ASSUME InPlace(c) PROVE InPlace(StreamIn(StreamOut(c, d), d))
  <2>1. CASE d
    <3> DEFINE s == <<DefaultChild>> \o w
    <3>1. StreamIn(StreamOut(c, d), d) = s
      BY <2>1 DEF StreamIn, StreamOut, w
    <3>2. /\ s \in Seq(Child) /\ s[1] = DefaultChild
          /\ \A i \in 2 .. Len(s) : i \in DOMAIN c /\ s[i] = c[i]
      BY <1>2, <1>4, <1>7, <1>8, <2>1
    <3> HIDE DEF s
    <3>3. ASSUME NEW i \in DOMAIN s PROVE s[i].id = i - 1
      <4>1. i \in 1 .. Len(s) /\ Len(s) \in Nat
        BY <3>2, SeqAt
      <4>2. CASE i = 1
        BY <3>2, <4>2 DEF DefaultChild, NewChild
      <4>3. CASE i \in 2 .. Len(s)
        BY <3>2, <4>3, <1>8 DEF InPlace
      <4> QED
        BY <4>1, <4>2, <4>3
    <3> QED
      BY <3>1, <3>3 DEF InPlace
  <2>2. CASE ~d
    BY <1>8, <2>2 DEF StreamIn, StreamOut
  <2> QED
    BY <2>1, <2>2
<1>9. ASSUME InPlace(c), d => c # <<>> /\ c[1] = DefaultChild
      PROVE  StreamIn(StreamOut(c, d), d) = c
  <2>1. CASE d
    <3> DEFINE s == <<DefaultChild>> \o w
    <3>1. StreamIn(StreamOut(c, d), d) = s
      BY <2>1 DEF StreamIn, StreamOut, w
    <3>2. /\ s \in Seq(Child) /\ s[1] = DefaultChild /\ Len(s) = Len(c)
          /\ \A i \in 2 .. Len(s) : s[i] = c[i]
      <4>1. Len(c) # 0
        BY <1>9, <2>1, IsSeqOf, EmptyLen
      <4> QED
        BY <1>2, <1>4, <1>7, <1>9, <2>1, <4>1
    <3> HIDE DEF s
    <3>3. \A i \in 1 .. Len(c) : s[i] = c[i]
      BY <1>1, <1>9, <2>1, <3>2
    <3> QED
      BY <3>1, <3>2, <3>3, SeqEqual
  <2>2. CASE ~d
    BY <2>2 DEF StreamIn, StreamOut
  <2> QED
    BY <2>1, <2>2
<1>10. ASSUME InPlace(c), NEW i \in DOMAIN StreamIn(StreamOut(c, d), d)
       PROVE  \/ d /\ i = 1 /\ StreamIn(StreamOut(c, d), d)[i] = DefaultChild
              \/ /\ i \in DOMAIN c /\ (d => i # 1)
                 /\ StreamIn(StreamOut(c, d), d)[i] = c[i]
  <2>1. CASE d
    <3> DEFINE s == <<DefaultChild>> \o w
    <3>1. StreamIn(StreamOut(c, d), d) = s
      BY <2>1 DEF StreamIn, StreamOut, w
    <3>2. /\ s \in Seq(Child) /\ s[1] = DefaultChild
          /\ \A k \in 2 .. Len(s) : k \in DOMAIN c /\ s[k] = c[k]
      BY <1>2, <1>4, <1>7, <1>10, <2>1
    <3> HIDE DEF s
    <3>3. i \in 1 .. Len(s) /\ Len(s) \in Nat
      BY <1>10, <3>1, <3>2, SeqAt
    <3>4. CASE i = 1
      BY <2>1, <3>1, <3>2, <3>4
    <3>5. CASE i \in 2 .. Len(s)
      <4>1. i # 1
        BY <3>5
      <4> QED
        BY <3>1, <3>2, <3>5, <4>1
    <3> QED
      BY <3>3, <3>4, <3>5
  <2>2. CASE ~d
    BY <1>10, <2>2 DEF StreamIn, StreamOut
  <2> QED
    BY <2>1, <2>2
<1>11. ASSUME InPlace(c), d => c # <<>>
       PROVE  Len(StreamIn(StreamOut(c, d), d)) = Len(c)
  <2>1. CASE d
    <3>1. Len(c) # 0
      BY <1>11, <2>1, IsSeqOf, EmptyLen
    <3>2. StreamIn(StreamOut(c, d), d) = <<DefaultChild>> \o w
      BY <2>1 DEF StreamIn, StreamOut, w
    <3> QED
      BY <1>7, <1>11, <2>1, <3>1, <3>2
  <2>2. CASE ~d
    BY <2>2 DEF StreamIn, StreamOut
  <2> QED
    BY <2>1, <2>2
<1> QED
  BY <1>0, <1>5, <1>8, <1>9, <1>10, <1>11

-----------------------------------------------------------------------------
(* Sort() moves every transaction to a place of its own, whatever it does  *)
(* with those of one day.                                                  *)
LEMMA SortFacts ==
  ASSUME NEW T, NEW txns \in Seq(T), \A x \in T : x.date \in Nat
  PROVE  Sort(txns) \in Seq(T) /\ Len(Sort(txns)) = Len(txns)
<1> DEFINE D == DOMAIN txns
           leq(j, i) == \/ txns[j].date < txns[i].date
                        \/ /\ txns[j].date = txns[i].date
                           /\ IF KeepsTies THEN j <= i ELSE j >= i
           before(i) == {j \in D : leq(j, i)}
           place(i) == Cardinality(before(i))
           at(k) == CHOOSE i \in D : place(i) = k
           s == [k \in D |-> txns[at(k)]]
<1>1. /\ Len(txns) \in Nat /\ D = 1 .. Len(txns)
      /\ \A i \in D : i \in Nat /\ txns[i] \in T /\ txns[i].date \in Nat
  BY SeqAt
<1>2. /\ \A i \in D : leq(i, i)
      /\ \A i, j \in D : i # j => ~(leq(i, j) /\ leq(j, i))
      /\ \A i, j \in D : leq(i, j) \/ leq(j, i)
      /\ \A i, j, k \in D : leq(i, j) /\ leq(j, k) => leq(i, k)
  <2>1. KeepsTies \in BOOLEAN
    BY AccountsAssumption DEF AccountsAssumption
  <2>2. CASE KeepsTies
    BY <2>2, <1>1
  <2>3. CASE ~KeepsTies
    BY <2>3, <1>1
  <2> QED
    BY <2>1, <2>2, <2>3
<1> HIDE DEF leq
<1>3. IsFiniteSet(D) /\ Cardinality(D) = Len(txns)
  <2> DEFINE n == Len(txns)
  <2>1. n \in Nat /\ D = 1 .. n
    BY <1>1
  <2> HIDE DEF D, n
  <2>2. IsFiniteSet(1 .. n) /\ Cardinality(1 .. n) = n
    BY <2>1, FS_Interval
  <2> QED
    BY <2>1, <2>2 DEF n
<1>4. \A i \in D : before(i) \in SUBSET D /\ i \in before(i)
  BY <1>2
<1>5. \A i \in D : /\ IsFiniteSet(before(i)) /\ place(i) \in Nat
                   /\ place(i) <= Len(txns) /\ place(i) # 0
  <2> SUFFICES ASSUME NEW i \in D
               PROVE  /\ IsFiniteSet(before(i)) /\ place(i) \in Nat
                      /\ place(i) <= Len(txns) /\ place(i) # 0
    OBVIOUS
  <2> DEFINE B == before(i)
  <2>1. B \in SUBSET D /\ B # {}
    BY <1>4
  <2> HIDE DEF B, D
  <2>2. /\ IsFiniteSet(B) /\ Cardinality(B) \in Nat
        /\ Cardinality(B) <= Cardinality(D) /\ Cardinality(B) # 0
    BY <1>3, <2>1, FS_Subset, FS_CardinalityType, FS_EmptySet
  <2> QED
    BY <1>3, <2>2 DEF B
<1>6. \A i, j \in D : place(i) = place(j) => i = j
  <2>1. ASSUME NEW i \in D, NEW j \in D, i # j, leq(i, j)
        PROVE  place(i) # place(j)
    <3> DEFINE A == before(i)
               B == before(j)
    <3>1. ~leq(j, i)
      BY <1>2, <2>1
    <3>2. A \in SUBSET B /\ j \in B /\ j \notin A
      BY <1>2, <2>1, <3>1
    <3>3. IsFiniteSet(B)
      BY <1>5
    <3> HIDE DEF A, B
    <3>4. Cardinality(B) = Cardinality(A) => B = A
      BY <3>2, <3>3, FS_Subset
    <3> QED
      BY <3>2, <3>4 DEF A, B
  <2> QED
    BY <1>2, <2>1
<1>7. \A k \in D : \E i \in D : place(i) = k
  <2> DEFINE f == [i \in D |-> place(i)]
  <2> HIDE DEF place
  <2>1. f \in [D -> 1 .. Cardinality(D)]
    <3>1. ASSUME NEW i \in D PROVE place(i) \in 1 .. Len(txns)
      <4>1. place(i) \in Nat /\ place(i) <= Len(txns) /\ place(i) # 0
        BY <1>5
      <4>2. Len(txns) \in Nat
        BY <1>1
      <4> QED
        BY <4>1, <4>2
    <3> QED
      BY <1>3, <3>1
  <2>2. \A x, y \in D : f[x] = f[y] => x = y
    BY <1>6
  <2>3. \A k \in 1 .. Cardinality(D) : \E x \in D : f[x] = k
    <3> HIDE DEF f, D
    <3> QED
      BY <1>3, <2>1, <2>2, EveryPlaceTaken
  <2> QED
    BY <1>1, <1>3, <2>3
<1>8. \A k \in D : at(k) \in D
  <2> HIDE DEF place
  <2> QED
    BY <1>7
<1>9. s \in [1 .. Len(txns) -> T]
  <2> HIDE DEF at
  <2> QED
    BY <1>1, <1>8
<1>10. Sort(txns) = s
  BY DEF Sort, leq
<1> HIDE DEF s
<1> QED
  BY <1>1, <1>9, <1>10, SegmentSeq

(* PrepareImport() and PruneLastTransactions() keep a beginning.           *)
LEMMA KeptFacts ==
  ASSUME NEW T, NEW txns \in Seq(T), NEW date
  PROVE  KeptByImport(txns, date) \in Seq(T)
<1> DEFINE older == {i \in DOMAIN txns : txns[i].date < date}
           latest(i) == \A j \in older : j <= i
           last == IF older = {} THEN 0 ELSE CHOOSE i \in older : latest(i)
<1>1. Len(txns) \in Nat /\ DOMAIN txns = 1 .. Len(txns)
  BY LenProperties
<1>2. ASSUME older # {} PROVE \E i \in older : latest(i)
  <2> DEFINE n == Len(txns)
             above == {n - i : i \in older}
  <2>1. older \subseteq 1 .. n /\ n \in Nat
    BY <1>1
  <2> HIDE DEF older, n
  <2>2. above \subseteq Nat /\ above # {}
    <3>1. \A i \in older : i \in 1 .. n
      BY <2>1
    <3>2. \A i \in 1 .. n : n - i \in Nat
      BY <2>1
    <3> QED
      BY <1>2, <3>1, <3>2
  <2>3. PICK a \in above : \A b \in above : a <= b
    <3> HIDE DEF above
    <3> QED
      BY <2>2, LeastNatural
  <2>4. PICK i \in older : a = n - i
    OBVIOUS
  <2>5. ASSUME NEW j \in older PROVE j <= i
    <3>1. n - i <= n - j
      BY <2>3, <2>4
    <3>2. i \in 1 .. n /\ j \in 1 .. n
      BY <2>1
    <3> QED
      BY <2>1, <3>1, <3>2
  <2> QED
    BY <2>5
<1>3. last \in Nat /\ last <= Len(txns)
  <2>1. older \subseteq 1 .. Len(txns)
    BY <1>1
  <2>2. CASE older = {}
    BY <1>1, <2>2
  <2>3. CASE older # {}
    <3>1. (CHOOSE i \in older : latest(i)) \in older
      <4> HIDE DEF older, latest
      <4> QED
        BY <1>2, <2>3
    <3>2. last \in older
      BY <2>3, <3>1
    <3> HIDE DEF last, older
    <3>3. last \in 1 .. Len(txns)
      BY <2>1, <3>2
    <3> QED
      BY <1>1, <3>3
  <2> QED
    BY <2>2, <2>3
<1>4. KeptByImport(txns, date) = SubSeq(txns, 1, last)
  BY DEF KeptByImport
<1> HIDE DEF last
<1> QED
  BY <1>3, <1>4, SeqPrefix

LEMMA PruneFacts ==
  ASSUME NEW T, NEW txns \in Seq(T), NEW count \in Nat
  PROVE  Prune(txns, count) \in Seq(T)
<1> DEFINE n == IF count <= Len(txns) THEN Len(txns) - count ELSE 0
<1>1. Len(txns) \in Nat
  BY LenProperties
<1>2. n \in Nat /\ n <= Len(txns)
  BY <1>1
<1>3. Prune(txns, count) = SubSeq(txns, 1, n)
  BY DEF Prune
<1> HIDE DEF n
<1> QED
  BY <1>2, <1>3, SeqPrefix

-----------------------------------------------------------------------------
(* The whole memory. Its children are in place, and where there is a       *)
(* built-in child there is a child ...                                     *)
Sound(t, c) == InPlace(c) /\ (t \in Defaulted => c # <<>>)

Placed(m) == \A t \in Topics : Sound(t, m.children[t])

(* ... and it has two parts.                                               *)
LEMMA MemoryParts ==
  ASSUME NEW m \in Memory
  PROVE  /\ m.children \in [Topics -> Seq(Child)]
         /\ m.accounts \in Seq(Account)
         /\ m = [children |-> m.children, accounts |-> m.accounts]
  BY DEF Memory

(* One collection changed.                                                 *)
LEMMA ChildrenMemory ==
  ASSUME NEW m \in Memory, NEW t \in Topics, NEW c \in Seq(Child)
  PROVE  /\ [m EXCEPT !.children[t] = c] \in Memory
         /\ Placed(m) /\ Sound(t, c) => Placed([m EXCEPT !.children[t] = c])
<1> DEFINE n == [m EXCEPT !.children[t] = c]
<1>1. /\ n.children = [m.children EXCEPT ![t] = c]
      /\ n.accounts = m.accounts
      /\ n = [children |-> n.children, accounts |-> n.accounts]
  BY MemoryParts
<1> HIDE DEF n
<1>2. n.children \in [Topics -> Seq(Child)]
  BY <1>1, MemoryParts
<1>3. n \in Memory
  BY <1>1, <1>2, MemoryParts DEF Memory
<1>4. Placed(m) /\ Sound(t, c) => Placed(n)
  BY <1>1, MemoryParts DEF Placed
<1> QED
  BY <1>3, <1>4 DEF n

(* Accounts changed.                                                       *)
LEMMA AccountsMemory ==
  ASSUME NEW m \in Memory, NEW acc \in Seq(Account)
  PROVE  /\ [m EXCEPT !.accounts = acc] \in Memory
         /\ Placed(m) => Placed([m EXCEPT !.accounts = acc])
<1> DEFINE n == [m EXCEPT !.accounts = acc]
<1>1. n = [children |-> m.children, accounts |-> acc] /\ n.children = m.children
  BY MemoryParts
<1> HIDE DEF n
<1>2. n \in Memory
  BY <1>1, MemoryParts DEF Memory
<1>3. Placed(m) => Placed(n)
  BY <1>1 DEF Placed
<1> QED
  BY <1>2, <1>3 DEF n

(* One account changed.                                                    *)
LEMMA AccountMemory ==
  ASSUME NEW m \in Memory, NEW k, NEW e, k \in DOMAIN m.accounts => e \in Account
  PROVE  /\ [m EXCEPT !.accounts[k] = e] \in Memory
         /\ Placed(m) => Placed([m EXCEPT !.accounts[k] = e])
<1> DEFINE acc == [m.accounts EXCEPT ![k] = e]
<1>1. m.accounts \in Seq(Account)
  BY MemoryParts
<1>2. acc \in Seq(Account)
  BY <1>1, SeqExcept
<1>3. [m EXCEPT !.accounts[k] = e] = [m EXCEPT !.accounts = acc]
  BY MemoryParts
<1> HIDE DEF acc
<1> QED
  BY <1>2, <1>3, AccountsMemory

(* The transactions of an account that is there.                           *)
LEMMA TxnsFacts ==
  ASSUME NEW m \in Memory, NEW a \in Nat, HasAccount(m, a)
  PROVE  /\ a + 1 \in DOMAIN m.accounts
         /\ m.accounts[a + 1] \in Account
         /\ TxnsOf(m, a) \in Seq(Transaction)
<1>1. m.accounts \in Seq(Account)
  BY MemoryParts
<1>2. a + 1 \in DOMAIN m.accounts /\ m.accounts[a + 1] \in Account
  BY <1>1, SeqAt DEF HasAccount
<1> QED
  BY <1>2 DEF TxnsOf, Account

(* Other transactions for it.                                              *)
LEMMA WithTxnsMemory ==
  ASSUME NEW m \in Memory, NEW a \in Nat, HasAccount(m, a),
         NEW txns \in Seq(Transaction)
  PROVE  /\ WithTxns(m, a, txns) \in Memory
         /\ Placed(m) => Placed(WithTxns(m, a, txns))
<1> DEFINE e == [m.accounts[a + 1] EXCEPT !.txns = txns]
<1>1. m.accounts[a + 1] \in Account
  BY TxnsFacts
<1>2. e \in Account
  BY <1>1 DEF Account
<1>3. WithTxns(m, a, txns) = [m EXCEPT !.accounts[a + 1] = e]
  BY DEF WithTxns
<1> HIDE DEF e
<1>4. /\ [m EXCEPT !.accounts[a + 1] = e] \in Memory
      /\ Placed(m) => Placed([m EXCEPT !.accounts[a + 1] = e])
  BY <1>2, AccountMemory
<1> QED
  BY <1>3, <1>4

(* CreateOrGetAccountId() ...                                              *)
LEMMA AddAccountMemory ==
  ASSUME NEW m \in Memory, NEW number \in Numbers, NEW name \in Names,
         NEW bank \in Banks
  PROVE  /\ AddAccount(m, number, name, bank) \in Memory
         /\ Placed(m) => Placed(AddAccount(m, number, name, bank))
<1> DEFINE e == [number |-> number, name |-> name, bank |-> bank, txns |-> <<>>]
           acc == Append(m.accounts, e)
<1>1. e \in Account
  <2>1. <<>> \in Seq(Transaction)
    OBVIOUS
  <2> QED
    BY <2>1 DEF Account
<1> HIDE DEF e
<1>2. acc \in Seq(Account)
  BY <1>1, MemoryParts, AppendProperties
<1>3. AddAccount(m, number, name, bank) = m
        \/ AddAccount(m, number, name, bank) = [m EXCEPT !.accounts = acc]
  BY DEF AddAccount, e
<1> HIDE DEF acc
<1> QED
  BY <1>2, <1>3, AccountsMemory

(* ... and the id it answers.                                              *)
LEMMA AccountIdFacts ==
  ASSUME NEW m \in Memory, NEW number
  PROVE  AccountId(m, number) \in Nat
<1>1. m.accounts \in Seq(Account)
  BY MemoryParts
<1>2. Len(m.accounts) \in Nat /\ DOMAIN m.accounts = 1 .. Len(m.accounts)
  BY <1>1, SeqAt
<1>3. CASE ~KnownNumber(m, number)
  BY <1>2, <1>3 DEF AccountId
<1>4. CASE KnownNumber(m, number)
  <2> DEFINE least(k) == /\ m.accounts[k].number = number
                         /\ \A j \in DOMAIN m.accounts :
                              m.accounts[j].number = number => k <= j
             T == {k \in DOMAIN m.accounts : m.accounts[k].number = number}
  <2>1. T \subseteq Nat /\ T # {}
    BY <1>2, <1>4 DEF KnownNumber
  <2>2. PICK i \in T : \A j \in T : i <= j
    <3> HIDE DEF T
    <3> QED
      BY <2>1, LeastNatural
  <2>3. \E k \in DOMAIN m.accounts : least(k)
    BY <2>2
  <2>4. AccountId(m, number) = (CHOOSE k \in DOMAIN m.accounts : least(k)) - 1
    BY <1>4 DEF AccountId
  <2> HIDE DEF least
  <2>5. (CHOOSE k \in DOMAIN m.accounts : least(k)) \in DOMAIN m.accounts
    BY <2>3
  <2> QED
    BY <1>2, <2>4, <2>5
<1> QED
  BY <1>3, <1>4

(* RenameId() of a child or an account.                                    *)
LEMMA RenameMemory ==
  ASSUME NEW m \in Memory, NEW t \in Topics \cup {"ACCOUNT"}, NEW id,
         NEW name \in Names
  PROVE  /\ RenameId(m, t, id, name) \in Memory
         /\ Placed(m) => Placed(RenameId(m, t, id, name))
<1>1. CASE t = "ACCOUNT"
  <2> DEFINE k == id + 1
             e == [m.accounts[k] EXCEPT !.name = name]
  <2>1. m.accounts \in Seq(Account)
    BY MemoryParts
  <2>2. k \in DOMAIN m.accounts => m.accounts[k] \in Account
    BY <2>1, SeqAt
  <2>3. k \in DOMAIN m.accounts => e \in Account
    BY <2>2 DEF Account
  <2>4. RenameId(m, t, id, name) = [m EXCEPT !.accounts[k] = e]
    BY <1>1 DEF RenameId
  <2> HIDE DEF e, k
  <2>5. /\ [m EXCEPT !.accounts[k] = e] \in Memory
        /\ Placed(m) => Placed([m EXCEPT !.accounts[k] = e])
    BY <2>3, AccountMemory
  <2> QED
    BY <2>4, <2>5
<1>2. CASE t \in Topics
  <2> DEFINE c == m.children[t]
             r == Rename(c, id, name)
  <2>1. c \in Seq(Child)
    BY <1>2, MemoryParts
  <2>2. RenameId(m, t, id, name) = [m EXCEPT !.children[t] = r]
    BY <1>2, DataAssumption DEF RenameId, DataAssumption
  <2>3. Placed(m) => Sound(t, c)
    BY <1>2 DEF Placed
  <2> HIDE DEF c
  <2>4. r \in Seq(Child) /\ (Sound(t, c) => Sound(t, r))
    BY <2>1, RenameFacts DEF Sound
  <2> HIDE DEF r
  <2>5. /\ [m EXCEPT !.children[t] = r] \in Memory
        /\ Placed(m) /\ Sound(t, r) => Placed([m EXCEPT !.children[t] = r])
    BY <1>2, <2>4, ChildrenMemory
  <2> QED
    BY <2>2, <2>3, <2>4, <2>5
<1> QED
  BY <1>1, <1>2

(* ApplyEdit(): an id for a topic, or a description.                       *)
FieldValue(field, value) ==
  \/ field \in Topics /\ value \in Nat
  \/ field = "MEMO" /\ value \in Notes

LEMMA EditMemory ==
  ASSUME NEW m \in Memory, NEW a \in Nat, HasAccount(m, a), NEW p,
         NEW field, NEW value, FieldValue(field, value)
  PROVE  /\ EditTransaction(m, a, p, field, value) \in Memory
         /\ Placed(m) => Placed(EditTransaction(m, a, p, field, value))
<1> DEFINE k == p + 1
           old == TxnsOf(m, a)
           e == IF field = "MEMO" THEN [old[k] EXCEPT !.note = value]
                ELSE [old[k] EXCEPT !.ids[field] = value]
           new == [old EXCEPT ![k] = e]
<1>1. old \in Seq(Transaction)
  BY TxnsFacts
<1>2. EditTransaction(m, a, p, field, value) = WithTxns(m, a, new)
  BY DEF EditTransaction, AddDescription, SetId
<1> HIDE DEF old, k
<1>3. ASSUME k \in DOMAIN old PROVE e \in Transaction
  <2>1. old[k] \in Transaction
    BY <1>1, <1>3, SeqAt
  <2>2. CASE field = "MEMO"
    <3>1. value \in Notes
      BY <2>2, DataAssumption DEF FieldValue, DataAssumption
    <3> QED
      BY <2>1, <2>2, <3>1 DEF Transaction
  <2>3. CASE field # "MEMO"
    <3>1. value \in Nat
      BY <2>3 DEF FieldValue
    <3>2. e = [old[k] EXCEPT !.ids = [old[k].ids EXCEPT ![field] = value]]
      BY <2>1, <2>3 DEF Transaction
    <3>3. [old[k].ids EXCEPT ![field] = value] \in [Topics -> Nat]
      BY <2>1, <3>1 DEF Transaction
    <3> HIDE DEF e
    <3> QED
      BY <2>1, <3>2, <3>3 DEF Transaction
  <2> QED
    BY <2>2, <2>3
<1> HIDE DEF e
<1>4. new \in Seq(Transaction)
  BY <1>1, <1>3, SeqExcept
<1> HIDE DEF new
<1> QED
  BY <1>2, <1>4, WithTxnsMemory

-----------------------------------------------------------------------------
(* Rows of the journal, by kind.                                           *)
LEMMA RowFacts ==
  ASSUME NEW row \in Row
  PROVE  /\ row.op \in RowOps
         /\ row.op = "CREATE" => row.topic \in Topics /\ row.name \in Names
         /\ row.op = "KEYWORD" => /\ row.topic \in Topics /\ row.id \in Nat
                                 /\ row.word \in Words
         /\ row.op = "RENAME" => /\ row.topic \in Topics \cup {"ACCOUNT"}
                                /\ row.id \in Nat /\ row.name \in Names
         /\ row.op = "MERGE" => /\ row.topic \in Topics
                               /\ row.froms \in SUBSET Nat /\ row.to \in Nat
                               /\ row.to \notin row.froms
         /\ row.op = "ACCOUNT" => /\ row.number \in Numbers
                                 /\ row.name \in Names /\ row.bank \in Banks
         /\ row.op = "TRANSACTION" => /\ row.account \in Nat
                                     /\ row.txn \in Transaction
         /\ row.op = "EDIT_TXN" => /\ row.account \in Nat
                                  /\ FieldValue(row.field, row.value)
  BY DEF Row, RowOps, FieldValue

(* Merge() of children that are there.                                     *)
LEMMA MergeMemory ==
  ASSUME NEW m \in Memory, NEW t \in Topics, NEW froms \in SUBSET Nat,
         NEW to \in Nat, \A id \in froms \cup {to} : HasId(m, t, id),
         to \notin froms
  PROVE  /\ MergeChildren(m, t, froms, to) \in Memory
         /\ Placed(m) => Placed(MergeChildren(m, t, froms, to))
<1> DEFINE c == m.children[t]
           r == Merge(c, froms, to)
<1>1. c \in Seq(Child)
  BY MemoryParts
<1>2. \A id \in froms \cup {to} : id < Len(c)
  BY DataAssumption DEF HasId, DataAssumption
<1>3. MergeChildren(m, t, froms, to) = [m EXCEPT !.children[t] = r]
  BY DEF MergeChildren
<1> HIDE DEF c
<1>4. r \in Seq(Child) /\ InPlace(r) /\ (InPlace(c) => r # <<>>)
  BY <1>1, <1>2, MergeFacts
<1>6. Placed(m) => InPlace(c)
  BY DEF Placed, Sound, c
<1> HIDE DEF r
<1>5. /\ [m EXCEPT !.children[t] = r] \in Memory
      /\ Placed(m) /\ Sound(t, r) => Placed([m EXCEPT !.children[t] = r])
  BY <1>4, ChildrenMemory
<1> QED
  BY <1>3, <1>4, <1>5, <1>6 DEF Sound

(* CreateId() and AddKeyword() of a topic.                                 *)
LEMMA CreateMemory ==
  ASSUME NEW m \in Memory, NEW t \in Topics, NEW n \in Names
  PROVE  /\ CreateId(m, t, n) \in Memory
         /\ Placed(m) => Placed(CreateId(m, t, n))
<1> DEFINE c == m.children[t]
           r == Create(c, n)
<1>1. c \in Seq(Child) /\ (Placed(m) => Sound(t, c))
  BY MemoryParts DEF Placed
<1>2. CreateId(m, t, n) = [m EXCEPT !.children[t] = r]
  BY DEF CreateId
<1> HIDE DEF c
<1>3. r \in Seq(Child) /\ (Sound(t, c) => Sound(t, r))
  BY <1>1, CreateFacts DEF Sound
<1> HIDE DEF r
<1>4. /\ [m EXCEPT !.children[t] = r] \in Memory
      /\ Placed(m) /\ Sound(t, r) => Placed([m EXCEPT !.children[t] = r])
  BY <1>3, ChildrenMemory
<1> QED
  BY <1>1, <1>2, <1>3, <1>4

LEMMA KeywordMemory ==
  ASSUME NEW m \in Memory, NEW t \in Topics, NEW id, NEW w \in Words, NEW d
  PROVE  /\ AddKeywordTo(m, t, id, w, d) \in Memory
         /\ Placed(m) => Placed(AddKeywordTo(m, t, id, w, d))
<1> DEFINE c == m.children[t]
           r == AddKeyword(c, id, w, d)
<1>1. c \in Seq(Child) /\ (Placed(m) => Sound(t, c))
  BY MemoryParts DEF Placed
<1>2. AddKeywordTo(m, t, id, w, d) = [m EXCEPT !.children[t] = r]
  BY DEF AddKeywordTo
<1> HIDE DEF c
<1>3. r \in Seq(Child) /\ (Sound(t, c) => Sound(t, r))
  BY <1>1, KeywordFacts DEF Sound
<1> HIDE DEF r
<1>4. /\ [m EXCEPT !.children[t] = r] \in Memory
      /\ Placed(m) /\ Sound(t, r) => Placed([m EXCEPT !.children[t] = r])
  BY <1>3, ChildrenMemory
<1> QED
  BY <1>1, <1>2, <1>3, <1>4

(* A transaction added behind the others.                                  *)
LEMMA AddTransactionMemory ==
  ASSUME NEW m \in Memory, NEW a \in Nat, HasAccount(m, a),
         NEW txn \in Transaction
  PROVE  /\ AddTransaction(m, a, txn) \in Memory
         /\ Placed(m) => Placed(AddTransaction(m, a, txn))
<1>1. Append(TxnsOf(m, a), txn) \in Seq(Transaction)
  BY TxnsFacts, AppendProperties
<1> QED
  BY <1>1, WithTxnsMemory DEF AddTransaction

(* ApplyRecoveryFile(): a row that applies, or that creates something,     *)
(* leaves a memory, with its children in place.                            *)
LEMMA AppliedMemory ==
  ASSUME NEW m \in Memory, NEW row \in Row,
         Applies(m, row) \/ row.op \in {"CREATE", "ACCOUNT"}
  PROVE  /\ Applied(m, row) \in Memory
         /\ Placed(m) => Placed(Applied(m, row))
<1>1. CASE row.op = "CREATE"
  BY <1>1, RowFacts, CreateMemory DEF Applied
<1>2. CASE row.op = "KEYWORD"
  BY <1>2, RowFacts, KeywordMemory DEF Applied
<1>3. CASE row.op = "RENAME"
  BY <1>3, RowFacts, RenameMemory DEF Applied
<1>4. CASE row.op = "MERGE"
  <2>1. \A id \in row.froms \cup {row.to} : HasId(m, row.topic, id)
    BY <1>4 DEF Applies
  <2> QED
    BY <1>4, <2>1, RowFacts, MergeMemory DEF Applied
<1>5. CASE row.op = "ACCOUNT"
  BY <1>5, RowFacts, AddAccountMemory DEF Applied
<1>6. CASE row.op = "TRANSACTION"
  <2>1. HasAccount(m, row.account)
    BY <1>6 DEF Applies
  <2> QED
    BY <1>6, <2>1, RowFacts, AddTransactionMemory DEF Applied
<1>7. CASE row.op = "EDIT_TXN"
  <2>1. HasAccount(m, row.account)
    BY <1>7 DEF Applies, HasPosition
  <2> QED
    BY <1>7, <2>1, RowFacts, EditMemory DEF Applied
<1> QED
  BY <1>1, <1>2, <1>3, <1>4, <1>5, <1>6, <1>7, RowFacts DEF RowOps

(* Saving and loading: types, and children in place.                       *)
LEMMA StoredMemory ==
  ASSUME NEW m \in Memory
  PROVE  Stored(m) \in Memory /\ (Placed(m) => Placed(Loaded(Stored(m))))
<1> DEFINE ch == [t \in Topics |-> StreamOut(m.children[t], t \in Defaulted)]
<1>1. \A t \in Topics : m.children[t] \in Seq(Child)
  BY MemoryParts
<1>2. \A t \in Topics :
        /\ StreamOut(m.children[t], t \in Defaulted) \in Seq(Child)
        /\ Sound(t, m.children[t]) =>
             Sound(t, StreamIn(StreamOut(m.children[t], t \in Defaulted),
                               t \in Defaulted))
  <2> SUFFICES ASSUME NEW t \in Topics, NEW d, d = (t \in Defaulted)
               PROVE  /\ StreamOut(m.children[t], d) \in Seq(Child)
                      /\ Sound(t, m.children[t]) =>
                           Sound(t, StreamIn(StreamOut(m.children[t], d), d))
    OBVIOUS
  <2>1. d \in BOOLEAN
    OBVIOUS
  <2>2. StreamOut(m.children[t], d) \in Seq(Child)
    BY <1>1, <2>1, StreamFacts
  <2>3. d => StreamIn(StreamOut(m.children[t], d), d) # <<>>
    BY <2>1, <2>2, StreamFacts
  <2> QED
    BY <1>1, <2>1, <2>2, <2>3, StreamFacts DEF Sound
<1>3. Stored(m) = [children |-> ch, accounts |-> m.accounts]
  BY MemoryParts DEF Stored
<1>4. Stored(m) \in Memory
  BY <1>2, <1>3, MemoryParts DEF Memory
<1>5. \A t \in Topics :
        Loaded(Stored(m)).children[t]
          = StreamIn(StreamOut(m.children[t], t \in Defaulted), t \in Defaulted)
  BY <1>3 DEF Loaded
<1> QED
  BY <1>2, <1>4, <1>5 DEF Placed

LEMMA LoadedMemory ==
  ASSUME NEW f \in Memory
  PROVE  Loaded(f) \in Memory
<1>1. \A t \in Topics : StreamIn(f.children[t], t \in Defaulted) \in Seq(Child)
  <2> SUFFICES ASSUME NEW t \in Topics, NEW d, d = (t \in Defaulted)
               PROVE  StreamIn(f.children[t], d) \in Seq(Child)
    OBVIOUS
  <2>1. d \in BOOLEAN
    OBVIOUS
  <2>2. f.children[t] \in Seq(Child)
    BY MemoryParts
  <2> QED
    BY <2>1, <2>2, StreamFacts
<1> DEFINE acc == [a \in DOMAIN f.accounts |->
                     [f.accounts[a] EXCEPT !.txns = Sort(@)]]
<1>2. /\ f.accounts \in Seq(Account) /\ Len(f.accounts) \in Nat
      /\ DOMAIN f.accounts = 1 .. Len(f.accounts)
      /\ \A a \in DOMAIN f.accounts : f.accounts[a] \in Account
  BY MemoryParts, SeqAt
<1>3. ASSUME NEW a \in DOMAIN f.accounts
      PROVE  [f.accounts[a] EXCEPT !.txns = Sort(@)] \in Account
  <2>1. f.accounts[a] \in Account /\ f.accounts[a].txns \in Seq(Transaction)
    BY <1>2 DEF Account
  <2>2. \A x \in Transaction : x.date \in Nat
    BY DEF Transaction
  <2>3. Sort(f.accounts[a].txns) \in Seq(Transaction)
    BY <2>1, <2>2, SortFacts
  <2> QED
    BY <2>1, <2>3 DEF Account
<1>4. acc \in [1 .. Len(f.accounts) -> Account]
  BY <1>2, <1>3
<1>5. acc \in Seq(Account)
  <2> HIDE DEF acc
  <2> QED
    BY <1>2, <1>4, SegmentSeq
<1>6. Loaded(f) = [children |-> [t \in Topics |->
                                  StreamIn(f.children[t], t \in Defaulted)],
                   accounts |-> acc]
  BY DEF Loaded
<1> HIDE DEF acc
<1> QED
  BY <1>1, <1>5, <1>6 DEF Memory

LEMMA EmptyMemoryFacts == EmptyMemory \in Memory /\ Placed(EmptyMemory)
<1>1. <<>> \in Seq(Child) /\ <<>> \in Seq(Account) /\ DOMAIN <<>> = {}
  BY EmptySeqFacts, SeqFacts
<1>2. \A d \in BOOLEAN : StreamIn(<<>>, d) \in Seq(Child)
  BY <1>1, StreamFacts
<1>3. \A d \in BOOLEAN : InPlace(StreamIn(<<>>, d))
  <2> SUFFICES ASSUME NEW d \in BOOLEAN PROVE InPlace(StreamIn(<<>>, d))
    OBVIOUS
  <2>1. CASE d
    <3>1. <<DefaultChild>> \o <<>> = <<DefaultChild>>
      BY DefaultIsChild, ConcatEmptySeq
    <3>2. \A i \in 1 .. 1 : <<DefaultChild>>[i].id = i - 1
      BY DEF DefaultChild, NewChild
    <3> QED
      BY <2>1, <3>1, <3>2, EmptySeqFacts DEF StreamIn, InPlace
  <2>2. CASE ~d
    BY <1>1, <2>2 DEF StreamIn, InPlace
  <2> QED
    BY <2>1, <2>2
<1>4. \A t \in Topics : /\ StreamIn(<<>>, t \in Defaulted) \in Seq(Child)
                         /\ Sound(t, StreamIn(<<>>, t \in Defaulted))
  <2> SUFFICES ASSUME NEW t \in Topics, NEW d, d = (t \in Defaulted)
               PROVE  StreamIn(<<>>, d) \in Seq(Child) /\ Sound(t, StreamIn(<<>>, d))
    OBVIOUS
  <2>1. d \in BOOLEAN
    OBVIOUS
  <2>2. d => StreamIn(<<>>, d) # <<>>
    BY <1>1, <2>1, StreamFacts
  <2> QED
    BY <1>2, <1>3, <2>1, <2>2 DEF Sound
<1> QED
  BY <1>1, <1>4 DEF EmptyMemory, Memory, Placed

-----------------------------------------------------------------------------
(* The invariant: the data, of their types and in place ...                *)
MData ==
  /\ phase \in {"closed", "offer", "replaying", "open"}
  /\ phase = "closed" => mem = NoMem
  /\ phase # "closed" => mem \in Memory /\ Placed(mem)
  /\ file # NoFile => file \in Memory /\ Placed(Loaded(file))
  /\ journal \in [base : Memory \cup {NoFile}, rows : Seq(Row)]
  /\ cursor \in 0 .. Len(journal.rows)
  /\ lived \in Seq(Memory)
  /\ dirty \in BOOLEAN /\ exact \in BOOLEAN

(* ... and what is under way, of its type.                                 *)
Merger == [topic : Topics, froms : SUBSET Nat, to : Nat, target : Nat,
           todo : SUBSET (Nat \X Nat), before : Memory]

Importer == [account : Nat, todo : Seq([date : Nat, what : Whats]),
             started : BOOLEAN, on : BOOLEAN]

MUnder ==
  /\ merging = NoMerge \/ merging \in Merger
  /\ importing \in Importer

MInv == MData /\ MUnder

(* A journaled operation keeps the data in order if its row and the memory *)
(* it makes are.                                                           *)
LEMMA AppendedData ==
  ASSUME MData, phase = "open", NEW row \in Row, NEW m \in Memory, Placed(m),
         mem' = m, lived' = Append(lived, m),
         journal' = [journal EXCEPT !.rows = Append(@, row)],
         UNCHANGED <<file, phase, cursor>>,
         dirty' \in BOOLEAN, exact' \in BOOLEAN
  PROVE  MData'
<1> DEFINE rows == journal.rows
<1>1. journal \in [base : Memory \cup {NoFile}, rows : Seq(Row)]
  BY DEF MData
<1>2. rows \in Seq(Row) /\ Len(rows) \in Nat
  BY <1>1, LenProperties
<1>3. Append(rows, row) \in Seq(Row) /\ Len(Append(rows, row)) = Len(rows) + 1
  BY <1>2, AppendProperties
<1>4. /\ mem' = m /\ lived' = Append(lived, m)
      /\ journal' = [base |-> journal.base, rows |-> Append(rows, row)]
  BY <1>1
<1>5. journal' \in [base : Memory \cup {NoFile}, rows : Seq(Row)]
  BY <1>1, <1>3, <1>4
<1>6. cursor' \in 0 .. Len(journal'.rows)
  <2>1. cursor \in 0 .. Len(rows) /\ journal'.rows = Append(rows, row)
    BY <1>4 DEF MData
  <2> HIDE DEF rows
  <2> QED
    BY <1>2, <1>3, <2>1
<1>7. lived' \in Seq(Memory)
  BY <1>4, AppendProperties DEF MData
<1> QED
  BY <1>4, <1>5, <1>6, <1>7 DEF MData

LEMMA LoggedData ==
  ASSUME MData, phase = "open", NEW row \in Row, NEW m \in Memory, Placed(m),
         Log(row, m), UNCHANGED <<file, phase, cursor>>,
         dirty' \in BOOLEAN, exact' \in BOOLEAN
  PROVE  MData'
<1>1. /\ mem' = m /\ lived' = Append(lived, m)
      /\ journal' = [journal EXCEPT !.rows = Append(@, row)]
  BY DEF Log
<1> QED
  BY <1>1, AppendedData

(* So does an operation that is not journaled.                             *)
LEMMA QuietData ==
  ASSUME MData, phase = "open", mem' \in Memory, Placed(mem'),
         UNCHANGED <<file, journal, phase, cursor, lived>>,
         dirty' \in BOOLEAN, exact' \in BOOLEAN
  PROVE  MData'
  BY DEF MData, Placed

(* What is under way is not touched.                                       *)
LEMMA SameUnder ==
  ASSUME MUnder, UNCHANGED <<merging, importing>>
  PROVE  MUnder'
  BY DEF MUnder

(* Ids of children and places of transactions are numbers.                 *)
LEMMA IdsAreNumbers ==
  ASSUME NEW m \in Memory, NEW t \in Topics
  PROVE  Ids(m.children[t]) \subseteq Nat
<1>1. m.children[t] \in Seq(Child)
  BY MemoryParts
<1>2. \A i \in DOMAIN m.children[t] : m.children[t][i] \in Child
  BY <1>1, SeqAt
<1> QED
  BY <1>2 DEF Ids, Child

LEMMA PlacesAreNumbers ==
  ASSUME NEW m \in Memory, NEW a \in DOMAIN m.accounts
  PROVE  /\ a - 1 \in Nat /\ HasAccount(m, a - 1)
         /\ TxnsOf(m, a - 1) = m.accounts[a].txns
         /\ m.accounts[a].txns \in Seq(Transaction)
         /\ Positions(m.accounts[a].txns) \subseteq Nat
<1>1. m.accounts \in Seq(Account)
  BY MemoryParts
<1>2. /\ a - 1 \in Nat /\ a - 1 < Len(m.accounts) /\ a - 1 + 1 = a
      /\ m.accounts[a] \in Account
  BY <1>1, SeqAt
<1>3. m.accounts[a].txns \in Seq(Transaction)
  BY <1>2 DEF Account
<1>4. \A i \in DOMAIN m.accounts[a].txns : i - 1 \in Nat
  BY <1>3, SeqAt
<1> QED
  BY <1>2, <1>3, <1>4 DEF HasAccount, TxnsOf, Positions

LEMMA PlaceFacts ==
  ASSUME NEW m \in Memory
  PROVE  /\ Places(m) \subseteq Nat \X Nat
         /\ \A place \in Places(m) : /\ place[1] \in Nat /\ place[2] \in Nat
                                    /\ HasAccount(m, place[1])
<1> SUFFICES ASSUME NEW place \in Places(m)
             PROVE  /\ place \in Nat \X Nat
                    /\ place[1] \in Nat /\ place[2] \in Nat
                    /\ HasAccount(m, place[1])
  OBVIOUS
<1>1. PICK a \in DOMAIN m.accounts :
        \E p \in Positions(m.accounts[a].txns) : place = <<a - 1, p>>
  BY DEF Places
<1>2. PICK p \in Positions(m.accounts[a].txns) : place = <<a - 1, p>>
  BY <1>1
<1>3. a - 1 \in Nat /\ p \in Nat /\ HasAccount(m, a - 1)
  BY PlacesAreNumbers
<1> QED
  BY <1>2, <1>3

-----------------------------------------------------------------------------
(* It holds at first, and every action keeps it.                           *)
LEMMA InitMInv == Init => MInv
<1> SUFFICES ASSUME Init PROVE MInv
  OBVIOUS
<1>1. file # NoFile => file \in Memory /\ Placed(Loaded(file))
  <2> SUFFICES ASSUME file # NoFile
               PROVE  file \in Memory /\ Placed(Loaded(file))
    OBVIOUS
  <2>1. /\ file \in Memory
        /\ \A t \in Topics : InPlace(Loaded(file).children[t])
    BY LedgerAssumption DEF Init, LedgerAssumption
  <2>2. ASSUME NEW t \in Topics
        PROVE  Sound(t, Loaded(file).children[t])
    <3> DEFINE d == t \in Defaulted
    <3>1. d \in BOOLEAN /\ file.children[t] \in Seq(Child)
      BY <2>1, MemoryParts
    <3>2. Loaded(file).children[t] = StreamIn(file.children[t], d)
      BY DEF Loaded
    <3> HIDE DEF d
    <3>3. d => Loaded(file).children[t] # <<>>
      BY <3>1, <3>2, StreamFacts
    <3> QED
      BY <2>1, <3>3 DEF Sound, d
  <2> QED
    BY <2>1, <2>2 DEF Placed
<1>2. <<>> \in Seq(Row) /\ <<>> \in Seq(Memory) /\ Len(<<>>) = 0
        /\ <<>> \in Seq([date : Nat, what : Whats])
  OBVIOUS
<1>3. journal \in [base : Memory \cup {NoFile}, rows : Seq(Row)]
        /\ journal.rows = <<>>
  BY <1>2 DEF Init, NoJournal
<1>4. MData
  <2>1. cursor \in 0 .. Len(journal.rows)
    BY <1>2, <1>3 DEF Init
  <2>2. lived \in Seq(Memory)
    BY <1>2 DEF Init
  <2>3. phase = "closed" /\ mem = NoMem /\ dirty \in BOOLEAN /\ exact \in BOOLEAN
    BY DEF Init
  <2> QED
    BY <1>1, <1>3, <2>1, <2>2, <2>3 DEF MData
<1>5. MUnder
  BY <1>2 DEF Init, MUnder, NoImport, Importer
<1> QED
  BY <1>4, <1>5 DEF MInv

LEMMA CreateKeepsM ==
  ASSUME MInv, NEW t \in Topics, NEW n \in Names, phase = "open", Create_(t, n)
  PROVE  MInv'
<1> DEFINE c == mem.children[t]
           row == [op |-> "CREATE", topic |-> t, name |-> n,
                   id |-> CreatedId(c, n)]
           m == CreateId(mem, t, n)
<1>1. mem \in Memory /\ Placed(mem)
  BY DEF MInv, MData
<1>2. /\ SearchIdsHighConfidence(c, n) = {} /\ Log(row, m) /\ dirty' = TRUE
      /\ UNCHANGED <<file, phase, cursor, merging, importing, exact>>
  BY DEF Create_
<1>3. CreatedId(c, n) \in Nat
  <2>1. c \in Seq(Child)
    BY <1>1, MemoryParts
  <2>2. CreatedId(c, n) = Len(c)
    BY <1>2 DEF CreatedId
  <2> QED
    BY <2>1, <2>2, LenProperties
<1>4. row \in Row
  BY <1>3 DEF Row
<1>5. m \in Memory /\ Placed(m)
  BY <1>1, CreateMemory
<1>6. dirty' \in BOOLEAN /\ exact' \in BOOLEAN
  BY <1>2 DEF MInv, MData
<1> HIDE DEF row, m
<1>7. MData'
  BY <1>2, <1>4, <1>5, <1>6, LoggedData DEF MInv
<1> QED
  BY <1>2, <1>7, SameUnder DEF MInv

LEMMA KeywordKeepsM ==
  ASSUME MInv, NEW t \in Topics, phase = "open",
         NEW id \in Ids(mem.children[t]), NEW w \in Words, NEW d \in BOOLEAN,
         Keyword(t, id, w, d)
  PROVE  MInv'
<1> DEFINE row == [op |-> "KEYWORD", topic |-> t, id |-> id, word |-> w,
                   definitive |-> d]
           m == AddKeywordTo(mem, t, id, w, d)
<1>1. mem \in Memory /\ Placed(mem)
  BY DEF MInv, MData
<1>2. /\ Log(row, m) /\ dirty' = TRUE
      /\ UNCHANGED <<file, phase, cursor, merging, importing, exact>>
  BY DEF Keyword
<1>3. id \in Nat
  BY <1>1, IdsAreNumbers
<1>4. row \in Row
  BY <1>3 DEF Row
<1>5. m \in Memory /\ Placed(m)
  BY <1>1, KeywordMemory
<1>6. dirty' \in BOOLEAN /\ exact' \in BOOLEAN
  BY <1>2 DEF MInv, MData
<1> HIDE DEF row, m
<1>7. MData'
  BY <1>2, <1>4, <1>5, <1>6, LoggedData DEF MInv
<1> QED
  BY <1>2, <1>7, SameUnder DEF MInv

LEMMA RenameKeepsM ==
  ASSUME MInv, NEW t \in Topics \cup {"ACCOUNT"}, phase = "open", NEW id \in Nat,
         NEW n \in Names, Rename_(t, id, n)
  PROVE  MInv'
<1> DEFINE row == [op |-> "RENAME", topic |-> t, id |-> id, name |-> n]
           m == RenameId(mem, t, id, n)
<1>1. mem \in Memory /\ Placed(mem)
  BY DEF MInv, MData
<1>2. /\ Log(row, m) /\ dirty' = TRUE
      /\ UNCHANGED <<file, phase, cursor, merging, importing, exact>>
  BY DEF Rename_
<1>4. row \in Row
  BY DEF Row
<1>5. m \in Memory /\ Placed(m)
  BY <1>1, RenameMemory
<1>6. dirty' \in BOOLEAN /\ exact' \in BOOLEAN
  BY <1>2 DEF MInv, MData
<1> HIDE DEF row, m
<1>7. MData'
  BY <1>2, <1>4, <1>5, <1>6, LoggedData DEF MInv
<1> QED
  BY <1>2, <1>7, SameUnder DEF MInv

(* A row of an edit.                                                       *)
LEMMA EditRow ==
  ASSUME NEW a \in Nat, NEW p \in Nat, NEW field, NEW value,
         FieldValue(field, value)
  PROVE  [op |-> "EDIT_TXN", account |-> a, position |-> p, field |-> field,
          value |-> value] \in Row
  BY DEF Row, FieldValue

LEMMA EditKeepsM ==
  ASSUME MInv, phase = "open", NEW a \in DOMAIN mem.accounts,
         NEW p \in Positions(mem.accounts[a].txns),
         NEW field, NEW value, FieldValue(field, value),
         Edit(a - 1, p, field, value)
  PROVE  MInv'
<1> DEFINE row == [op |-> "EDIT_TXN", account |-> a - 1, position |-> p,
                   field |-> field, value |-> value]
           m == EditTransaction(mem, a - 1, p, field, value)
<1>1. mem \in Memory /\ Placed(mem)
  BY DEF MInv, MData
<1>2. /\ Log(row, m) /\ dirty' = TRUE
      /\ UNCHANGED <<file, phase, cursor, merging, importing, exact>>
  BY DEF Edit
<1>3. a - 1 \in Nat /\ p \in Nat /\ HasAccount(mem, a - 1)
  BY <1>1, PlacesAreNumbers
<1>4. row \in Row
  BY <1>3, EditRow
<1>5. m \in Memory /\ Placed(m)
  BY <1>1, <1>3, EditMemory
<1>6. dirty' \in BOOLEAN /\ exact' \in BOOLEAN
  BY <1>2 DEF MInv, MData
<1> HIDE DEF row, m
<1>7. MData'
  BY <1>2, <1>4, <1>5, <1>6, LoggedData DEF MInv
<1> QED
  BY <1>2, <1>7, SameUnder DEF MInv

(* An edit moves no account.                                               *)
LEMMA EditHasAccount ==
  ASSUME NEW m \in Memory, NEW a, HasAccount(m, a), NEW b, NEW p, NEW field,
         NEW value
  PROVE  HasAccount(EditTransaction(m, b, p, field, value), a)
  BY MemoryShape, EditShape DEF HasAccount

LEMMA CategorizeKeepsM ==
  ASSUME MInv, phase = "open", NEW a \in DOMAIN mem.accounts,
         NEW p \in Positions(mem.accounts[a].txns),
         {"CLIENT", "CATEGORY"} \subseteq Topics,
         NEW client \in Nat, NEW category \in Nat, NEW note \in Notes,
         NEW found \in BOOLEAN,
         Categorize(a - 1, p, client, category, note, found)
  PROVE  MInv'
<1> DEFINE row == [op |-> "EDIT_TXN", account |-> a - 1, position |-> p,
                   field |-> "CATEGORY", value |-> category]
           moved == EditTransaction(mem, a - 1, p, "CLIENT", client)
           named == EditTransaction(moved, a - 1, p, "CATEGORY", category)
           after == EditTransaction(named, a - 1, p, "MEMO", note)
           only  == EditTransaction(mem, a - 1, p, "CATEGORY", category)
<1>1. mem \in Memory /\ Placed(mem) /\ exact \in BOOLEAN /\ dirty \in BOOLEAN
  BY DEF MInv, MData
<1>2. /\ UNCHANGED <<file, phase, cursor, merging, importing>>
      /\ \/ Log(row, after) /\ dirty' = TRUE /\ exact' = (exact /\ after = only)
         \/ /\ mem' = after /\ exact' = (exact /\ after = mem)
            /\ UNCHANGED <<journal, lived, dirty>>
  BY DEF Categorize
<1>3. a - 1 \in Nat /\ p \in Nat /\ HasAccount(mem, a - 1)
  BY <1>1, PlacesAreNumbers
<1>4. /\ FieldValue("CLIENT", client) /\ FieldValue("CATEGORY", category)
      /\ FieldValue("MEMO", note)
  BY DEF FieldValue
<1>5. row \in Row
  BY <1>3, <1>4, EditRow
<1>6. moved \in Memory /\ Placed(moved) /\ HasAccount(moved, a - 1)
  BY <1>1, <1>3, <1>4, EditMemory, EditHasAccount
<1> HIDE DEF moved, row, only
<1>7. named \in Memory /\ Placed(named) /\ HasAccount(named, a - 1)
  BY <1>3, <1>4, <1>6, EditMemory, EditHasAccount
<1> HIDE DEF named
<1>8. after \in Memory /\ Placed(after)
  BY <1>3, <1>4, <1>7, EditMemory
<1> HIDE DEF after
<1>9. exact' \in BOOLEAN /\ dirty' \in BOOLEAN
  BY <1>1, <1>2
<1>10. MData'
  <2>1. CASE Log(row, after)
    BY <2>1, <1>2, <1>5, <1>8, <1>9, LoggedData DEF MInv
  <2>2. CASE mem' = after /\ UNCHANGED <<journal, lived>>
    BY <2>2, <1>2, <1>8, <1>9, QuietData DEF MInv, Placed
  <2> QED
    BY <1>2, <2>1, <2>2
<1> QED
  BY <1>2, <1>10, SameUnder DEF MInv

LEMMA StartMergeKeepsM ==
  ASSUME MInv, phase = "open", NEW t \in Topics,
         NEW others \in SUBSET Ids(mem.children[t]),
         NEW to \in Ids(mem.children[t]), StartMerge(t, others, to)
  PROVE  MInv'
<1> DEFINE froms == others \ {to}
           row == [op |-> "MERGE", topic |-> t, froms |-> froms, to |-> to]
           m == MergeChildren(mem, t, froms, to)
           under == [topic |-> t, froms |-> froms, to |-> to,
                     target |-> HealedId(to, froms), todo |-> Places(mem),
                     before |-> mem]
<1>1. mem \in Memory /\ Placed(mem)
  BY DEF MInv, MData
<1>2. /\ \A id \in froms \cup {to} : HasId(mem, t, id)
      /\ Log(row, m) /\ dirty' = TRUE /\ merging' = under
      /\ UNCHANGED <<file, phase, cursor, importing, exact>>
  BY DEF StartMerge
<1>3. to \in Nat /\ froms \in SUBSET Nat
  BY <1>1, IdsAreNumbers
<1>4. row \in Row
  BY <1>3 DEF Row
<1>5. m \in Memory /\ Placed(m)
  BY <1>1, <1>2, <1>3, MergeMemory
<1>6. dirty' \in BOOLEAN /\ exact' \in BOOLEAN
  BY <1>2 DEF MInv, MData
<1>7. under \in Merger
  <2>1. HealedId(to, froms) \in Nat
    BY <1>3, HealedFacts
  <2>2. Places(mem) \in SUBSET (Nat \X Nat)
    BY <1>1, PlaceFacts
  <2> QED
    BY <1>1, <1>3, <2>1, <2>2 DEF Merger
<1> HIDE DEF row, m, under
<1>8. MData'
  BY <1>2, <1>4, <1>5, <1>6, LoggedData DEF MInv
<1>9. MUnder'
  BY <1>2, <1>7 DEF MInv, MUnder
<1> QED
  BY <1>8, <1>9 DEF MInv

LEMMA MergeNextKeepsM ==
  ASSUME IInv, MInv, MergeNext
  PROVE  MInv'
<1> DEFINE id(q) == GetTransactionAt(TxnsOf(mem, q[1]), q[2])
                      .ids[merging.topic]
           becomes(q) == IF id(q) \in merging.froms THEN merging.target
                         ELSE HealedId(id(q), merging.froms)
           row(q) == [op |-> "EDIT_TXN", account |-> q[1], position |-> q[2],
                      field |-> merging.topic, value |-> becomes(q)]
           m(q) == EditTransaction(mem, q[1], q[2], merging.topic, becomes(q))
<1>1. PICK q \in merging.todo :
        /\ mem' = m(q)
        /\ \/ /\ journal' = [journal EXCEPT !.rows = Append(@, row(q))]
              /\ lived' = Append(lived, m(q))
              /\ UNCHANGED exact
           \/ /\ exact' = (exact /\ m(q) = mem)
              /\ UNCHANGED <<journal, lived>>
        /\ merging' = [merging EXCEPT !.todo = @ \ {q}]
  BY DEF MergeNext
<1>2. /\ phase = "open" /\ merging # NoMerge
      /\ UNCHANGED <<dirty, file, phase, cursor, importing>>
  BY DEF MergeNext
<1>3. /\ mem \in Memory /\ Placed(mem) /\ merging \in Merger
      /\ dirty \in BOOLEAN /\ exact \in BOOLEAN
  BY <1>2 DEF MInv, MData, MUnder
<1>4. q \in Places(mem)
  BY <1>2 DEF IInv, Underway
<1>5. /\ q[1] \in Nat /\ q[2] \in Nat /\ HasAccount(mem, q[1])
      /\ HasPosition(mem, q[1], q[2])
  BY <1>3, <1>4, PlaceFacts, MemoryShape, MergePlaceExists
<1>6. id(q) \in Nat
  <2>1. TxnsOf(mem, q[1]) \in Seq(Transaction)
    BY <1>3, <1>5, TxnsFacts
  <2>2. q[2] + 1 \in DOMAIN TxnsOf(mem, q[1])
    <3>1. PICK i \in DOMAIN TxnsOf(mem, q[1]) : q[2] = i - 1
      BY <1>5 DEF HasPosition, Positions
    <3>2. i - 1 + 1 = i
      BY <2>1, SeqAt
    <3> QED
      BY <3>1, <3>2
  <2>3. TxnsOf(mem, q[1])[q[2] + 1] \in Transaction
    BY <2>1, <2>2, SeqAt
  <2> QED
    BY <1>3, <2>3 DEF GetTransactionAt, Merger, Transaction
<1> DEFINE now == becomes(q)
<1>7. now \in Nat
  <2> HIDE DEF id
  <2>1. merging.target \in Nat /\ merging.froms \in SUBSET Nat
    BY <1>3 DEF Merger
  <2>2. HealedId(id(q), merging.froms) \in Nat
    BY <1>6, <2>1, HealedFacts
  <2> QED
    BY <2>1, <2>2
<1> HIDE DEF becomes
<1>8. FieldValue(merging.topic, now)
  BY <1>3, <1>7 DEF FieldValue, Merger
<1> HIDE DEF now
<1>9. row(q) \in Row
  BY <1>5, <1>8, EditRow DEF now
<1>10. m(q) \in Memory /\ Placed(m(q))
  BY <1>3, <1>5, <1>8, EditMemory DEF now
<1>11. dirty' \in BOOLEAN /\ exact' \in BOOLEAN
  BY <1>1, <1>2, <1>3
<1> HIDE DEF m, row
<1>12. MData'
  <2>1. CASE /\ journal' = [journal EXCEPT !.rows = Append(@, row(q))]
             /\ lived' = Append(lived, m(q))
    BY <2>1, <1>1, <1>2, <1>9, <1>10, <1>11, AppendedData DEF MInv
  <2>2. CASE UNCHANGED <<journal, lived>>
    BY <2>2, <1>1, <1>2, <1>10, <1>11, QuietData DEF MInv, Placed
  <2> QED
    BY <1>1, <2>1, <2>2
<1>13. MUnder'
  <2>1. merging' \in Merger
    BY <1>1, <1>3 DEF Merger
  <2> QED
    BY <1>2, <2>1 DEF MInv, MUnder
<1> QED
  BY <1>12, <1>13 DEF MInv

LEMMA MergeEndKeepsM ==
  ASSUME MInv, MergeEnd
  PROVE  MInv'
<1>1. MData'
  BY DEF MergeEnd, MInv, MData, Placed
<1>2. MUnder'
  BY DEF MergeEnd, MInv, MUnder
<1> QED
  BY <1>1, <1>2 DEF MInv

LEMMA PruneKeepsM ==
  ASSUME MInv, phase = "open", NEW a \in DOMAIN mem.accounts, NEW count \in Nat,
         Prune_(a - 1, count)
  PROVE  MInv'
<1> DEFINE txns == Prune(TxnsOf(mem, a - 1), count)
<1>1. mem \in Memory /\ Placed(mem)
  BY DEF MInv, MData
<1>2. /\ mem' = WithTxns(mem, a - 1, txns) /\ dirty' = TRUE /\ exact' = FALSE
      /\ UNCHANGED <<file, journal, phase, cursor, merging, importing, lived>>
  BY DEF Prune_
<1>3. a - 1 \in Nat /\ HasAccount(mem, a - 1)
  BY <1>1, PlacesAreNumbers
<1>4. txns \in Seq(Transaction)
  BY <1>1, <1>3, TxnsFacts, PruneFacts
<1> HIDE DEF txns
<1>5. WithTxns(mem, a - 1, txns) \in Memory /\ Placed(WithTxns(mem, a - 1, txns))
  BY <1>1, <1>3, <1>4, WithTxnsMemory
<1>6. MData'
  BY <1>2, <1>5, QuietData DEF MInv, Placed
<1> QED
  BY <1>2, <1>6, SameUnder DEF MInv

LEMMA StartImportKeepsM ==
  ASSUME MInv, phase = "open", NEW export \in Exports, NEW name \in Names,
         NEW typed \in Banks, StartImport(export, name, typed)
  PROVE  MInv'
<1> DEFINE id == AccountId(mem, export.number)
           row == [op |-> "ACCOUNT", id |-> id, number |-> export.number,
                   name |-> name, bank |-> typed]
           m == AddAccount(mem, export.number, name, export.bank)
           under == [account |-> id, todo |-> export.rows, started |-> FALSE,
                     on |-> TRUE]
<1>1. /\ mem \in Memory /\ Placed(mem) /\ exact \in BOOLEAN /\ dirty \in BOOLEAN
      /\ export \in [number : Numbers, bank : Banks,
                     rows : Seq([date : Nat, what : Whats])]
  BY LedgerAssumption DEF MInv, MData, LedgerAssumption
<1>2. /\ importing' = under
      /\ UNCHANGED <<file, phase, cursor, merging>>
      /\ \/ UNCHANGED <<mem, journal, lived, dirty, exact>>
         \/ /\ Log(row, m) /\ dirty' = TRUE
            /\ exact' = (exact /\ typed = export.bank)
  BY DEF StartImport
<1>3. id \in Nat
  BY <1>1, AccountIdFacts
<1> HIDE DEF id
<1>4. row \in Row
  BY <1>1, <1>3 DEF Row
<1>5. m \in Memory /\ Placed(m)
  BY <1>1, AddAccountMemory
<1>6. under \in Importer
  BY <1>1, <1>3 DEF Importer
<1>7. dirty' \in BOOLEAN /\ exact' \in BOOLEAN
  BY <1>1, <1>2
<1> HIDE DEF row, m, under
<1>8. MData'
  <2>1. CASE Log(row, m)
    BY <2>1, <1>2, <1>4, <1>5, <1>7, LoggedData DEF MInv
  <2>2. CASE UNCHANGED <<mem, journal, lived, dirty, exact>>
    <3>1. mem' \in Memory /\ Placed(mem')
      BY <1>1, <2>2
    <3> QED
      BY <2>2, <3>1, <1>2, <1>7, QuietData DEF MInv
  <2> QED
    BY <1>2, <2>1, <2>2
<1>9. MUnder'
  BY <1>2, <1>6 DEF MInv, MUnder
<1> QED
  BY <1>8, <1>9 DEF MInv

(* The rest of an import that has rows left.                               *)
LEMMA TodoFacts ==
  ASSUME importing \in Importer, importing.todo # <<>>
  PROVE  /\ importing.todo[1] \in [date : Nat, what : Whats]
         /\ [importing EXCEPT !.todo = Tail(@)] \in Importer
<1>1. importing.todo \in Seq([date : Nat, what : Whats])
  BY DEF Importer
<1>2. Tail(importing.todo) \in Seq([date : Nat, what : Whats])
  BY <1>1, HeadTailProperties
<1>3. importing.todo[1] \in [date : Nat, what : Whats]
  <2>1. Len(importing.todo) \in Nat /\ Len(importing.todo) # 0
    BY <1>1, IsSeqOf, EmptyLen, LenProperties
  <2>2. 1 \in DOMAIN importing.todo
    BY <1>1, <2>1, LenProperties
  <2> QED
    BY <1>1, <2>2, SeqAt
<1> QED
  BY <1>2, <1>3 DEF Importer

LEMMA PrepareImportKeepsM ==
  ASSUME IInv, MInv, PrepareImport
  PROVE  MInv'
<1> DEFINE a == importing.account
           kept == KeptByImport(TxnsOf(mem, a), importing.todo[1].date)
<1>1. /\ phase = "open" /\ importing.on /\ importing.todo # <<>>
      /\ UNCHANGED <<dirty, file, journal, phase, cursor, merging, lived>>
  BY DEF PrepareImport
<1>2. \/ /\ importing' = [importing EXCEPT !.started = TRUE]
         /\ mem' = WithTxns(mem, a, kept)
         /\ exact' = (exact /\ mem' = mem)
      \/ /\ importing' = [importing EXCEPT !.todo = Tail(@)]
         /\ UNCHANGED <<mem, exact>>
  BY DEF PrepareImport
<1>3. /\ mem \in Memory /\ Placed(mem) /\ importing \in Importer
      /\ dirty \in BOOLEAN /\ exact \in BOOLEAN
  BY <1>1 DEF MInv, MData, MUnder
<1>4. a \in Nat /\ HasAccount(mem, a)
  BY <1>1, <1>3 DEF IInv, Underway, Importer
<1> HIDE DEF a
<1>5. TxnsOf(mem, a) \in Seq(Transaction)
  BY <1>3, <1>4, TxnsFacts
<1>6. kept \in Seq(Transaction)
  BY <1>5, KeptFacts
<1> HIDE DEF kept
<1>7. WithTxns(mem, a, kept) \in Memory /\ Placed(WithTxns(mem, a, kept))
  BY <1>3, <1>4, <1>6, WithTxnsMemory
<1>8. mem' \in Memory /\ Placed(mem') /\ dirty' \in BOOLEAN /\ exact' \in BOOLEAN
  <2>1. mem' = WithTxns(mem, a, kept) \/ mem' = mem
    BY <1>2
  <2>2. exact' \in BOOLEAN
    BY <1>2, <1>3
  <2> QED
    BY <1>1, <1>3, <1>7, <2>1, <2>2
<1>9. MData'
  BY <1>1, <1>8, QuietData DEF MInv
<1>10. importing' \in Importer
  <2>1. [importing EXCEPT !.started = TRUE] \in Importer
    BY <1>3 DEF Importer
  <2> QED
    BY <1>1, <1>2, <1>3, <2>1, TodoFacts
<1> QED
  BY <1>1, <1>9, <1>10 DEF MInv, MUnder

LEMMA ImportRowKeepsM ==
  ASSUME IInv, MInv, NEW ids \in [Topics -> Nat], NEW note \in Notes,
         ImportRow(ids, note)
  PROVE  MInv'
<1> DEFINE raw == importing.todo[1]
           a == importing.account
           txn == [date |-> raw.date, what |-> raw.what, ids |-> ids,
                   note |-> note]
           row == [op |-> "TRANSACTION", account |-> a, txn |-> txn]
           m == AddTransaction(mem, a, txn)
<1>1. /\ phase = "open" /\ importing.on /\ importing.todo # <<>>
      /\ Log(row, m) /\ dirty' = TRUE
      /\ importing' = [importing EXCEPT !.todo = Tail(@)]
      /\ UNCHANGED <<file, phase, cursor, merging, exact>>
  BY DEF ImportRow
<1>2. /\ mem \in Memory /\ Placed(mem) /\ importing \in Importer
      /\ exact \in BOOLEAN
  BY <1>1 DEF MInv, MData, MUnder
<1>3. a \in Nat /\ HasAccount(mem, a)
  BY <1>1, <1>2 DEF IInv, Underway, Importer
<1>4. raw \in [date : Nat, what : Whats] /\ importing' \in Importer
  BY <1>1, <1>2, TodoFacts
<1> HIDE DEF a, raw
<1>5. txn \in Transaction
  BY <1>4 DEF Transaction
<1> HIDE DEF txn
<1>6. row \in Row
  BY <1>3, <1>5 DEF Row
<1>7. m \in Memory /\ Placed(m)
  BY <1>2, <1>3, <1>5, AddTransactionMemory
<1>8. dirty' \in BOOLEAN /\ exact' \in BOOLEAN
  BY <1>1, <1>2
<1> HIDE DEF row, m
<1>9. MData'
  BY <1>1, <1>6, <1>7, <1>8, LoggedData DEF MInv
<1> QED
  BY <1>1, <1>4, <1>9 DEF MInv, MUnder

LEMMA NoImportIsImporter == NoImport \in Importer
<1>1. <<>> \in Seq([date : Nat, what : Whats])
  OBVIOUS
<1> QED
  BY <1>1 DEF NoImport, Importer

LEMMA EndImportKeepsM ==
  ASSUME MInv, EndImport
  PROVE  MInv'
<1>1. MData'
  BY DEF EndImport, MInv, MData, Placed
<1>2. MUnder'
  BY NoImportIsImporter DEF EndImport, MInv, MUnder
<1> QED
  BY <1>1, <1>2 DEF MInv

(* Load(): the file is loaded, with the journal that is on disk.           *)
LEMMA LoadKeepsM ==
  ASSUME MInv, NEW j, j = journal \/ j = NoJournal, cursor = 0, LoadWith(j)
  PROVE  MInv'
<1>1. <<>> \in Seq(Row) /\ Len(<<>>) = 0 /\ <<>> \in Seq(Memory)
  OBVIOUS
<1>2. /\ j \in [base : Memory \cup {NoFile}, rows : Seq(Row)]
      /\ 0 \in 0 .. Len(j.rows)
  <2>1. j \in [base : Memory \cup {NoFile}, rows : Seq(Row)]
    <3>1. CASE j = journal
      BY <3>1 DEF MInv, MData
    <3>2. CASE j = NoJournal
      BY <1>1, <3>2 DEF NoJournal
    <3> QED
      BY <3>1, <3>2
  <2>2. Len(j.rows) \in Nat
    BY <2>1, LenProperties
  <2> QED
    BY <2>1, <2>2
<1>3. /\ cursor' = 0 /\ merging' = NoMerge /\ importing' = NoImport
      /\ file' = file /\ dirty' = FALSE
  BY DEF LoadWith
<1>4. MUnder'
  BY <1>3, NoImportIsImporter DEF MUnder
<1>5. file # NoFile => /\ file \in Memory /\ Placed(Loaded(file))
                       /\ Loaded(file) \in Memory
  BY LoadedMemory DEF MInv, MData
<1>6. MData'
  <2>1. CASE file = NoFile
    <3>1. /\ mem' = EmptyMemory /\ phase' = "open" /\ journal' = j
          /\ lived' = <<>> /\ exact' = FALSE
      BY <2>1 DEF LoadWith
    <3>2. mem' \in Memory /\ Placed(mem')
      BY <3>1, EmptyMemoryFacts
    <3> QED
      BY <1>1, <1>2, <1>3, <2>1, <3>1, <3>2 DEF MData
  <2>2. CASE file # NoFile /\ j.base = file /\ j.rows # <<>>
    <3>1. /\ mem' = Loaded(file) /\ phase' = "offer" /\ journal' = j
          /\ UNCHANGED <<lived, exact>>
      BY <2>2 DEF LoadWith
    <3>2. mem' \in Memory /\ Placed(mem') /\ Placed(Loaded(file'))
      BY <1>3, <1>5, <2>2, <3>1
    <3> QED
      BY <1>2, <1>3, <1>5, <2>2, <3>1, <3>2 DEF MInv, MData
  <2>3. CASE file # NoFile /\ ~(j.base = file /\ j.rows # <<>>)
    <3>1. /\ mem' = Loaded(file) /\ phase' = "open"
          /\ journal' = [base |-> file, rows |-> <<>>]
          /\ lived' = <<Loaded(file)>> /\ exact' = TRUE
      BY <2>3 DEF LoadWith
    <3>2. mem' \in Memory /\ Placed(mem') /\ Placed(Loaded(file'))
      BY <1>3, <1>5, <2>3, <3>1
    <3>3. /\ journal' \in [base : Memory \cup {NoFile}, rows : Seq(Row)]
          /\ cursor' \in 0 .. Len(journal'.rows)
      BY <1>1, <1>3, <1>5, <2>3, <3>1
    <3>4. lived' \in Seq(Memory)
      BY <1>5, <2>3, <3>1
    <3> QED
      BY <1>3, <1>5, <2>3, <3>1, <3>2, <3>3, <3>4 DEF MData
  <2> QED
    BY <2>1, <2>2, <2>3
<1> QED
  BY <1>4, <1>6 DEF MInv

LEMMA AnswerKeepsM ==
  ASSUME MInv, Decline \/ Accept
  PROVE  MInv'
<1>1. MData'
  BY DEF Decline, Accept, MInv, MData, Placed
<1>2. MUnder'
  BY DEF Decline, Accept, MInv, MUnder
<1> QED
  BY <1>1, <1>2 DEF MInv

(* The row that the replay has come to.                                    *)
LEMMA CursorRow ==
  ASSUME MData, cursor < Len(journal.rows)
  PROVE  /\ journal.rows[cursor + 1] \in Row
         /\ cursor + 1 \in 0 .. Len(journal.rows) /\ 0 \in 0 .. Len(journal.rows)
<1>1. journal.rows \in Seq(Row) /\ cursor \in 0 .. Len(journal.rows)
  BY DEF MData
<1>2. Len(journal.rows) \in Nat /\ cursor \in Nat
  BY <1>1, LenProperties
<1>3. cursor + 1 \in DOMAIN journal.rows /\ journal.rows[cursor + 1] \in Row
  BY <1>1, <1>2, SeqAt
<1> QED
  BY <1>2, <1>3

LEMMA ReplayRowKeepsM ==
  ASSUME MInv, ReplayRow
  PROVE  MInv'
<1> DEFINE row == journal.rows[cursor + 1]
<1>1. /\ phase = "replaying" /\ cursor < Len(journal.rows) /\ Applies(mem, row)
      /\ mem' = Applied(mem, row) /\ cursor' = cursor + 1
      /\ UNCHANGED <<file, journal, phase, merging, importing, lived, exact>>
  BY DEF ReplayRow
<1>2. dirty' \in BOOLEAN
  <2>1. dirty' = (dirty \/ row.op = "MERGE"
                   \/ /\ row.op \in {"CREATE", "KEYWORD", "RENAME"}
                      /\ mem' # mem)
    BY DEF ReplayRow
  <2> QED
    BY <2>1 DEF MInv, MData
<1>3. row \in Row /\ cursor' \in 0 .. Len(journal.rows)
  BY <1>1, CursorRow DEF MInv
<1>4. mem \in Memory /\ Placed(mem)
  BY <1>1 DEF MInv, MData
<1> HIDE DEF row
<1>5. mem' \in Memory /\ Placed(mem')
  BY <1>1, <1>3, <1>4, AppliedMemory
<1>6. MData'
  BY <1>1, <1>2, <1>3, <1>5 DEF MInv, MData
<1> QED
  BY <1>1, <1>6, SameUnder DEF MInv

LEMMA ReplayStopsKeepsM ==
  ASSUME MInv, ReplayStops
  PROVE  MInv'
<1> DEFINE row == journal.rows[cursor + 1]
<1>1. /\ phase = "replaying" /\ cursor < Len(journal.rows)
      /\ cursor' = 0 /\ exact' = FALSE
      /\ UNCHANGED <<file, journal, merging, importing, lived>>
      /\ \/ phase' = "closed" /\ mem' = NoMem /\ dirty' = FALSE
         \/ /\ phase' = "open"
            /\ mem' = IF row.op \in {"CREATE", "ACCOUNT"}
                        THEN Applied(mem, row) ELSE mem
            /\ dirty' = (dirty \/ (row.op = "CREATE" /\ mem' # mem))
  BY DEF ReplayStops
<1>2. row \in Row /\ cursor' \in 0 .. Len(journal.rows)
  BY <1>1, CursorRow DEF MInv
<1>3. mem \in Memory /\ Placed(mem) /\ dirty \in BOOLEAN
  BY <1>1 DEF MInv, MData
<1> HIDE DEF row
<1>4. phase' # "closed" => mem' \in Memory /\ Placed(mem')
  BY <1>1, <1>2, <1>3, AppliedMemory
<1>5. dirty' \in BOOLEAN
  BY <1>1, <1>3
<1>6. MData'
  BY <1>1, <1>2, <1>4, <1>5 DEF MInv, MData
<1> QED
  BY <1>1, <1>6, SameUnder DEF MInv

LEMMA ReplayDoneKeepsM ==
  ASSUME MInv, ReplayDone
  PROVE  MInv'
<1>1. /\ phase = "replaying" /\ cursor' = 0
      /\ UNCHANGED <<file, journal, merging, importing, lived>>
      /\ \/ phase' = "open" /\ UNCHANGED <<mem, exact>>
         \/ phase' = "closed" /\ mem' = NoMem /\ exact' = FALSE
  BY DEF ReplayDone
<1>2. dirty' \in BOOLEAN
  <2>1. dirty' = (dirty \/ \E k \in DOMAIN journal.rows :
                              journal.rows[k].op # "RENAME")
          \/ dirty' = FALSE
    BY DEF ReplayDone
  <2> QED
    BY <2>1 DEF MInv, MData
<1>3. cursor' \in 0 .. Len(journal.rows)
  <2>1. Len(journal.rows) \in Nat
    BY LenProperties DEF MInv, MData
  <2> QED
    BY <1>1, <2>1
<1>4. MData'
  BY <1>1, <1>2, <1>3 DEF MInv, MData, Placed
<1> QED
  BY <1>1, <1>4, SameUnder DEF MInv

LEMMA SaveKeepsM ==
  ASSUME MInv, phase = "open", cursor = 0, Save
  PROVE  MInv'
<1>1. /\ file' = Stored(mem) /\ journal' = [base |-> file', rows |-> <<>>]
      /\ dirty' = FALSE /\ lived' = <<mem>> /\ exact' = RoundTrip(mem)
      /\ UNCHANGED <<mem, phase, cursor, merging, importing>>
  BY DEF Save
<1>2. mem \in Memory /\ Placed(mem)
  BY DEF MInv, MData
<1>3. file' \in Memory /\ Placed(Loaded(file'))
  BY <1>1, <1>2, StoredMemory
<1>4. <<>> \in Seq(Row) /\ Len(<<>>) = 0
  OBVIOUS
<1>5. /\ journal' \in [base : Memory \cup {NoFile}, rows : Seq(Row)]
      /\ cursor' \in 0 .. Len(journal'.rows)
  BY <1>1, <1>3, <1>4
<1>6. lived' \in Seq(Memory) /\ exact' \in BOOLEAN
  BY <1>1, <1>2 DEF RoundTrip
<1>7. MData'
  BY <1>1, <1>2, <1>3, <1>5, <1>6 DEF MData
<1> QED
  BY <1>1, <1>7, SameUnder DEF MInv

LEMMA ExitKeepsM ==
  ASSUME MInv, phase = "open", cursor = 0, NEW save \in BOOLEAN, Exit(save)
  PROVE  MInv'
<1>1. /\ file' = Stored(mem) \/ file' = file
      /\ journal' = NoJournal /\ mem' = NoMem /\ dirty' = FALSE
      /\ phase' = "closed" /\ lived' = <<>> /\ exact' = TRUE
      /\ UNCHANGED <<cursor, merging, importing>>
  BY DEF Exit
<1>2. mem \in Memory /\ Placed(mem)
  BY DEF MInv, MData
<1>3. file' # NoFile => file' \in Memory /\ Placed(Loaded(file'))
  BY <1>1, <1>2, StoredMemory DEF MInv, MData
<1>4. <<>> \in Seq(Row) /\ Len(<<>>) = 0 /\ <<>> \in Seq(Memory)
  OBVIOUS
<1>5. /\ journal' \in [base : Memory \cup {NoFile}, rows : Seq(Row)]
      /\ cursor' \in 0 .. Len(journal'.rows)
  BY <1>1, <1>4 DEF NoJournal
<1>6. MData'
  BY <1>1, <1>3, <1>4, <1>5 DEF MData
<1> QED
  BY <1>1, <1>6, SameUnder DEF MInv

LEMMA CrashKeepsM ==
  ASSUME MInv, Crash
  PROVE  MInv'
<1>1. /\ mem' = NoMem /\ phase' = "closed" /\ merging' = NoMerge
      /\ importing' = NoImport /\ dirty' = FALSE /\ cursor' = 0
      /\ UNCHANGED <<file, journal, lived, exact>>
  BY DEF Crash
<1>2. cursor' \in 0 .. Len(journal.rows)
  <2>1. Len(journal.rows) \in Nat
    BY LenProperties DEF MInv, MData
  <2> QED
    BY <1>1, <2>1
<1>3. MData'
  BY <1>1, <1>2 DEF MInv, MData
<1>4. MUnder'
  BY <1>1, NoImportIsImporter DEF MUnder
<1> QED
  BY <1>3, <1>4 DEF MInv

(* Every step keeps both invariants.                                       *)
LEMMA NextMInv == IInv /\ MInv /\ [Next]_vars => MInv'
<1> SUFFICES ASSUME IInv, MInv, [Next]_vars PROVE MInv'
  OBVIOUS
<1>0. phase = "open" \/ phase = "closed" => cursor = 0
  BY DEF IInv, Types
<1>m. phase = "open" => mem \in Memory
  BY DEF MInv, MData
<1>1. CASE phase = "open" /\ OnChildren
  <2>1. PICK t \in Topics :
          \/ \E n \in Names : Create_(t, n)
          \/ \E id \in Ids(mem.children[t]) :
               \/ \E w \in Words, d \in BOOLEAN : Keyword(t, id, w, d)
               \/ \E n \in Names : Rename_(t, id, n)
               \/ \E others \in SUBSET Ids(mem.children[t]) :
                    StartMerge(t, others, id)
    BY <1>1 DEF OnChildren
  <2>2. Ids(mem.children[t]) \subseteq Nat
    BY <1>1, <1>m, IdsAreNumbers
  <2> QED
    BY <1>1, <2>1, <2>2, CreateKeepsM, KeywordKeepsM, RenameKeepsM,
       StartMergeKeepsM
<1>2. CASE phase = "open" /\ OnAccounts
  <2>1. PICK a \in DOMAIN mem.accounts :
          \/ \E n \in Names : Rename_("ACCOUNT", a - 1, n)
          \/ \E c \in 1 .. MaxTxns : Prune_(a - 1, c)
          \/ \E p \in Positions(mem.accounts[a].txns) :
               \/ \E t \in Topics : \E id \in Ids(mem.children[t]) :
                    Edit(a - 1, p, t, id)
               \/ \E note \in Notes : Edit(a - 1, p, "MEMO", note)
               \/ /\ {"CLIENT", "CATEGORY"} \subseteq Topics
                  /\ \E client \in Ids(mem.children["CLIENT"]),
                        category \in Ids(mem.children["CATEGORY"]),
                        note \in Notes, found \in BOOLEAN :
                       Categorize(a - 1, p, client, category, note, found)
    BY <1>2 DEF OnAccounts
  <2>2. CASE \E n \in Names : Rename_("ACCOUNT", a - 1, n)
    <3>1. a - 1 \in Nat
      BY <1>2, <1>m, PlacesAreNumbers
    <3> QED
      BY <1>2, <2>2, <3>1, RenameKeepsM
  <2>3. CASE \E c \in 1 .. MaxTxns : Prune_(a - 1, c)
    <3>1. \A c \in 1 .. MaxTxns : c \in Nat
      BY LedgerAssumption DEF LedgerAssumption
    <3> QED
      BY <1>2, <2>3, <3>1, PruneKeepsM
  <2>4. ASSUME NEW p \in Positions(mem.accounts[a].txns), NEW t \in Topics,
               NEW id \in Ids(mem.children[t]), Edit(a - 1, p, t, id)
        PROVE  MInv'
    <3>1. FieldValue(t, id)
      BY <1>2, <1>m, IdsAreNumbers DEF FieldValue
    <3> QED
      BY <1>2, <2>4, <3>1, EditKeepsM
  <2>5. ASSUME NEW p \in Positions(mem.accounts[a].txns), NEW note \in Notes,
               Edit(a - 1, p, "MEMO", note)
        PROVE  MInv'
    <3>1. FieldValue("MEMO", note)
      BY DEF FieldValue
    <3> QED
      BY <1>2, <2>5, <3>1, EditKeepsM
  <2>6. ASSUME NEW p \in Positions(mem.accounts[a].txns),
               {"CLIENT", "CATEGORY"} \subseteq Topics,
               NEW client \in Ids(mem.children["CLIENT"]),
               NEW category \in Ids(mem.children["CATEGORY"]),
               NEW note \in Notes, NEW found \in BOOLEAN,
               Categorize(a - 1, p, client, category, note, found)
        PROVE  MInv'
    <3>1. client \in Nat /\ category \in Nat
      BY <1>2, <1>m, <2>6, IdsAreNumbers
    <3> QED
      BY <1>2, <2>6, <3>1, CategorizeKeepsM
  <2> QED
    BY <2>1, <2>2, <2>3, <2>4, <2>5, <2>6
<1>3. CASE phase = "open" /\ OnImport
  <2>1. CASE \E export \in Exports, n \in Names, b \in Banks :
               StartImport(export, n, b)
    BY <1>3, <2>1, StartImportKeepsM
  <2>2. ASSUME NEW ids \in [Topics -> UNION {Ids(mem.children[t]) : t \in Topics}],
               NEW note \in Notes,
               \A t \in Topics : ids[t] \in Ids(mem.children[t]),
               ImportRow(ids, note)
        PROVE  MInv'
    <3>1. ids \in [Topics -> Nat]
      BY <1>3, <1>m, <2>2, IdsAreNumbers
    <3> QED
      BY <2>2, <3>1, ImportRowKeepsM
  <2>3. CASE PrepareImport
    BY <2>3, PrepareImportKeepsM
  <2>4. CASE EndImport
    BY <2>4, EndImportKeepsM
  <2> QED
    BY <1>3, <2>1, <2>2, <2>3, <2>4 DEF OnImport
<1>4. CASE MergeNext \/ MergeEnd
  BY <1>4, MergeNextKeepsM, MergeEndKeepsM
<1>5. CASE phase = "open" /\ (Save \/ \E save \in BOOLEAN : Exit(save))
  BY <1>0, <1>5, SaveKeepsM, ExitKeepsM
<1>6. CASE Start
  BY <1>0, <1>6, LoadKeepsM DEF Start
<1>7. CASE Discard
  BY <1>0, <1>7, LoadKeepsM DEF Discard, Idle
<1>8. CASE Accept \/ Decline
  BY <1>8, AnswerKeepsM
<1>9. CASE ReplayRow \/ ReplayStops \/ ReplayDone \/ Crash
  BY <1>9, ReplayRowKeepsM, ReplayStopsKeepsM, ReplayDoneKeepsM, CrashKeepsM
<1>10. CASE UNCHANGED vars
  <2>1. MData'
    BY <1>10 DEF vars, MInv, MData, Placed
  <2>2. MUnder'
    BY <1>10 DEF vars, MInv, MUnder
  <2> QED
    BY <2>1, <2>2 DEF MInv
<1> QED
  BY <1>1, <1>2, <1>3, <1>4, <1>5, <1>6, <1>7, <1>8, <1>9, <1>10
     DEF Next, Running

(* For every database, every set of names and exports and every sequence   *)
(* of operations, crashes and recoveries, the invariant holds.             *)
THEOREM MemoryInvariantHolds == Spec => []MInv
<1>1. IInv /\ MInv /\ [Next]_vars => MInv'
  BY NextMInv
<1> QED
  BY <1>1, InitMInv, InvariantHolds, PTL DEF Spec

(* Every operation of AccountManager, every row ApplyRecoveryFile() applies*)
(* and every load leaves values of the declared types: an id is never less *)
(* than zero after a merge has healed it, and no import, prune or sort     *)
(* leaves an account with a gap.                                           *)
THEOREM MemoryIsTyped == Spec => []TypeOK
<1>1. MInv => TypeOK
  <2>1. ASSUME merging \in Merger PROVE merging.topic \in Topics
    BY <2>1 DEF Merger
  <2>2. ASSUME importing \in Importer PROVE importing.on \in BOOLEAN
    BY <2>2 DEF Importer
  <2> QED
    BY <2>1, <2>2 DEF MInv, MData, MUnder, TypeOK
<1> QED
  BY <1>1, MemoryInvariantHolds, PTL

(* The id stored in a child is its place, after any number of merges,      *)
(* saves, loads and replays: Merge() heals every id that moves, and        *)
(* StreamOut() leaves out the child that StreamIn() puts back.             *)
THEOREM IdsStayInPlace == Spec => []IdsInPlace
<1>1. MInv => IdsInPlace
  BY DEF MInv, MData, Placed, Sound, IdsInPlace
<1> QED
  BY <1>1, MemoryInvariantHolds, PTL

-----------------------------------------------------------------------------
(* A memory whose built-in children are untouched and whose accounts are   *)
(* in the order of their dates survives being saved and loaded.            *)
LEMMA RoundTripFacts ==
  ASSUME NEW m \in Memory, Placed(m),
         \A t \in Defaulted : m.children[t][1] = DefaultChild,
         \A a \in DOMAIN m.accounts : Sort(m.accounts[a].txns)
                                        = m.accounts[a].txns
  PROVE  RoundTrip(m)
<1>1. \A t \in Topics :
        StreamIn(StreamOut(m.children[t], t \in Defaulted), t \in Defaulted)
          = m.children[t]
  <2> SUFFICES ASSUME NEW t \in Topics, NEW d, d = (t \in Defaulted)
               PROVE  StreamIn(StreamOut(m.children[t], d), d) = m.children[t]
    OBVIOUS
  <2>1. d \in BOOLEAN /\ m.children[t] \in Seq(Child)
    BY MemoryParts
  <2>2. InPlace(m.children[t])
    BY DEF Placed, Sound
  <2>3. d => m.children[t] # <<>> /\ m.children[t][1] = DefaultChild
    BY DEF Placed, Sound
  <2> QED
    BY <2>1, <2>2, <2>3, StreamFacts
<1>2. \A a \in DOMAIN m.accounts :
        [m.accounts[a] EXCEPT !.txns = Sort(@)] = m.accounts[a]
  <2> SUFFICES ASSUME NEW a \in DOMAIN m.accounts
               PROVE  [m.accounts[a] EXCEPT !.txns = Sort(@)] = m.accounts[a]
    OBVIOUS
  <2>1. m.accounts[a] \in Account
    BY MemoryParts, SeqAt
  <2>2. Sort(m.accounts[a].txns) = m.accounts[a].txns
    OBVIOUS
  <2> QED
    BY <2>1, <2>2 DEF Account
<1>3. /\ Stored(m) = [children |-> [t \in Topics |->
                          StreamOut(m.children[t], t \in Defaulted)],
                      accounts |-> m.accounts]
      /\ m.children \in [Topics -> Seq(Child)]
      /\ m.accounts = [a \in DOMAIN m.accounts |-> m.accounts[a]]
      /\ m = [children |-> m.children, accounts |-> m.accounts]
  <2>1. m.accounts \in Seq(Account)
    BY MemoryParts
  <2> QED
    BY <2>1, MemoryParts, LenProperties DEF Stored
<1> DEFINE n == Loaded(Stored(m))
<1>4. n = [children |-> n.children, accounts |-> n.accounts]
  BY DEF Loaded
<1>5. n.children = m.children
  <2>1. n.children = [t \in Topics |->
          StreamIn(StreamOut(m.children[t], t \in Defaulted), t \in Defaulted)]
    BY <1>3 DEF Loaded
  <2> HIDE DEF n
  <2> QED
    BY <1>1, <1>3, <2>1
<1>6. n.accounts = m.accounts
  <2>1. n.accounts = [a \in DOMAIN m.accounts |->
                        [m.accounts[a] EXCEPT !.txns = Sort(@)]]
    BY <1>3 DEF Loaded
  <2> HIDE DEF n
  <2> QED
    BY <1>2, <1>3, <2>1
<1> HIDE DEF n
<1> QED
  BY <1>3, <1>4, <1>5, <1>6 DEF RoundTrip, n

(* What is saved with untouched built-in children and sorted accounts is   *)
(* loaded as it was (StreamOut() and StreamIn() of ManagerType, Account    *)
(* and AccountManager).                                                    *)
THEOREM SaveLosesNothing == Spec => []SaveKeepsTheRest
<1>1. MInv => SaveKeepsTheRest
  BY RoundTripFacts DEF MInv, MData, SaveKeepsTheRest
<1> QED
  BY <1>1, MemoryInvariantHolds, PTL

(* Replaying the journal of an unbroken chain walks down the chain.        *)
LEMMA ReplayIsChain ==
  ASSUME IInv, MInv, exact, lived # <<>>
  PROVE  Recovered = lived[Len(lived)]
<1> DEFINE rows == journal.rows
           n    == Len(rows)
           next(f) == [k \in 0 .. n |->
                         IF k = 0 THEN Loaded(file)
                         ELSE IF f[k - 1] # NoMem /\ Applies(f[k - 1], rows[k])
                           THEN Applied(f[k - 1], rows[k]) ELSE NoMem]
           after == CHOOSE f : f = next(f)
           chain == [k \in 0 .. n |-> lived[k + 1]]
<1>1. Recovered = after[n]
  BY Zenon DEF Recovered
<1>2. n \in Nat /\ Len(lived) = n + 1 /\ lived[1] = Loaded(file)
  BY SeqFacts DEF IInv, Types, Chain, Chained
<1>3. \A k \in 1 .. n : /\ Applies(lived[k], rows[k])
                        /\ lived[k + 1] = Applied(lived[k], rows[k])
  BY DEF IInv, Chain, Chained
<1>4. \A k \in 1 .. n + 1 : lived[k] # NoMem
  <2>1. \A k \in 1 .. n + 1 : lived[k] \in Memory
    BY <1>2, SeqAt DEF MInv, MData
  <2> QED
    BY <2>1, LedgerAssumption DEF LedgerAssumption
<1>5. next(chain) = chain
  <2>1. ASSUME NEW k \in 0 .. n
        PROVE  next(chain)[k] = chain[k]
    <3>1. CASE k = 0
      BY <1>2, <3>1
    <3>2. CASE k # 0
      <4>1. k \in 1 .. n /\ k - 1 \in 0 .. n /\ k - 1 + 1 = k /\ k \in 1 .. n + 1
        BY <1>2, <3>2
      <4>2. chain[k - 1] = lived[k]
        BY <4>1
      <4>3. chain[k - 1] # NoMem /\ Applies(chain[k - 1], rows[k])
              /\ Applied(chain[k - 1], rows[k]) = lived[k + 1]
        BY <1>3, <1>4, <4>1, <4>2
      <4> HIDE DEF chain
      <4>4. next(chain)[k] = lived[k + 1]
        BY <3>2, <4>3
      <4> QED
        BY <4>4 DEF chain
    <3> QED
      BY <3>1, <3>2
  <2>2. next(chain) = [k \in 0 .. n |-> next(chain)[k]]
    OBVIOUS
  <2> HIDE DEF next
  <2> QED
    BY <2>1, <2>2
<1>6. after = next(after)
  <2> HIDE DEF next, chain
  <2>1. \E f : f = next(f)
    BY <1>5
  <2> QED
    BY <2>1, Zenon
<1>7. \A k \in 0 .. n : after[k] = chain[k]
  <2> DEFINE wrong == {k \in 0 .. n : after[k] # chain[k]}
  <2> SUFFICES ASSUME wrong # {} PROVE FALSE
    OBVIOUS
  <2>1. wrong \subseteq Nat
    OBVIOUS
  <2>2. PICK k \in wrong : \A j \in wrong : k <= j
    <3> HIDE DEF wrong
    <3> QED
      BY <2>1, LeastNatural
  <2> HIDE DEF after, chain
  <2>3. k \in 0 .. n /\ after[k] # chain[k]
    OBVIOUS
  <2>4. after[k] = next(after)[k] /\ chain[k] = next(chain)[k]
    <3> HIDE DEF next
    <3> QED
      BY <1>5, <1>6
  <2>5. CASE k = 0
    BY <2>3, <2>4, <2>5
  <2>6. CASE k # 0
    <3>1. k - 1 \in 0 .. n /\ ~(k <= k - 1)
      BY <1>2, <2>3, <2>6
    <3>2. after[k - 1] = chain[k - 1]
      BY <2>2, <3>1
    <3> QED
      BY <2>3, <2>4, <2>6, <3>2
  <2> QED
    BY <2>5, <2>6
<1> HIDE DEF after
<1>8. after[n] = lived[n + 1]
  <2>1. n \in 0 .. n
    BY <1>2
  <2>2. chain[n] = lived[n + 1]
    BY <2>1
  <2> HIDE DEF chain, n
  <2> QED
    BY <1>7, <2>1, <2>2
<1> QED
  BY <1>1, <1>2, <1>8

(* If the session is killed at any moment, replaying the journal on the    *)
(* file brings back the memory it had, unless something changed the memory *)
(* behind the journal's back (ApplyRecoveryFile() against every Append).   *)
THEOREM RecoveryIsExact == Spec => []RecoveryExact
<1>1. IInv /\ MInv => RecoveryExact
  BY ReplayIsChain DEF RecoveryExact, IInv, Chain, Here
<1> QED
  BY <1>1, InvariantHolds, MemoryInvariantHolds, PTL

-----------------------------------------------------------------------------
(* The invariant behind the question at the exit: a memory that is not     *)
(* marked is the loaded file. While a replay only counts transactions      *)
(* towards the mark it sets at its end, this is so only as long as every   *)
(* row was a name that was refused; and a merge, which heals ids without   *)
(* marking anything, runs under the mark that its first step has set.      *)
Unmarked ==
  /\ phase = "offer" => mem = Loaded(file)
  /\ /\ phase = "replaying" /\ ~dirty
     /\ \A k \in 1 .. cursor : journal.rows[k].op = "RENAME"
     => mem = Loaded(file)
  /\ phase = "open" /\ exact /\ ~dirty => mem = Loaded(file)
  /\ merging # NoMerge => dirty

(* An operation that sets the mark keeps it.                               *)
LEMMA MarkedKeeps ==
  ASSUME Unmarked, phase' = "open", dirty' = TRUE
  PROVE  Unmarked'
  BY DEF Unmarked

(* So does one that leaves the mark and either ends the exact history or   *)
(* changes nothing.                                                        *)
LEMMA UnmarkedKeeps ==
  ASSUME Unmarked, phase = "open", UNCHANGED <<file, phase, dirty, merging>>,
         exact' => exact /\ mem' = mem
  PROVE  Unmarked'
  BY DEF Unmarked

LEMMA MergeNextKeepsMark ==
  ASSUME Unmarked, MergeNext
  PROVE  Unmarked'
<1>1. dirty = TRUE \/ dirty
  BY DEF MergeNext, Unmarked
<1>2. phase' = "open" /\ dirty' = dirty
  BY DEF MergeNext
<1> QED
  BY <1>1, <1>2 DEF Unmarked

LEMMA LoadKeepsMark ==
  ASSUME NEW j, LoadWith(j)
  PROVE  Unmarked'
<1>1. CASE file = NoFile
  BY <1>1 DEF LoadWith, Unmarked
<1>2. CASE file # NoFile
  <2>1. mem' = Loaded(file) /\ file' = file /\ merging' = NoMerge
    BY <1>2 DEF LoadWith
  <2> QED
    BY <2>1 DEF Unmarked
<1> QED
  BY <1>1, <1>2

LEMMA ReplayRowKeepsMark ==
  ASSUME IInv, Unmarked, ReplayRow
  PROVE  Unmarked'
<1> DEFINE row == journal.rows[cursor + 1]
<1>1. /\ phase = "replaying" /\ phase' = "replaying" /\ cursor' = cursor + 1
      /\ UNCHANGED <<file, journal, merging>>
      /\ dirty' = (dirty \/ row.op = "MERGE"
                     \/ /\ row.op \in {"CREATE", "KEYWORD", "RENAME"}
                        /\ mem' # mem)
  BY DEF ReplayRow
<1>2. cursor \in Nat /\ merging = NoMerge
  BY <1>1 DEF IInv, Types, Underway
<1>3. ASSUME ~dirty', \A k \in 1 .. cursor + 1 : journal.rows[k].op = "RENAME"
      PROVE  mem' = Loaded(file)
  <2>1. \A k \in 1 .. cursor : k \in 1 .. cursor + 1
    BY <1>2
  <2>2. cursor + 1 \in 1 .. cursor + 1
    BY <1>2
  <2>3. row.op = "RENAME"
    BY <1>3, <2>2
  <2>4. mem' = mem /\ ~dirty
    BY <1>1, <1>3, <2>3
  <2> QED
    BY <1>1, <1>3, <2>1, <2>4 DEF Unmarked
<1> QED
  BY <1>1, <1>2, <1>3 DEF Unmarked

LEMMA ReplayDoneKeepsMark ==
  ASSUME IInv, Unmarked, ReplayDone
  PROVE  Unmarked'
<1>1. /\ phase = "replaying" /\ cursor = Len(journal.rows)
      /\ UNCHANGED <<file, journal, merging>>
      /\ \/ /\ phase' = "open" /\ mem' = mem
            /\ dirty' = (dirty \/ \E k \in DOMAIN journal.rows :
                                    journal.rows[k].op # "RENAME")
         \/ phase' = "closed"
  BY DEF ReplayDone
<1>2. merging = NoMerge /\ DOMAIN journal.rows = 1 .. Len(journal.rows)
  BY <1>1, SeqFacts DEF IInv, Types, Underway
<1>3. ASSUME phase' = "open", ~dirty' PROVE mem' = Loaded(file)
  BY <1>1, <1>2, <1>3 DEF Unmarked
<1> QED
  BY <1>1, <1>2, <1>3 DEF Unmarked

(* Every step keeps it.                                                    *)
LEMMA NextUnmarked == IInv /\ Unmarked /\ [Next]_vars => Unmarked'
<1> SUFFICES ASSUME IInv, Unmarked, [Next]_vars PROVE Unmarked'
  OBVIOUS
<1>0. merging # NoMerge => phase = "open"
  BY DEF IInv, Underway
<1>1. CASE phase = "open" /\ OnChildren
  <2>1. PICK t \in Topics :
          \/ \E n \in Names : Create_(t, n)
          \/ \E id \in Ids(mem.children[t]) :
               \/ \E w \in Words, d \in BOOLEAN : Keyword(t, id, w, d)
               \/ \E n \in Names : Rename_(t, id, n)
               \/ \E others \in SUBSET Ids(mem.children[t]) :
                    StartMerge(t, others, id)
    BY <1>1 DEF OnChildren
  <2>2. phase' = "open" /\ dirty' = TRUE
    BY <1>1, <2>1 DEF Create_, Keyword, Rename_, StartMerge
  <2> QED
    BY <2>2, MarkedKeeps
<1>2. CASE phase = "open" /\ OnAccounts
  <2>1. PICK a \in DOMAIN mem.accounts :
          \/ \E n \in Names : Rename_("ACCOUNT", a - 1, n)
          \/ \E c \in 1 .. MaxTxns : Prune_(a - 1, c)
          \/ \E p \in Positions(mem.accounts[a].txns) :
               \/ \E t \in Topics : \E id \in Ids(mem.children[t]) :
                    Edit(a - 1, p, t, id)
               \/ \E note \in Notes : Edit(a - 1, p, "MEMO", note)
               \/ \E client \in Ids(mem.children["CLIENT"]),
                     category \in Ids(mem.children["CATEGORY"]),
                     note \in Notes, found \in BOOLEAN :
                    Categorize(a - 1, p, client, category, note, found)
    BY <1>2 DEF OnAccounts
  <2>2. \/ phase' = "open" /\ dirty' = TRUE
        \/ \E p, client, category, note, found :
             Categorize(a - 1, p, client, category, note, found)
    BY <1>2, <2>1 DEF Rename_, Prune_, Edit
  <2>3. ASSUME NEW p, NEW client, NEW category, NEW note, NEW found,
               Categorize(a - 1, p, client, category, note, found)
        PROVE  Unmarked'
    <3>1. /\ UNCHANGED <<file, phase, merging>>
          /\ \/ dirty' = TRUE
             \/ dirty' = dirty /\ (exact' => exact /\ mem' = mem)
      BY <2>3 DEF Categorize
    <3> QED
      BY <1>2, <3>1, MarkedKeeps, UnmarkedKeeps
  <2> QED
    BY <2>2, <2>3, MarkedKeeps
<1>3. CASE phase = "open" /\ OnImport
  <2>1. CASE \E export \in Exports, n \in Names, b \in Banks :
               StartImport(export, n, b)
    <3>1. /\ UNCHANGED <<file, phase, merging>>
          /\ dirty' = TRUE \/ UNCHANGED <<mem, dirty, exact>>
      BY <2>1 DEF StartImport
    <3>2. CASE dirty' = TRUE
      BY <1>3, <3>1, <3>2, MarkedKeeps
    <3>3. CASE UNCHANGED <<mem, dirty, exact>>
      <4>1. exact' => exact /\ mem' = mem
        BY <3>3
      <4> QED
        BY <1>3, <3>1, <3>3, <4>1, UnmarkedKeeps
    <3> QED
      BY <3>1, <3>2, <3>3
  <2>2. CASE \E ids, note : ImportRow(ids, note)
    BY <1>3, <2>2, MarkedKeeps DEF ImportRow
  <2>3. CASE PrepareImport
    <3>1. /\ UNCHANGED <<file, phase, dirty, merging>>
          /\ exact' => exact /\ mem' = mem
      BY <2>3 DEF PrepareImport
    <3> QED
      BY <1>3, <3>1, UnmarkedKeeps
  <2>4. CASE EndImport
    BY <1>3, <2>4, UnmarkedKeeps DEF EndImport
  <2> QED
    BY <1>3, <2>1, <2>2, <2>3, <2>4 DEF OnImport
<1>4. CASE MergeNext
  BY <1>4, MergeNextKeepsMark
<1>5. CASE MergeEnd
  BY <1>5 DEF MergeEnd, Unmarked
<1>6. CASE Save
  <2>1. /\ phase' = "open" /\ file' = Stored(mem) /\ mem' = mem
        /\ exact' = RoundTrip(mem) /\ merging' = NoMerge
    BY <1>6 DEF Save, Idle
  <2> QED
    BY <2>1 DEF Unmarked, RoundTrip
<1>7. CASE \E save \in BOOLEAN : Exit(save)
  BY <1>7 DEF Exit, Idle, Unmarked
<1>8. CASE Start \/ Discard
  BY <1>8, LoadKeepsMark DEF Start, Discard
<1>9. CASE Accept \/ Decline
  BY <1>0, <1>9 DEF Accept, Decline, Unmarked
<1>10. CASE ReplayRow \/ ReplayDone
  BY <1>10, ReplayRowKeepsMark, ReplayDoneKeepsMark
<1>11. CASE ReplayStops
  BY <1>0, <1>11 DEF ReplayStops, Unmarked
<1>12. CASE Crash
  BY <1>12 DEF Crash, Unmarked
<1>13. CASE UNCHANGED vars
  BY <1>13 DEF vars, Unmarked
<1> QED
  BY <1>1, <1>2, <1>3, <1>4, <1>5, <1>6, <1>7, <1>8, <1>9, <1>10, <1>11, <1>12,
     <1>13 DEF Next, Running

(* A memory that is not marked dirty is the one that the file loads as, so *)
(* the question "save before exit?" is asked whenever a journaled change   *)
(* would be lost (BankAccountFile::Modified()): after any mixture of       *)
(* edits, merges, imports, recoveries, crashes and saves.                  *)
THEOREM CleanIsSaved == Spec => []CleanMeansSaved
<1>1. Init => Unmarked
  BY DEF Init, Unmarked
<1>2. IInv /\ Unmarked /\ [Next]_vars => Unmarked'
  BY NextUnmarked
<1>3. Unmarked => CleanMeansSaved
  BY DEF Unmarked, CleanMeansSaved, Idle
<1> QED
  BY <1>1, <1>2, <1>3, InvariantHolds, PTL DEF Spec

-----------------------------------------------------------------------------
(* No two children of the same name; and where there is a built-in child,  *)
(* only the first child may have its name, because loading puts it back    *)
(* there whatever became of it.                                            *)
Unique(c) ==
  \A i, j \in DOMAIN c : CheckName(c[i], c[j].name) => i = j

BuiltInFirst(t, c) ==
  t \in Defaulted =>
    \A i \in DOMAIN c : CheckName(c[i], DefaultName) => i = 1

Distinct(t, c) == Unique(c) /\ BuiltInFirst(t, c)

Named(m) == \A t \in Topics : Distinct(t, m.children[t])

(* No name that a user gives is the built-in child's, in whatever case.    *)
BuiltInSpared == \A n \in Names : FoldCase[n] # FoldCase[DefaultName]

(* The smallest of a set of places is one of them.                         *)
LEMMA SomeIsFirst ==
  ASSUME NEW S, S \subseteq Nat, S # {}
  PROVE  {i \in S : \A k \in S : i <= k} # {}
  BY LeastNatural

(* A name that no child has been found for is no child's ...               *)
LEMMA UnknownName ==
  ASSUME NEW c \in Seq(Child), NEW n, SearchIdsHighConfidence(c, n) = {}
  PROVE  \A i \in DOMAIN c : ~CheckName(c[i], n)
<1> DEFINE named == {i \in DOMAIN c : CheckName(c[i], n)}
           first == {j \in named : \A k \in named : j <= k}
<1>1. named \subseteq Nat
  BY SeqAt
<1>2. named # {} => SearchIdsHighConfidence(c, n) = {c[i].id : i \in first}
  BY DEF SearchIdsHighConfidence
<1>3. named # {} => first # {}
  <2> HIDE DEF named
  <2> QED
    BY <1>1, SomeIsFirst
<1>4. named = {}
  <2> HIDE DEF named, first
  <2> QED
    BY <1>2, <1>3
<1> QED
  BY <1>4

(* ... and one that a child may be renamed to is no other child's.         *)
LEMMA FreeName ==
  ASSUME NEW c \in Seq(Child), InPlace(c), Unique(c), NEW id \in Nat, NEW n,
         MayRename(c, id, n)
  PROVE  \A i \in DOMAIN c : CheckName(c[i], n) => i = id + 1
<1> SUFFICES ASSUME NEW i \in DOMAIN c, CheckName(c[i], n)
             PROVE  i = id + 1
  OBVIOUS
<1> DEFINE named == {j \in DOMAIN c : CheckName(c[j], n)}
           first == {j \in named : \A k \in named : j <= k}
<1>1. /\ \A j \in DOMAIN c : j \in Nat /\ j - 1 + 1 = j
      /\ SearchIdsHighConfidence(c, n) \subseteq {id}
  BY SeqAt DEF MayRename
<1>2. i \in named /\ \A k \in named : k = i
  BY DEF Unique, CheckName
<1>3. SearchIdsHighConfidence(c, n) = {c[j].id : j \in first}
  BY <1>2 DEF SearchIdsHighConfidence
<1>4. i \in first
  <2>1. i <= i
    BY <1>1
  <2> HIDE DEF named
  <2> QED
    BY <1>2, <2>1
<1> HIDE DEF named, first
<1>5. c[i].id = id
  BY <1>1, <1>3, <1>4
<1> QED
  BY <1>1, <1>5 DEF InPlace

(* Create().                                                               *)
LEMMA CreateDistinct ==
  ASSUME BuiltInSpared, NEW c \in Seq(Child), NEW t, NEW n \in Names,
         Distinct(t, c)
  PROVE  Distinct(t, Create(c, n))
<1> DEFINE e == NewChild(Len(c), n)
           s == Append(c, e)
<1>1. CASE SearchIdsHighConfidence(c, n) # {}
  BY <1>1 DEF Create
<1>2. CASE SearchIdsHighConfidence(c, n) = {}
  <2>1. Create(c, n) = s
    BY <1>2 DEF Create
  <2>2. \A i \in DOMAIN c : FoldCase[c[i].name] # FoldCase[n]
    BY <1>2, UnknownName DEF CheckName
  <2>3. e.name = n /\ e \in Child
    BY LenProperties DEF NewChild, Child
  <2> HIDE DEF e
  <2>4. /\ Len(c) \in Nat /\ DOMAIN c = 1 .. Len(c)
        /\ DOMAIN s = 1 .. Len(c) + 1
        /\ \A i \in 1 .. Len(c) : s[i] = c[i]
        /\ s[Len(c) + 1] = e
    BY <2>3, AppendProperties, LenProperties
  <2> HIDE DEF s
  <2>5. \A i \in DOMAIN s : \/ i \in DOMAIN c /\ s[i] = c[i]
                            \/ i = Len(c) + 1 /\ s[i].name = n
    <3>1. \A i \in 1 .. Len(c) + 1 : i \in 1 .. Len(c) \/ i = Len(c) + 1
      BY <2>4
    <3> QED
      BY <2>3, <2>4, <3>1, Zenon
  <2>6. Unique(s)
    BY <2>2, <2>5 DEF Unique, Distinct, CheckName
  <2>7. BuiltInFirst(t, s)
    BY <2>5 DEF BuiltInFirst, Distinct, CheckName, BuiltInSpared
  <2> QED
    BY <2>1, <2>6, <2>7 DEF Distinct
<1> QED
  BY <1>1, <1>2

(* Rename().                                                               *)
LEMMA RenameDistinct ==
  ASSUME BuiltInSpared, NEW c \in Seq(Child), NEW t, NEW id \in Nat,
         NEW n \in Names, InPlace(c), Distinct(t, c), MayRename(c, id, n)
  PROVE  Distinct(t, Rename(c, id, n))
<1> DEFINE k == id + 1
           s == [c EXCEPT ![k].name = n]
<1>1. Rename(c, id, n) = s
  BY DEF Rename
<1>2. \A i \in DOMAIN c : FoldCase[c[i].name] = FoldCase[n] => i = k
  BY FreeName DEF CheckName, Distinct
<1>3. \A i \in DOMAIN c : c[i] \in Child
  BY SeqAt
<1>4. /\ DOMAIN s = DOMAIN c
      /\ \A i \in DOMAIN c : \/ i # k /\ s[i] = c[i]
                             \/ i = k /\ s[i].name = n
  <2> DEFINE e == [c[k] EXCEPT !.name = n]
  <2>1. k \in DOMAIN c => e.name = n
    BY <1>3 DEF Child
  <2>2. s = [c EXCEPT ![k] = e]
    OBVIOUS
  <2> HIDE DEF e, s, k
  <2>3. /\ DOMAIN s = DOMAIN c
        /\ \A i \in DOMAIN c : s[i] = IF i = k THEN e ELSE c[i]
    BY <2>2
  <2> QED
    BY <2>1, <2>3, Zenon
<1> HIDE DEF s, k
<1>5. Unique(s)
  BY <1>2, <1>4 DEF Unique, Distinct, CheckName
<1>6. BuiltInFirst(t, s)
  BY <1>4 DEF BuiltInFirst, Distinct, CheckName, BuiltInSpared
<1> QED
  BY <1>1, <1>5, <1>6 DEF Distinct

(* AddKeyword().                                                           *)
LEMMA KeywordDistinct ==
  ASSUME NEW c \in Seq(Child), NEW t, NEW id, NEW w, NEW d, Distinct(t, c)
  PROVE  Distinct(t, AddKeyword(c, id, w, d))
<1> DEFINE s == AddKeyword(c, id, w, d)
<1>1. \A i \in DOMAIN c : c[i] \in Child
  BY SeqAt
<1>2. DOMAIN s = DOMAIN c /\ \A i \in DOMAIN c : s[i].name = c[i].name
  BY <1>1 DEF AddKeyword, Child
<1> HIDE DEF s
<1>3. Distinct(t, s)
  BY <1>2 DEF Distinct, Unique, BuiltInFirst, CheckName
<1> QED
  BY <1>3 DEF s

(* Merge(): the children that stay stay in their order.                    *)
LEMMA MergeDistinct ==
  ASSUME NEW c \in Seq(Child), NEW t, NEW froms \in SUBSET Nat, NEW to \in Nat,
         \A id \in froms \cup {to} : id < Len(c), Distinct(t, c)
  PROVE  Distinct(t, Merge(c, froms, to))
<1> DEFINE S == Staying(c, froms)
           s == Merge(c, froms, to)
<1>1. /\ s \in Seq(Child)
      /\ \A k \in 1 .. Len(s) :
           \E i \in S : Rank(S, i) = k /\ s[k].name = c[i].name
  BY MergeFacts
<1>2. DOMAIN s = 1 .. Len(s) /\ \A i \in S : i \in DOMAIN c
  BY <1>1, SeqAt DEF Staying
<1>3. 1 \in S => Rank(S, 1) = 1
  <2>1. \A j \in S : j \in Nat /\ j >= 1
    BY <1>2, SeqAt
  <2>2. 1 \in S => {j \in S : j <= 1} = {1}
    BY <2>1
  <2> HIDE DEF S
  <2> QED
    BY <2>2, FS_Singleton DEF Rank
<1> HIDE DEF s, S
<1>4. Unique(s)
  <2> SUFFICES ASSUME NEW k \in DOMAIN s, NEW l \in DOMAIN s,
                      FoldCase[s[k].name] = FoldCase[s[l].name]
               PROVE  k = l
    BY DEF Unique, CheckName
  <2>1. PICK i \in S : Rank(S, i) = k /\ s[k].name = c[i].name
    BY <1>1, <1>2
  <2>2. PICK j \in S : Rank(S, j) = l /\ s[l].name = c[j].name
    BY <1>1, <1>2
  <2>3. i = j
    BY <1>2, <2>1, <2>2 DEF Distinct, Unique, CheckName
  <2> QED
    BY <2>1, <2>2, <2>3
<1>5. BuiltInFirst(t, s)
  <2> SUFFICES ASSUME t \in Defaulted, NEW k \in DOMAIN s,
                      FoldCase[s[k].name] = FoldCase[DefaultName]
               PROVE  k = 1
    BY DEF BuiltInFirst, CheckName
  <2>1. PICK i \in S : Rank(S, i) = k /\ s[k].name = c[i].name
    BY <1>1, <1>2
  <2>2. i = 1
    BY <1>2, <2>1 DEF Distinct, BuiltInFirst, CheckName
  <2> QED
    BY <1>3, <2>1, <2>2
<1> QED
  BY <1>4, <1>5 DEF Distinct, s

(* StreamOut() and StreamIn(): the built-in child comes back to a place    *)
(* where nobody else has its name.                                         *)
LEMMA StreamDistinct ==
  ASSUME NEW c \in Seq(Child), NEW t, InPlace(c), Distinct(t, c),
         NEW d, d = (t \in Defaulted)
  PROVE  Distinct(t, StreamIn(StreamOut(c, d), d))
<1> DEFINE s == StreamIn(StreamOut(c, d), d)
<1>1. d \in BOOLEAN
  OBVIOUS
<1>2. \A i \in DOMAIN s :
        \/ d /\ i = 1 /\ s[i] = DefaultChild
        \/ i \in DOMAIN c /\ (d => i # 1) /\ s[i] = c[i]
  BY <1>1, StreamFacts
<1>3. DefaultChild.name = DefaultName
  BY DEF DefaultChild, NewChild
<1> HIDE DEF s
<1>4. ASSUME d, NEW i \in DOMAIN s, FoldCase[s[i].name] = FoldCase[DefaultName]
      PROVE  i = 1
  BY <1>2, <1>4 DEF Distinct, BuiltInFirst, CheckName
<1>5. Unique(s)
  <2> SUFFICES ASSUME NEW i \in DOMAIN s, NEW j \in DOMAIN s,
                      FoldCase[s[i].name] = FoldCase[s[j].name]
               PROVE  i = j
    BY DEF Unique, CheckName
  <2>1. CASE d /\ i = 1 /\ s[i] = DefaultChild
    BY <1>3, <1>4, <2>1
  <2>2. CASE d /\ j = 1 /\ s[j] = DefaultChild
    BY <1>3, <1>4, <2>2
  <2>3. CASE i \in DOMAIN c /\ s[i] = c[i] /\ j \in DOMAIN c /\ s[j] = c[j]
    BY <2>3 DEF Distinct, Unique, CheckName
  <2> QED
    BY <1>2, <2>1, <2>2, <2>3
<1> QED
  BY <1>4, <1>5 DEF Distinct, BuiltInFirst, CheckName, s
(* The whole memory. Transactions and accounts have no say in it ...       *)
HasChildren(m) == "children" \in DOMAIN m

LEMMA WithTxnsChildren ==
  ASSUME NEW m, HasChildren(m), NEW a, NEW txns
  PROVE  /\ HasChildren(WithTxns(m, a, txns))
         /\ WithTxns(m, a, txns).children = m.children
  BY DEF HasChildren, WithTxns

LEMMA EditChildren ==
  ASSUME NEW m, HasChildren(m), NEW a, NEW p, NEW field, NEW value
  PROVE  /\ HasChildren(EditTransaction(m, a, p, field, value))
         /\ EditTransaction(m, a, p, field, value).children = m.children
<1> DEFINE txns == IF field = "MEMO" THEN AddDescription(TxnsOf(m, a), p, value)
                   ELSE SetId(TxnsOf(m, a), p, field, value)
<1>1. EditTransaction(m, a, p, field, value) = WithTxns(m, a, txns)
  BY DEF EditTransaction
<1> HIDE DEF txns
<1> QED
  BY <1>1, WithTxnsChildren

LEMMA AddAccountChildren ==
  ASSUME NEW m, HasChildren(m), NEW number, NEW name, NEW bank
  PROVE  AddAccount(m, number, name, bank).children = m.children
  BY DEF HasChildren, AddAccount

LEMMA MemoryHasChildren == \A m \in Memory : HasChildren(m)
  BY DEF HasChildren, Memory

LEMMA SameNamed ==
  ASSUME NEW m, NEW n, Named(m), n.children = m.children
  PROVE  Named(n)
  BY DEF Named

(* ... and what is done to a collection keeps it.                          *)
LEMMA ChildrenNamed ==
  ASSUME NEW m \in Memory, Named(m), NEW t \in Topics, NEW c, Distinct(t, c)
  PROVE  Named([m EXCEPT !.children[t] = c])
<1>1. [m EXCEPT !.children[t] = c].children = [m.children EXCEPT ![t] = c]
  BY MemoryParts
<1> QED
  BY <1>1, MemoryParts DEF Named

LEMMA CreateNamed ==
  ASSUME BuiltInSpared, NEW m \in Memory, Named(m), NEW t \in Topics,
         NEW n \in Names
  PROVE  Named(CreateId(m, t, n))
<1> DEFINE r == Create(m.children[t], n)
<1>1. m.children[t] \in Seq(Child) /\ Distinct(t, m.children[t])
  BY MemoryParts DEF Named
<1>2. Distinct(t, r)
  BY <1>1, CreateDistinct
<1>3. CreateId(m, t, n) = [m EXCEPT !.children[t] = r]
  BY DEF CreateId
<1> HIDE DEF r
<1> QED
  BY <1>2, <1>3, ChildrenNamed

LEMMA KeywordNamed ==
  ASSUME NEW m \in Memory, Named(m), NEW t \in Topics, NEW id, NEW w, NEW d
  PROVE  Named(AddKeywordTo(m, t, id, w, d))
<1> DEFINE r == AddKeyword(m.children[t], id, w, d)
<1>1. m.children[t] \in Seq(Child) /\ Distinct(t, m.children[t])
  BY MemoryParts DEF Named
<1>2. Distinct(t, r)
  BY <1>1, KeywordDistinct
<1>3. AddKeywordTo(m, t, id, w, d) = [m EXCEPT !.children[t] = r]
  BY DEF AddKeywordTo
<1> HIDE DEF r
<1> QED
  BY <1>2, <1>3, ChildrenNamed

LEMMA RenameNamed ==
  ASSUME BuiltInSpared, NEW m \in Memory, Placed(m), Named(m),
         NEW t \in Topics \cup {"ACCOUNT"}, NEW id \in Nat, NEW n \in Names,
         MayRenameId(m, t, id, n)
  PROVE  Named(RenameId(m, t, id, n))
<1>1. CASE t = "ACCOUNT"
  <2>1. RenameId(m, t, id, n).children = m.children
    BY <1>1, MemoryHasChildren DEF RenameId, HasChildren
  <2> QED
    BY <2>1, SameNamed
<1>2. CASE t \in Topics
  <2> DEFINE r == Rename(m.children[t], id, n)
  <2>1. m.children[t] \in Seq(Child) /\ Distinct(t, m.children[t])
          /\ InPlace(m.children[t])
    BY <1>2, MemoryParts DEF Named, Placed, Sound
  <2>2. t # "ACCOUNT"
    BY <1>2, DataAssumption DEF DataAssumption
  <2>3. MayRename(m.children[t], id, n)
    BY <2>2 DEF MayRenameId
  <2>4. Distinct(t, r)
    BY <2>1, <2>3, RenameDistinct
  <2>5. RenameId(m, t, id, n) = [m EXCEPT !.children[t] = r]
    BY <2>2 DEF RenameId
  <2> HIDE DEF r
  <2> QED
    BY <1>2, <2>4, <2>5, ChildrenNamed
<1> QED
  BY <1>1, <1>2

LEMMA MergeNamed ==
  ASSUME NEW m \in Memory, Named(m), NEW t \in Topics, NEW froms \in SUBSET Nat,
         NEW to \in Nat, \A id \in froms \cup {to} : HasId(m, t, id)
  PROVE  Named(MergeChildren(m, t, froms, to))
<1> DEFINE c == m.children[t]
           r == Merge(c, froms, to)
<1>1. c \in Seq(Child) /\ Distinct(t, c)
  BY MemoryParts DEF Named
<1>2. \A id \in froms \cup {to} : id < Len(c)
  BY DataAssumption DEF HasId, DataAssumption
<1>3. MergeChildren(m, t, froms, to) = [m EXCEPT !.children[t] = r]
  BY DEF MergeChildren
<1> HIDE DEF c
<1>4. Distinct(t, r)
  BY <1>1, <1>2, MergeDistinct
<1> HIDE DEF r
<1> QED
  BY <1>3, <1>4, ChildrenNamed

LEMMA AppliedNamed ==
  ASSUME BuiltInSpared, NEW m \in Memory, Placed(m), Named(m), NEW row \in Row,
         Applies(m, row) \/ row.op \in {"CREATE", "ACCOUNT"}
  PROVE  Named(Applied(m, row))
<1>1. CASE row.op = "CREATE"
  BY <1>1, RowFacts, CreateNamed DEF Applied
<1>2. CASE row.op = "KEYWORD"
  BY <1>2, RowFacts, KeywordNamed DEF Applied
<1>3. CASE row.op = "RENAME"
  BY <1>3, RowFacts, RenameNamed DEF Applied
<1>4. CASE row.op = "MERGE"
  <2>1. \A id \in row.froms \cup {row.to} : HasId(m, row.topic, id)
    BY <1>4 DEF Applies
  <2> QED
    BY <1>4, <2>1, RowFacts, MergeNamed DEF Applied
<1>5. CASE row.op = "ACCOUNT"
  BY <1>5, MemoryHasChildren, AddAccountChildren, SameNamed DEF Applied
<1>6. CASE row.op = "TRANSACTION"
  BY <1>6, MemoryHasChildren, WithTxnsChildren, SameNamed
     DEF Applied, AddTransaction
<1>7. CASE row.op = "EDIT_TXN"
  BY <1>7, MemoryHasChildren, EditChildren, SameNamed DEF Applied
<1> QED
  BY <1>1, <1>2, <1>3, <1>4, <1>5, <1>6, <1>7, RowFacts DEF RowOps

LEMMA StoredNamed ==
  ASSUME NEW m \in Memory, Placed(m), Named(m)
  PROVE  Named(Loaded(Stored(m)))
<1>1. ASSUME NEW t \in Topics, NEW d, d = (t \in Defaulted)
      PROVE  Distinct(t, StreamIn(StreamOut(m.children[t], d), d))
  <2>1. /\ m.children[t] \in Seq(Child) /\ InPlace(m.children[t])
        /\ Distinct(t, m.children[t])
    BY MemoryParts DEF Placed, Sound, Named
  <2> QED
    BY <1>1, <2>1, StreamDistinct
<1>2. \A t \in Topics :
        Loaded(Stored(m)).children[t]
          = StreamIn(StreamOut(m.children[t], t \in Defaulted), t \in Defaulted)
  BY MemoryParts DEF Loaded, Stored
<1> QED
  BY <1>1, <1>2 DEF Named

LEMMA EmptyNamed == Named(EmptyMemory)
<1>1. ASSUME NEW t \in Topics, NEW d, d = (t \in Defaulted)
      PROVE  Distinct(t, StreamIn(<<>>, d))
  <2>1. DOMAIN <<>> = {} /\ DOMAIN <<DefaultChild>> = 1 .. 1
    BY EmptySeqFacts, SeqFacts
  <2>2. <<DefaultChild>> \o <<>> = <<DefaultChild>>
    BY DefaultIsChild, ConcatEmptySeq
  <2>3. DOMAIN StreamIn(<<>>, d) \subseteq {1}
    BY <2>1, <2>2 DEF StreamIn
  <2> QED
    BY <2>3 DEF Distinct, Unique, BuiltInFirst
<1> QED
  BY <1>1 DEF EmptyMemory, Named

-----------------------------------------------------------------------------
(* The invariant: names are distinct in memory, and would be after loading *)
(* the file.                                                               *)
NInv ==
  /\ phase # "closed" => Named(mem)
  /\ file # NoFile => Named(Loaded(file))

UniqueAtFirst ==
  \A f \in InitFiles \ {NoFile}, t \in Topics : Unique(Loaded(f).children[t])

LEMMA InitNInv ==
  ASSUME UniqueAtFirst, Init
  PROVE  NInv
<1>1. ASSUME file # NoFile, NEW t \in Topics
      PROVE  Distinct(t, Loaded(file).children[t])
  <2> DEFINE c == Loaded(file).children[t]
  <2>1. file \in InitFiles \ {NoFile} /\ file \in Memory
    BY <1>1, LedgerAssumption DEF Init, LedgerAssumption
  <2>2. Unique(c)
    BY <2>1 DEF UniqueAtFirst
  <2>3. c \in Seq(Child)
    BY <2>1, LoadedMemory, MemoryParts
  <2>4. ASSUME t \in Defaulted PROVE c[1] = DefaultChild /\ 1 \in DOMAIN c
    <3>1. c = <<DefaultChild>> \o file.children[t]
      BY <2>4 DEF Loaded, StreamIn
    <3>2. /\ file.children[t] \in Seq(Child)
          /\ <<DefaultChild>> \in Seq(Child) /\ Len(<<DefaultChild>>) = 1
          /\ <<DefaultChild>>[1] = DefaultChild
      BY <2>1, MemoryParts, DefaultIsChild
    <3> DEFINE s == file.children[t]
               b == <<DefaultChild>>
    <3> HIDE DEF s, b
    <3>3. Len(s) \in Nat /\ Len(b \o s) = 1 + Len(s) /\ (b \o s)[1] = b[1]
            /\ b \o s \in Seq(Child)
      BY <3>2, LenProperties, ConcatProperties DEF s, b
    <3> HIDE DEF c
    <3>4. 1 \in 1 .. Len(c)
      BY <3>1, <3>3 DEF s, b
    <3> QED
      BY <2>3, <3>1, <3>2, <3>3, <3>4, LenProperties DEF s, b
  <2>5. DefaultChild.name = DefaultName
    BY DEF DefaultChild, NewChild
  <2> HIDE DEF c
  <2> QED
    BY <2>2, <2>4, <2>5 DEF Distinct, Unique, BuiltInFirst, CheckName, c
<1>2. phase = "closed"
  BY DEF Init
<1> QED
  BY <1>1, <1>2 DEF NInv, Named

LEMMA LoadKeepsN ==
  ASSUME NInv, NEW j, LoadWith(j)
  PROVE  NInv'
<1>1. file' = file /\ mem' = IF file = NoFile THEN EmptyMemory ELSE Loaded(file)
  BY DEF LoadWith
<1>2. Named(mem')
  BY <1>1, EmptyNamed DEF NInv
<1> QED
  BY <1>1, <1>2 DEF NInv

(* A session that goes on with other transactions or accounts.             *)
LEMMA SameKeepsN ==
  ASSUME NInv, phase # "closed", file' = file, mem'.children = mem.children
  PROVE  NInv'
<1>1. Named(mem')
  BY SameNamed DEF NInv
<1> QED
  BY <1>1 DEF NInv

LEMMA NamedKeepsN ==
  ASSUME NInv, file' = file, Named(mem') \/ phase' = "closed"
  PROVE  NInv'
  BY DEF NInv

LEMMA NextNInv ==
  ASSUME BuiltInSpared, MInv, NInv, [Next]_vars
  PROVE  NInv'
<1>m. /\ phase # "closed" => /\ mem \in Memory /\ Placed(mem) /\ Named(mem)
                             /\ HasChildren(mem)
      /\ merging # NoMerge => merging \in Merger
  BY MemoryHasChildren DEF MInv, MData, MUnder, NInv
<1>1. CASE phase = "open" /\ OnChildren
  <2>1. PICK t \in Topics :
          \/ \E n \in Names : Create_(t, n)
          \/ \E id \in Ids(mem.children[t]) :
               \/ \E w \in Words, d \in BOOLEAN : Keyword(t, id, w, d)
               \/ \E n \in Names : Rename_(t, id, n)
               \/ \E others \in SUBSET Ids(mem.children[t]) :
                    StartMerge(t, others, id)
    BY <1>1 DEF OnChildren
  <2>2. ASSUME NEW n \in Names, Create_(t, n) PROVE NInv'
    <3>1. mem' = CreateId(mem, t, n) /\ file' = file
      BY <2>2 DEF Create_, Log
    <3> QED
      BY <1>1, <1>m, <3>1, CreateNamed, NamedKeepsN
  <2>3. ASSUME NEW id \in Ids(mem.children[t]), NEW w \in Words,
               NEW d \in BOOLEAN, Keyword(t, id, w, d)
        PROVE  NInv'
    <3>1. mem' = AddKeywordTo(mem, t, id, w, d) /\ file' = file
      BY <2>3 DEF Keyword, Log
    <3> QED
      BY <1>1, <1>m, <3>1, KeywordNamed, NamedKeepsN
  <2>4. ASSUME NEW id \in Ids(mem.children[t]), NEW n \in Names,
               Rename_(t, id, n)
        PROVE  NInv'
    <3>1. /\ mem' = RenameId(mem, t, id, n) /\ file' = file
          /\ MayRenameId(mem, t, id, n)
      BY <2>4 DEF Rename_, Log
    <3>2. id \in Nat
      BY <1>1, <1>m, IdsAreNumbers
    <3> QED
      BY <1>1, <1>m, <3>1, <3>2, RenameNamed, NamedKeepsN
  <2>5. ASSUME NEW others \in SUBSET Ids(mem.children[t]),
               NEW to \in Ids(mem.children[t]), StartMerge(t, others, to)
        PROVE  NInv'
    <3> DEFINE froms == others \ {to}
    <3>1. /\ mem' = MergeChildren(mem, t, froms, to) /\ file' = file
          /\ \A id \in froms \cup {to} : HasId(mem, t, id)
      BY <2>5 DEF StartMerge, Log
    <3>2. froms \in SUBSET Nat /\ to \in Nat
      BY <1>1, <1>m, IdsAreNumbers
    <3> HIDE DEF froms
    <3> QED
      BY <1>1, <1>m, <3>1, <3>2, MergeNamed, NamedKeepsN
  <2> QED
    BY <2>1, <2>2, <2>3, <2>4, <2>5
<1>2. CASE phase = "open" /\ OnAccounts
  <2>1. PICK a \in DOMAIN mem.accounts :
          \/ \E n \in Names : Rename_("ACCOUNT", a - 1, n)
          \/ \E c \in 1 .. MaxTxns : Prune_(a - 1, c)
          \/ \E p \in Positions(mem.accounts[a].txns) :
               \/ \E t \in Topics : \E id \in Ids(mem.children[t]) :
                    Edit(a - 1, p, t, id)
               \/ \E note \in Notes : Edit(a - 1, p, "MEMO", note)
               \/ \E client \in Ids(mem.children["CLIENT"]),
                     category \in Ids(mem.children["CATEGORY"]),
                     note \in Notes, found \in BOOLEAN :
                    Categorize(a - 1, p, client, category, note, found)
    BY <1>2 DEF OnAccounts
  <2>2. ASSUME NEW n \in Names, Rename_("ACCOUNT", a - 1, n) PROVE NInv'
    <3>1. /\ mem' = RenameId(mem, "ACCOUNT", a - 1, n) /\ file' = file
          /\ MayRenameId(mem, "ACCOUNT", a - 1, n)
      BY <2>2 DEF Rename_, Log
    <3>2. a - 1 \in Nat
      BY <1>2, <1>m, PlacesAreNumbers
    <3> QED
      BY <1>2, <1>m, <3>1, <3>2, RenameNamed, NamedKeepsN
  <2>3. ASSUME NEW c, Prune_(a - 1, c) PROVE NInv'
    <3>1. /\ mem' = WithTxns(mem, a - 1, Prune(TxnsOf(mem, a - 1), c))
          /\ file' = file
      BY <2>3 DEF Prune_
    <3> QED
      BY <1>2, <1>m, <3>1, WithTxnsChildren, SameKeepsN
  <2>4. ASSUME NEW p, NEW field, NEW value, Edit(a - 1, p, field, value)
        PROVE  NInv'
    <3>1. /\ mem' = EditTransaction(mem, a - 1, p, field, value)
          /\ file' = file
      BY <2>4 DEF Edit, Log
    <3> QED
      BY <1>2, <1>m, <3>1, EditChildren, SameKeepsN
  <2>5. ASSUME NEW p, NEW client, NEW category, NEW note, NEW found,
               Categorize(a - 1, p, client, category, note, found)
        PROVE  NInv'
    <3> DEFINE moved == EditTransaction(mem, a - 1, p, "CLIENT", client)
               named == EditTransaction(moved, a - 1, p, "CATEGORY", category)
               after == EditTransaction(named, a - 1, p, "MEMO", note)
    <3>1. mem' = after /\ file' = file
      BY <2>5 DEF Categorize, Log
    <3>2. HasChildren(moved) /\ moved.children = mem.children
      BY <1>2, <1>m, EditChildren
    <3> HIDE DEF moved
    <3>3. HasChildren(named) /\ named.children = mem.children
      BY <3>2, EditChildren
    <3> HIDE DEF named
    <3>4. after.children = mem.children
      BY <3>3, EditChildren
    <3> HIDE DEF after
    <3> QED
      BY <1>2, <3>1, <3>4, SameKeepsN
  <2> QED
    BY <2>1, <2>2, <2>3, <2>4, <2>5
<1>3. CASE phase = "open" /\ OnImport
  <2>1. ASSUME NEW export, NEW n, NEW b, StartImport(export, n, b)
        PROVE  NInv'
    <3>1. /\ file' = file
          /\ \/ mem' = mem
             \/ mem' = AddAccount(mem, export.number, n, export.bank)
      BY <2>1 DEF StartImport, Log
    <3>2. mem'.children = mem.children
      BY <1>3, <1>m, <3>1, AddAccountChildren
    <3> QED
      BY <1>3, <3>1, <3>2, SameKeepsN
  <2>2. ASSUME NEW ids, NEW note, ImportRow(ids, note)
        PROVE  NInv'
    <3>1. file' = file /\ \E txns : mem' = WithTxns(mem, importing.account, txns)
      BY <2>2 DEF ImportRow, Log, AddTransaction
    <3> QED
      BY <1>3, <1>m, <3>1, WithTxnsChildren, SameKeepsN
  <2>3. CASE PrepareImport
    <3>1. /\ file' = file
          /\ mem' = mem \/ \E txns : mem' = WithTxns(mem, importing.account, txns)
      BY <2>3 DEF PrepareImport
    <3>2. mem'.children = mem.children
      BY <1>3, <1>m, <3>1, WithTxnsChildren
    <3> QED
      BY <1>3, <3>1, <3>2, SameKeepsN
  <2>4. CASE EndImport
    BY <1>3, <2>4, SameKeepsN DEF EndImport
  <2> QED
    BY <1>3, <2>1, <2>2, <2>3, <2>4 DEF OnImport
<1>4. CASE MergeNext
  <2>1. PICK place : \E now :
          mem' = EditTransaction(mem, place[1], place[2], merging.topic, now)
    BY <1>4 DEF MergeNext
  <2>2. phase = "open" /\ file' = file
    BY <1>4 DEF MergeNext
  <2> QED
    BY <1>m, <2>1, <2>2, EditChildren, SameKeepsN
<1>5. CASE MergeEnd
  BY <1>5, SameKeepsN DEF MergeEnd
<1>6. CASE phase = "open" /\ Save
  <2>1. file' = Stored(mem) /\ mem' = mem
    BY <1>6 DEF Save
  <2> QED
    BY <1>6, <1>m, <2>1, StoredNamed DEF NInv
<1>7. CASE \E save \in BOOLEAN : Exit(save)
  <2>1. /\ phase = "open" /\ phase' = "closed"
        /\ file' = Stored(mem) \/ file' = file
    BY <1>7 DEF Exit, Idle
  <2> QED
    BY <1>m, <2>1, StoredNamed DEF NInv
<1>8. CASE Start \/ Discard
  BY <1>8, LoadKeepsN DEF Start, Discard
<1>9. CASE Accept \/ Decline
  BY <1>9, SameKeepsN DEF Accept, Decline
<1>10. CASE ReplayRow
  <2> DEFINE row == journal.rows[cursor + 1]
  <2>1. /\ phase = "replaying" /\ cursor < Len(journal.rows)
        /\ Applies(mem, row) /\ mem' = Applied(mem, row) /\ file' = file
    BY <1>10 DEF ReplayRow
  <2>2. row \in Row
    BY <1>10, <2>1, CursorRow DEF MInv
  <2> HIDE DEF row
  <2> QED
    BY <1>m, <2>1, <2>2, AppliedNamed, NamedKeepsN
<1>11. CASE ReplayStops
  <2> DEFINE row == journal.rows[cursor + 1]
  <2>1. /\ phase = "replaying" /\ cursor < Len(journal.rows) /\ file' = file
        /\ \/ phase' = "closed"
           \/ mem' = mem
           \/ row.op \in {"CREATE", "ACCOUNT"} /\ mem' = Applied(mem, row)
    BY <1>11 DEF ReplayStops
  <2>2. row \in Row
    BY <1>11, <2>1, CursorRow DEF MInv
  <2> HIDE DEF row
  <2>3. phase' = "closed" \/ Named(mem')
    BY <1>m, <2>1, <2>2, AppliedNamed
  <2> QED
    BY <2>1, <2>3, NamedKeepsN
<1>12. CASE ReplayDone
  <2>1. phase = "replaying" /\ file' = file /\ (phase' = "closed" \/ mem' = mem)
    BY <1>12 DEF ReplayDone
  <2> QED
    BY <1>m, <2>1, NamedKeepsN
<1>13. CASE Crash
  BY <1>13, NamedKeepsN DEF Crash
<1>14. CASE UNCHANGED vars
  BY <1>14 DEF vars, NInv, Named
<1> QED
  BY <1>1, <1>2, <1>3, <1>4, <1>5, <1>6, <1>7, <1>8, <1>9, <1>10, <1>11, <1>12,
     <1>13, <1>14 DEF Next, Running

(* No operation, replay or load makes two children of one name (Create()   *)
(* and the guard in Rename()), as long as users do not give the name that  *)
(* a built-in child had to another one.                                    *)
THEOREM NamesStayUnique ==
  ASSUME BuiltInSpared, UniqueAtFirst
  PROVE  Spec => []NamesUnique
<1>1. Init => NInv
  BY InitNInv
<1>2. MInv /\ NInv /\ [Next]_vars => NInv'
  BY NextNInv
<1>3. NInv => NamesUnique
  BY DEF NInv, Named, Distinct, Unique, NamesUnique
<1> QED
  BY <1>1, <1>2, <1>3, MemoryInvariantHolds, PTL DEF Spec

-----------------------------------------------------------------------------
(* A child that stays stands, after the merge, at the place that HealedId()*)
(* answers: as many of the others up to it stay as its id says.            *)
LEMMA HealedIsRank ==
  ASSUME NEW c \in Seq(Child), InPlace(c), NEW F \in SUBSET Nat,
         NEW id \in Nat, id < Len(c), id \notin F
  PROVE  /\ id + 1 \in Staying(c, F)
         /\ Rank(Staying(c, F), id + 1) = HealedId(id, F) + 1
<1> DEFINE U == 1 .. (id + 1)
           A == {j \in Staying(c, F) : j <= id + 1}
           B == {j \in U : j - 1 \in F}
           below == {f \in F : f < id}
           g == [f \in below |-> f + 1]
<1>1. Len(c) \in Nat /\ DOMAIN c = 1 .. Len(c)
  BY LenProperties
<1>2. \A i \in DOMAIN c : c[i].id = i - 1
  BY DEF InPlace
<1>3. id + 1 \in Staying(c, F)
  <2>1. id + 1 \in DOMAIN c /\ id + 1 - 1 = id
    BY <1>1
  <2> QED
    BY <1>2, <2>1 DEF Staying
<1>4. A = U \ B
  <2>1. \A j \in U : j \in DOMAIN c /\ j <= id + 1
    BY <1>1
  <2>2. \A j \in DOMAIN c : j <= id + 1 => j \in U
    BY <1>1
  <2> HIDE DEF U
  <2> QED
    BY <1>2, <2>1, <2>2 DEF Staying
<1>5. IsFiniteSet(U) /\ Cardinality(U) = id + 1
  BY FS_Interval
<1>6. IsFiniteSet(B) /\ Cardinality(B) \in Nat
  <2>1. B \in SUBSET U
    OBVIOUS
  <2> HIDE DEF U, B
  <2> QED
    BY <1>5, <2>1, FS_Subset, FS_CardinalityType
<1>7. Cardinality(A) = id + 1 - Cardinality(B)
  <2>1. U \cap B = B
    OBVIOUS
  <2> HIDE DEF U, B, A
  <2>2. Cardinality(U \ B) = Cardinality(U) - Cardinality(U \cap B)
    BY <1>5, FS_Difference
  <2>3. Cardinality(A) = Cardinality(U \ B)
    BY <1>4, Zenon
  <2>4. Cardinality(U \cap B) = Cardinality(B)
    BY <2>1, Zenon
  <2> QED
    BY <1>5, <1>6, <2>2, <2>3, <2>4
<1>8. Cardinality(below) = Cardinality(B)
  <2>1. \A f \in below : f \in Nat /\ f + 1 \in U /\ f + 1 - 1 = f
    <3>1. \A f \in below : f \in Nat /\ f < id
      OBVIOUS
    <3>2. \A f \in Nat : f < id => f + 1 \in U /\ f + 1 - 1 = f
      OBVIOUS
    <3> QED
      BY <3>1, <3>2
  <2>2. \A f \in below : f + 1 \in B
    BY <2>1
  <2>3. \A j \in B : j - 1 \in below /\ j - 1 + 1 = j
    <3>1. \A j \in U : /\ j - 1 \in Nat /\ j - 1 + 1 = j
                       /\ j - 1 < id \/ j - 1 = id
      OBVIOUS
    <3> QED
      BY <3>1
  <2>4. g \in [below -> B]
    BY <2>2
  <2>5. \A x, y \in below : g[x] = g[y] => x = y
    BY <2>1
  <2>6. \A j \in B : \E f \in below : g[f] = j
    BY <2>3
  <2> HIDE DEF g, below, B
  <2>7. g \in Bijection(below, B)
    BY <2>4, <2>5, <2>6 DEF Bijection, Injection, Surjection, IsInjective
  <2>8. g \in Injection(below, B) /\ g \in Surjection(below, B)
    BY <2>7 DEF Bijection
  <2> QED
    BY <1>6, <2>8, FS_Injection
<1>9. Rank(Staying(c, F), id + 1) = Cardinality(A)
  BY DEF Rank
<1>10. HealedId(id, F) = id - Cardinality(below)
  BY DEF HealedId
<1> HIDE DEF A, B, below
<1> QED
  BY <1>3, <1>6, <1>7, <1>8, <1>9, <1>10

(* So the healed id of a child that stays names that child in the merged   *)
(* collection: Merge() and MergeQuery shift the same ids alike.            *)
LEMMA HealedNames ==
  ASSUME NEW c \in Seq(Child), InPlace(c), NEW F \in SUBSET Nat, NEW to \in Nat,
         \A id \in F \cup {to} : id < Len(c),
         NEW id \in Nat, id < Len(c), id \notin F
  PROVE  /\ HealedId(id, F) \in Nat
         /\ HealedId(id, F) < Len(Merge(c, F, to))
         /\ At(Merge(c, F, to), HealedId(id, F)).name = At(c, id).name
<1> DEFINE m == Merge(c, F, to)
           r == Rank(Staying(c, F), id + 1)
<1>1. id + 1 \in Staying(c, F) /\ r = HealedId(id, F) + 1
  BY HealedIsRank
<1>2. HealedId(id, F) \in Nat
  BY HealedFacts
<1>3. m \in Seq(Child) /\ r \in 1 .. Len(m) /\ m[r].name = c[id + 1].name
  BY <1>1, MergeFacts
<1>4. Len(m) \in Nat
  BY <1>3, LenProperties
<1> HIDE DEF m, r
<1>5. HealedId(id, F) < Len(m)
  BY <1>1, <1>2, <1>3, <1>4
<1>6. At(m, HealedId(id, F)).name = At(c, id).name
  BY <1>1, <1>3 DEF At
<1> QED
  BY <1>2, <1>5, <1>6 DEF m
(* The id of a topic that the transaction at a place carries.              *)
IdAt(m, place, t) == GetTransactionAt(TxnsOf(m, place[1]), place[2]).ids[t]

LEMMA IdAtFacts ==
  ASSUME NEW m \in Memory, NEW q \in Places(m)
  PROVE  /\ q[1] \in Nat /\ q[2] \in Nat /\ q = <<q[1], q[2]>>
         /\ q[1] + 1 \in DOMAIN m.accounts /\ q[1] + 1 - 1 = q[1]
         /\ m.accounts[q[1] + 1].txns \in Seq(Transaction)
         /\ q[2] + 1 \in DOMAIN m.accounts[q[1] + 1].txns
         /\ m.accounts[q[1] + 1].txns[q[2] + 1] \in Transaction
         /\ \A t : IdAt(m, q, t) = m.accounts[q[1] + 1].txns[q[2] + 1].ids[t]
         /\ \A t \in Topics : IdAt(m, q, t) \in Nat
<1>1. PICK a \in DOMAIN m.accounts :
        \E p \in Positions(m.accounts[a].txns) : q = <<a - 1, p>>
  BY DEF Places
<1>2. PICK p \in Positions(m.accounts[a].txns) : q = <<a - 1, p>>
  BY <1>1
<1>3. m.accounts \in Seq(Account)
  BY MemoryParts
<1>4. /\ a - 1 \in Nat /\ a - 1 + 1 = a /\ m.accounts[a] \in Account
  BY <1>3, SeqAt
<1>5. m.accounts[a].txns \in Seq(Transaction)
  BY <1>4 DEF Account
<1>6. PICK i \in DOMAIN m.accounts[a].txns : p = i - 1
  BY DEF Positions
<1>7. i - 1 \in Nat /\ i - 1 + 1 = i /\ m.accounts[a].txns[i] \in Transaction
  BY <1>5, SeqAt
<1>8. q[1] = a - 1 /\ q[2] = i - 1 /\ q = <<q[1], q[2]>>
  BY <1>2, <1>6
<1>9. q[1] + 1 = a /\ q[2] + 1 = i
  BY <1>4, <1>7, <1>8
<1>10. \A t : IdAt(m, q, t) = m.accounts[a].txns[i].ids[t]
  BY <1>9 DEF IdAt, GetTransactionAt, TxnsOf
<1>11. \A t \in Topics : m.accounts[a].txns[i].ids[t] \in Nat
  BY <1>7 DEF Transaction
<1>12. q[1] \in Nat /\ q[2] \in Nat /\ q[1] + 1 - 1 = q[1]
  BY <1>4, <1>7, <1>8
<1>13. /\ q[1] + 1 \in DOMAIN m.accounts
       /\ m.accounts[q[1] + 1].txns \in Seq(Transaction)
       /\ q[2] + 1 \in DOMAIN m.accounts[q[1] + 1].txns
       /\ m.accounts[q[1] + 1].txns[q[2] + 1] \in Transaction
       /\ \A t : IdAt(m, q, t) = m.accounts[q[1] + 1].txns[q[2] + 1].ids[t]
  BY <1>5, <1>7, <1>9, <1>10, Zenon
<1> QED
  BY <1>8, <1>9, <1>10, <1>11, <1>12, <1>13

(* SetId() changes that id, and no other id of any transaction.            *)
LEMMA SetIdAt ==
  ASSUME NEW m \in Memory, NEW q \in Places(m), NEW t \in Topics, NEW v \in Nat
  PROVE  /\ EditTransaction(m, q[1], q[2], t, v).children = m.children
         /\ Places(EditTransaction(m, q[1], q[2], t, v)) = Places(m)
         /\ \A r \in Places(m), u \in Topics :
              IdAt(EditTransaction(m, q[1], q[2], t, v), r, u)
                = IF r = q /\ u = t THEN v ELSE IdAt(m, r, u)
<1> DEFINE a == q[1]
           k == q[2] + 1
           old == m.accounts[a + 1].txns
           new == [old EXCEPT ![k].ids[t] = v]
           n == EditTransaction(m, a, q[2], t, v)
<1>1. n = WithTxns(m, a, new)
  BY DataAssumption DEF EditTransaction, SetId, TxnsOf, DataAssumption
<1>2. Shape(m)
  BY MemoryShape
<1>3. \A b \in DOMAIN m.accounts :
        n.accounts[b].txns = IF b = a + 1 THEN new ELSE m.accounts[b].txns
  <2> HIDE DEF new, n, a
  <2> QED
    BY <1>1, <1>2, WithTxnsShape
<1>4. n.children = m.children
  <2>1. "children" \in DOMAIN m
    BY DEF Memory
  <2> HIDE DEF new, n, a
  <2> QED
    BY <1>1, <2>1 DEF WithTxns
<1>5. Places(n) = Places(m)
  BY <1>2, EditShape
<1>6. /\ old \in Seq(Transaction) /\ k \in DOMAIN old /\ a + 1 \in DOMAIN m.accounts
      /\ old[k] \in Transaction
  BY IdAtFacts
<1>7. \A i \in DOMAIN old, u \in Topics :
        new[i].ids[u] = IF i = k /\ u = t THEN v ELSE old[i].ids[u]
  <2> DEFINE e == [old[k] EXCEPT !.ids[t] = v]
  <2>1. \A u \in Topics : e.ids[u] = IF u = t THEN v ELSE old[k].ids[u]
    <3> HIDE DEF old, k
    <3> QED
      BY <1>6 DEF Transaction
  <2>2. new = [old EXCEPT ![k] = e]
    OBVIOUS
  <2> HIDE DEF new, e, old, k
  <2> QED
    BY <1>6, <2>1, <2>2
<1> HIDE DEF new, n
<1>8. ASSUME NEW r \in Places(m), NEW u \in Topics
      PROVE  IdAt(n, r, u) = IF r = q /\ u = t THEN v ELSE IdAt(m, r, u)
  <2> DEFINE b == r[1] + 1
             i == r[2] + 1
  <2>1. /\ b \in DOMAIN m.accounts /\ i \in DOMAIN m.accounts[b].txns
        /\ IdAt(m, r, u) = m.accounts[b].txns[i].ids[u]
    BY IdAtFacts
  <2>2. r = q <=> b = a + 1 /\ i = k
    <3>1. /\ r[1] \in Nat /\ r[2] \in Nat /\ r = <<r[1], r[2]>>
          /\ q[1] \in Nat /\ q[2] \in Nat /\ q = <<q[1], q[2]>>
      BY IdAtFacts
    <3>2. r[1] = q[1] /\ r[2] = q[2] => r = q
      BY <3>1, Zenon
    <3>3. (b = a + 1 => r[1] = q[1]) /\ (i = k => r[2] = q[2])
      BY <3>1
    <3> QED
      BY <3>2, <3>3
  <2>3. IdAt(n, r, u) = n.accounts[b].txns[i].ids[u]
    BY DEF IdAt, GetTransactionAt, TxnsOf
  <2>4. CASE b = a + 1
    <3>1. n.accounts[b].txns = new /\ m.accounts[b].txns = old
      BY <1>3, <2>1, <2>4
    <3>2. i \in DOMAIN old
      BY <2>1, <3>1
    <3>3. new[i].ids[u] = IF i = k /\ u = t THEN v ELSE old[i].ids[u]
      BY <1>7, <3>2
    <3> HIDE DEF old, a, k, b, i
    <3> QED
      BY <2>1, <2>2, <2>3, <2>4, <3>1, <3>3
  <2>5. CASE b # a + 1
    <3>1. n.accounts[b].txns = m.accounts[b].txns
      BY <1>3, <2>1, <2>5
    <3> HIDE DEF old, a, k, b, i
    <3> QED
      BY <2>1, <2>2, <2>3, <2>5, <3>1
  <2> QED
    BY <2>4, <2>5
<1> QED
  BY <1>4, <1>5, <1>8 DEF n
-----------------------------------------------------------------------------
(* A merge under way, with the memory it has come to. The ids of the topic *)
(* are those of before at the places still to be visited, and at the       *)
(* others they have been moved: from an erased child to the target, and    *)
(* all of them to their new places.                                        *)
Moved(g, id) == HealedId(IF id \in g.froms THEN g.to ELSE id, g.froms)

Halfway(g, m) ==
  /\ Placed(g.before)
  /\ g.to \notin g.froms
  /\ \A id \in g.froms \cup {g.to} : id < Len(g.before.children[g.topic])
  /\ g.target = HealedId(g.to, g.froms)
  /\ m.children = [g.before.children EXCEPT ![g.topic] = Merge(@, g.froms, g.to)]
  /\ Places(m) = Places(g.before)
  /\ \A place \in Places(g.before), u \in Topics :
       IdAt(m, place, u) = IF u = g.topic /\ place \notin g.todo
                             THEN Moved(g, IdAt(g.before, place, u))
                             ELSE IdAt(g.before, place, u)

(* Where the ids named children before, those it has visited name the same *)
(* children now, or the target for an erased one.                          *)
LEMMA HalfwayMeans ==
  ASSUME NEW g \in Merger, NEW m \in Memory, Halfway(g, m), RefsIn(g.before),
         NEW place \in Places(m) \ g.todo
  PROVE  LET was   == IdAt(g.before, place, g.topic)
             now   == IdAt(m, place, g.topic)
             meant == IF was \in g.froms THEN g.to ELSE was
         IN  /\ HasId(m, g.topic, now)
             /\ At(m.children[g.topic], now).name
                  = At(g.before.children[g.topic], meant).name
<1> DEFINE t == g.topic
           F == g.froms
           to == g.to
           b == g.before
           c == b.children[t]
           was == IdAt(b, place, t)
           now == IdAt(m, place, t)
           meant == IF was \in F THEN to ELSE was
<1>1. /\ t \in Topics /\ F \in SUBSET Nat /\ to \in Nat /\ b \in Memory
  BY DEF Merger
<1>2. /\ Placed(b) /\ to \notin F /\ \A id \in F \cup {to} : id < Len(c)
      /\ m.children = [b.children EXCEPT ![t] = Merge(@, F, to)]
      /\ place \in Places(b) /\ place \notin g.todo
  BY DEF Halfway
<1>3. now = HealedId(meant, F)
  BY <1>1, <1>2 DEF Halfway, Moved
<1>4. t # "ACCOUNT"
  BY <1>1, DataAssumption DEF DataAssumption
<1>5. b.children \in [Topics -> Seq(Child)] /\ c \in Seq(Child) /\ InPlace(c)
  BY <1>1, <1>2, MemoryParts DEF Placed, Sound
<1>6. was \in Nat /\ was < Len(c)
  <2>1. was \in Nat
    BY <1>1, <1>2, IdAtFacts
  <2>2. HasId(b, t, was)
    BY <1>1, <1>2 DEF RefsIn, Shows, IdAt
  <2> QED
    BY <1>4, <2>1, <2>2 DEF HasId
<1>7. m.children[t] = Merge(c, F, to)
  <2> HIDE DEF t, F, to
  <2> QED
    BY <1>1, <1>2, <1>5
<1> HIDE DEF t, F, to, b, c, was, now
<1>8. meant \in Nat /\ meant < Len(c) /\ meant \notin F
  BY <1>1, <1>2, <1>6
<1> HIDE DEF meant
<1>9. /\ HealedId(meant, F) < Len(Merge(c, F, to))
      /\ At(Merge(c, F, to), HealedId(meant, F)).name = At(c, meant).name
  <2>1. /\ F \in SUBSET Nat /\ to \in Nat /\ \A id \in F \cup {to} : id < Len(c)
        /\ c \in Seq(Child) /\ InPlace(c)
    BY <1>1, <1>2, <1>5
  <2> QED
    BY <1>8, <2>1, HealedNames
<1>10. HasId(m, t, now)
  BY <1>3, <1>4, <1>7, <1>9 DEF HasId
<1>11. At(m.children[t], now).name = At(c, meant).name
  BY <1>3, <1>7, <1>9
<1> QED
  BY <1>10, <1>11 DEF t, F, to, b, c, was, now, meant

(* It begins halfway with nothing visited ...                              *)
LEMMA StartHalfway ==
  ASSUME MInv, phase = "open", NEW t \in Topics,
         NEW others \in SUBSET Ids(mem.children[t]),
         NEW to \in Ids(mem.children[t]), StartMerge(t, others, to)
  PROVE  Halfway(merging', mem') /\ merging'.before = mem
<1> DEFINE F == others \ {to}
           g == [topic |-> t, froms |-> F, to |-> to,
                 target |-> HealedId(to, F), todo |-> Places(mem),
                 before |-> mem]
           m == MergeChildren(mem, t, F, to)
<1>1. mem \in Memory /\ Placed(mem)
  BY DEF MInv, MData
<1>2. /\ \A id \in F \cup {to} : HasId(mem, t, id)
      /\ mem' = m /\ merging' = g
  BY DEF StartMerge, Log
<1>3. to \in Nat /\ F \in SUBSET Nat /\ to \notin F
  BY <1>1, IdsAreNumbers
<1>4. \A id \in F \cup {to} : id < Len(mem.children[t])
  BY <1>2, DataAssumption DEF HasId, DataAssumption
<1>5. /\ m.children = [mem.children EXCEPT ![t] = Merge(@, F, to)]
      /\ m.accounts = mem.accounts
  BY <1>1 DEF MergeChildren, Memory
<1> HIDE DEF m, F
<1>6. Places(m) = Places(mem)
  BY <1>5 DEF Places
<1>7. \A q, u : IdAt(m, q, u) = IdAt(mem, q, u)
  BY <1>5 DEF IdAt, TxnsOf
<1>8. /\ g.topic = t /\ g.froms = F /\ g.to = to /\ g.before = mem
      /\ g.target = HealedId(to, F) /\ g.todo = Places(mem)
  OBVIOUS
<1> HIDE DEF g
<1>9. Halfway(g, m)
  BY <1>1, <1>3, <1>4, <1>5, <1>6, <1>7, <1>8 DEF Halfway
<1> QED
  BY <1>2, <1>8, <1>9

(* ... and every visit takes one place off those still to be visited.      *)
LEMMA NextHalfway ==
  ASSUME IInv, MInv, MergeNext, Halfway(merging, mem)
  PROVE  Halfway(merging', mem') /\ merging'.before = merging.before
<1> DEFINE t == merging.topic
           F == merging.froms
           b == merging.before
           was(q) == IdAt(mem, q, t)
           becomes(q) == IF was(q) \in F THEN merging.target
                         ELSE HealedId(was(q), F)
<1>1. PICK q \in merging.todo :
        /\ mem' = EditTransaction(mem, q[1], q[2], t, becomes(q))
        /\ merging' = [merging EXCEPT !.todo = @ \ {q}]
  BY DEF MergeNext, IdAt
<1>2. merging # NoMerge /\ mem \in Memory /\ merging \in Merger
  BY DEF MergeNext, MInv, MData, MUnder
<1>3. t \in Topics /\ F \in SUBSET Nat /\ b \in Memory
  BY <1>2 DEF Merger
<1>4. q \in Places(mem) /\ Places(mem) = Places(b)
  BY <1>2 DEF IInv, Underway, Halfway
<1>5. was(q) = IdAt(b, q, t) /\ was(q) \in Nat
  <2>1. was(q) \in Nat
    BY <1>2, <1>3, <1>4, IdAtFacts
  <2> QED
    BY <1>1, <1>3, <1>4, <2>1 DEF Halfway
<1>6. becomes(q) = Moved(merging, was(q)) /\ merging.target \in Nat
  BY <1>2 DEF Halfway, Moved, Merger
<1>7. becomes(q) \in Nat
  <2>1. HealedId(was(q), F) \in Nat
    BY <1>3, <1>5, HealedFacts
  <2> HIDE DEF was, F
  <2> QED
    BY <1>6, <2>1
<1> DEFINE v == becomes(q)
           n == EditTransaction(mem, q[1], q[2], t, v)
<1> HIDE DEF becomes
<1>8. /\ n.children = mem.children
      /\ Places(n) = Places(mem)
      /\ \A r \in Places(mem), u \in Topics :
           IdAt(n, r, u) = IF r = q /\ u = t THEN v ELSE IdAt(mem, r, u)
  <2>1. v \in Nat
    BY <1>7
  <2> HIDE DEF v
  <2> QED
    BY <1>2, <1>3, <1>4, <2>1, SetIdAt
<1> DEFINE g == [merging EXCEPT !.todo = @ \ {q}]
<1>9. /\ g.topic = t /\ g.froms = F /\ g.to = merging.to /\ g.before = b
      /\ g.target = merging.target /\ g.todo = merging.todo \ {q}
  BY <1>2 DEF Merger
<1>10. \A id : Moved(g, id) = Moved(merging, id)
  <2> HIDE DEF g
  <2> QED
    BY <1>9 DEF Moved
<1>11. mem' = n /\ merging' = g
  BY <1>1
<1>12. v = Moved(merging, IdAt(b, q, t))
  BY <1>5, <1>6
<1> HIDE DEF g, n, v, was
<1>13. ASSUME NEW r \in Places(b), NEW u \in Topics
       PROVE  IdAt(n, r, u) = IF u = t /\ r \notin g.todo
                                THEN Moved(g, IdAt(b, r, u)) ELSE IdAt(b, r, u)
  <2>1. IdAt(mem, r, u) = IF u = t /\ r \notin merging.todo
                            THEN Moved(merging, IdAt(b, r, u)) ELSE IdAt(b, r, u)
    BY DEF Halfway
  <2>2. IdAt(n, r, u) = IF r = q /\ u = t THEN v ELSE IdAt(mem, r, u)
    BY <1>4, <1>8
  <2>3. Moved(g, IdAt(b, r, u)) = Moved(merging, IdAt(b, r, u))
    BY <1>10
  <2> HIDE DEF t, b
  <2>4. CASE r = q /\ u = t
    BY <1>9, <1>12, <2>2, <2>3, <2>4
  <2>5. CASE ~(r = q /\ u = t)
    BY <1>9, <2>1, <2>2, <2>3, <2>5
  <2> QED
    BY <2>4, <2>5
<1>14. /\ Placed(g.before)
       /\ g.to \notin g.froms
       /\ \A id \in g.froms \cup {g.to} : id < Len(g.before.children[g.topic])
       /\ g.target = HealedId(g.to, g.froms)
       /\ n.children = [g.before.children EXCEPT
                          ![g.topic] = Merge(@, g.froms, g.to)]
       /\ Places(n) = Places(g.before)
  BY <1>4, <1>8, <1>9 DEF Halfway
<1>15. Halfway(g, n)
  <2>1. \A r \in Places(g.before), u \in Topics :
          IdAt(n, r, u) = IF u = g.topic /\ r \notin g.todo
                            THEN Moved(g, IdAt(g.before, r, u))
                            ELSE IdAt(g.before, r, u)
    <3> HIDE DEF t, b
    <3> QED
      BY <1>9, <1>13
  <2> QED
    BY <1>14, <2>1 DEF Halfway
<1> QED
  BY <1>9, <1>11, <1>15
(* What a step can do to a merge that is under way, or begin one.          *)
LEMMA MergeSteps ==
  ASSUME IInv, [Next]_vars
  PROVE  \/ merging' = NoMerge
         \/ UNCHANGED <<mem, merging>>
         \/ MergeNext
         \/ /\ phase = "open"
            /\ \E t \in Topics : \E id \in Ids(mem.children[t]) :
                 \E others \in SUBSET Ids(mem.children[t]) :
                   StartMerge(t, others, id)
<1> DEFINE Kept == merging' = NoMerge
           Starts == \E t \in Topics : \E id \in Ids(mem.children[t]) :
                       \E others \in SUBSET Ids(mem.children[t]) :
                         StartMerge(t, others, id)
<1>0. /\ phase # "open" => merging = NoMerge
      /\ importing.on => merging = NoMerge
  BY DEF IInv, Underway
<1>1. CASE phase = "open" /\ OnChildren
  <2>1. \A t, n : Create_(t, n) => Kept
    BY DEF Create_, Dialog
  <2>2. \A t, id, w, d : Keyword(t, id, w, d) => Kept
    BY DEF Keyword, Dialog
  <2>3. \A t, id, n : Rename_(t, id, n) => Kept
    BY DEF Rename_, Idle
  <2> HIDE DEF Kept
  <2>4. Kept \/ Starts
    BY <1>1, <2>1, <2>2, <2>3 DEF OnChildren
  <2> QED
    BY <1>1, <2>4 DEF Kept
<1>2. CASE phase = "open" /\ OnAccounts
  <2>1. \A t, id, n : Rename_(t, id, n) => Kept
    BY DEF Rename_, Idle
  <2>2. \A a, c : Prune_(a, c) => Kept
    BY DEF Prune_, Idle
  <2>3. \A a, p, f, v : Edit(a, p, f, v) => Kept
    BY DEF Edit, Idle
  <2>4. \A a, p, client, category, note, found :
          Categorize(a, p, client, category, note, found) => Kept
    BY DEF Categorize, Idle
  <2> HIDE DEF Kept
  <2>5. Kept
    BY <1>2, <2>1, <2>2, <2>3, <2>4 DEF OnAccounts
  <2> QED
    BY <2>5 DEF Kept
<1>3. CASE phase = "open" /\ OnImport
  <2>1. \A export, n, b : StartImport(export, n, b) => Kept
    BY DEF StartImport, Idle
  <2>2. \A ids, note : ImportRow(ids, note) => Kept
    BY <1>0 DEF ImportRow
  <2>3. PrepareImport \/ EndImport => Kept
    BY <1>0 DEF PrepareImport, EndImport
  <2> HIDE DEF Kept
  <2>4. Kept
    BY <1>3, <2>1, <2>2, <2>3 DEF OnImport
  <2> QED
    BY <2>4 DEF Kept
<1>4. CASE MergeEnd
  BY <1>4 DEF MergeEnd
<1>5. CASE Save \/ \E save \in BOOLEAN : Exit(save)
  BY <1>5 DEF Save, Exit, Idle
<1>6. CASE Start \/ Discard \/ Crash
  BY <1>6 DEF Start, Discard, LoadWith, Crash
<1>7. CASE Accept \/ Decline \/ ReplayRow \/ ReplayStops \/ ReplayDone
  <2>1. merging = NoMerge /\ UNCHANGED merging
    BY <1>0, <1>7 DEF Accept, Decline, ReplayRow, ReplayStops, ReplayDone
  <2> QED
    BY <2>1
<1>8. CASE UNCHANGED vars
  BY <1>8 DEF vars
<1> QED
  BY <1>1, <1>2, <1>3, <1>4, <1>5, <1>6, <1>7, <1>8 DEF Next, Running

(* The invariant of a merge that begins where every id named a child.      *)
Merging == merging # NoMerge => /\ Halfway(merging, mem)
                                /\ RefsIn(merging.before)

LEMMA NextMerging ==
  IInv /\ MInv /\ RefsInRange /\ Merging /\ [Next]_vars => Merging'
<1> SUFFICES ASSUME IInv, MInv, RefsInRange, Merging, [Next]_vars
             PROVE  Merging'
  OBVIOUS
<1>1. CASE merging' = NoMerge
  BY <1>1 DEF Merging
<1>2. CASE UNCHANGED <<mem, merging>>
  BY <1>2 DEF Merging, Halfway
<1>3. CASE MergeNext
  <2>1. merging # NoMerge
    BY <1>3 DEF MergeNext
  <2>2. Halfway(merging', mem') /\ merging'.before = merging.before
    BY <1>3, <2>1, NextHalfway DEF Merging
  <2>3. RefsIn(merging'.before)
    BY <2>1, <2>2 DEF Merging
  <2> QED
    BY <2>2, <2>3 DEF Merging
<1>4. ASSUME phase = "open", NEW t \in Topics, NEW id \in Ids(mem.children[t]),
             NEW others \in SUBSET Ids(mem.children[t]),
             StartMerge(t, others, id)
      PROVE  Merging'
  <2>1. Halfway(merging', mem') /\ merging'.before = mem
    BY <1>4, StartHalfway
  <2>2. RefsIn(mem)
    BY <1>4 DEF RefsInRange, StartMerge
  <2> QED
    BY <2>1, <2>2 DEF Merging
<1> QED
  BY <1>1, <1>2, <1>3, <1>4, MergeSteps

(* Where no id goes astray, a merge changes nothing that a transaction is  *)
(* about, however many children it merges and however many transactions it *)
(* has visited (MergeQuery::CheckTransaction() and ManagerType::Merge()).  *)
THEOREM MergesKeepMeaning ==
  Spec /\ []RefsInRange => []MergeKeepsMeaning
<1>1. Init => Merging
  BY DEF Init, Merging
<1>2. IInv /\ MInv /\ Merging => MergeKeepsMeaning
  <2> SUFFICES ASSUME IInv, MInv, Merging, merging # NoMerge PROVE MergeKeepsMeaning
    BY DEF MergeKeepsMeaning
  <2>1. /\ merging \in Merger /\ mem \in Memory
        /\ Halfway(merging, mem) /\ RefsIn(merging.before)
    <3>1. phase = "open"
      BY DEF IInv, Underway
    <3> QED
      BY <3>1 DEF MInv, MData, MUnder, Merging
  <2> SUFFICES ASSUME NEW place \in Places(mem) \ merging.todo
               PROVE  LET t   == merging.topic
                          was == IdAt(merging.before, place, t)
                          now == IdAt(mem, place, t)
                          meant == IF was \in merging.froms THEN merging.to
                                                            ELSE was
                      IN  /\ HasId(mem, t, now)
                          /\ At(mem.children[t], now).name
                               = At(merging.before.children[t], meant).name
    BY DEF MergeKeepsMeaning, IdAt
  <2> QED
    BY <2>1, HalfwayMeans
<1>3. IInv /\ MInv /\ RefsInRange /\ Merging /\ [Next]_vars => Merging'
  BY NextMerging
<1> QED
  BY <1>1, <1>2, <1>3, InvariantHolds, MemoryInvariantHolds, PTL DEF Spec

-----------------------------------------------------------------------------
(* Where every id names a child: all transactions are among those whose    *)
(* ids are ids of the collections.                                         *)
Referring(c) == {txn \in Transaction : \A t \in Topics : txn.ids[t] < Len(c[t])}

Refs(m) ==
  \A a \in DOMAIN m.accounts : m.accounts[a].txns \in Seq(Referring(m.children))

LEMMA SeqInto ==
  ASSUME NEW S, NEW T, NEW s \in Seq(S), \A i \in DOMAIN s : s[i] \in T
  PROVE  s \in Seq(T)
<1>1. Len(s) \in Nat /\ DOMAIN s = 1 .. Len(s) /\ s \in [1 .. Len(s) -> S]
  BY LenProperties
<1>2. s \in [1 .. Len(s) -> T]
  BY <1>1
<1> QED
  BY <1>1, <1>2, SegmentSeq

(* That is what RefsIn() says of the places.                               *)
LEMMA RefsAgree ==
  ASSUME NEW m \in Memory
  PROVE  RefsIn(m) <=> Refs(m)
<1> DEFINE R == Referring(m.children)
<1>1. \A t \in Topics : t # "ACCOUNT"
  BY DataAssumption DEF DataAssumption
<1>2. ASSUME RefsIn(m) PROVE Refs(m)
  <2> SUFFICES ASSUME NEW a \in DOMAIN m.accounts
               PROVE  m.accounts[a].txns \in Seq(R)
    BY DEF Refs
  <2> DEFINE txns == m.accounts[a].txns
  <2>1. /\ m.accounts \in Seq(Account) /\ txns \in Seq(Transaction)
        /\ a - 1 + 1 = a
    BY MemoryParts, SeqAt, PlacesAreNumbers
  <2>2. ASSUME NEW i \in DOMAIN txns PROVE txns[i] \in R
    <3> DEFINE q == <<a - 1, i - 1>>
    <3>1. i - 1 + 1 = i /\ txns[i] \in Transaction
      BY <2>1, SeqAt
    <3>2. q \in Places(m)
      BY DEF Places, Positions
    <3>3. \A t : IdAt(m, q, t) = txns[i].ids[t]
      <4>1. q[1] + 1 = a /\ q[2] + 1 = i
        BY <2>1, <3>1
      <4> HIDE DEF q
      <4> QED
        BY <4>1 DEF IdAt, GetTransactionAt, TxnsOf
    <3>4. \A t \in Topics : HasId(m, t, IdAt(m, q, t))
      <4> HIDE DEF q
      <4> QED
        BY <1>2, <3>2 DEF RefsIn, Shows, IdAt
    <3> HIDE DEF q, txns
    <3>5. \A t \in Topics : txns[i].ids[t] < Len(m.children[t])
      BY <1>1, <3>3, <3>4 DEF HasId
    <3> QED
      BY <3>1, <3>5 DEF Referring
  <2> HIDE DEF txns, R
  <2>3. txns \in Seq(R)
    BY <2>1, <2>2, SeqInto
  <2> QED
    BY <2>3 DEF txns
<1>3. ASSUME Refs(m) PROVE RefsIn(m)
  <2> SUFFICES ASSUME NEW q \in Places(m), NEW t \in Topics
               PROVE  HasId(m, t, IdAt(m, q, t))
    BY DEF RefsIn, Shows, IdAt
  <2> DEFINE a == q[1] + 1
             i == q[2] + 1
  <2>1. /\ a \in DOMAIN m.accounts /\ i \in DOMAIN m.accounts[a].txns
        /\ IdAt(m, q, t) = m.accounts[a].txns[i].ids[t]
    BY IdAtFacts
  <2> HIDE DEF a, i, R
  <2>2. m.accounts[a].txns \in Seq(R)
    BY <1>3, <2>1 DEF Refs, R
  <2>3. m.accounts[a].txns[i] \in R
    BY <2>1, <2>2, SeqAt
  <2>4. IdAt(m, q, t) < Len(m.children[t])
    BY <2>1, <2>3 DEF R, Referring
  <2> QED
    BY <1>1, <2>4 DEF HasId
<1> QED
  BY <1>2, <1>3

(* Collections that grow or keep their length do no harm.                  *)
LEMMA RefsGrow ==
  ASSUME NEW m \in Memory, NEW n \in Memory, Refs(m), n.accounts = m.accounts,
         \A t \in Topics : Len(m.children[t]) <= Len(n.children[t])
  PROVE  Refs(n)
<1>1. Referring(m.children) \subseteq Referring(n.children)
  <2> SUFFICES ASSUME NEW x \in Referring(m.children), NEW t \in Topics
               PROVE  x.ids[t] < Len(n.children[t])
    BY DEF Referring
  <2>1. m.children[t] \in Seq(Child) /\ n.children[t] \in Seq(Child)
    BY MemoryParts
  <2>2. Len(m.children[t]) \in Nat /\ Len(n.children[t]) \in Nat
    BY <2>1, LenProperties
  <2>3. x \in Transaction /\ x.ids[t] < Len(m.children[t])
    BY DEF Referring
  <2>4. x.ids[t] \in Nat
    BY <2>3 DEF Transaction
  <2> QED
    BY <2>2, <2>3, <2>4
<1>2. ASSUME NEW a \in DOMAIN n.accounts
      PROVE  n.accounts[a].txns \in Seq(Referring(n.children))
  <2> DEFINE R == Referring(m.children)
             T == Referring(n.children)
             s == n.accounts[a].txns
  <2>1. s \in Seq(R)
    BY DEF Refs
  <2> HIDE DEF R, T, s
  <2>2. \A i \in DOMAIN s : s[i] \in R
    BY <2>1, SeqAt
  <2>3. \A i \in DOMAIN s : s[i] \in T
    BY <1>1, <2>2 DEF R, T
  <2>4. s \in Seq(T)
    BY <2>1, <2>3, SeqInto
  <2> QED
    BY <2>4 DEF s, T
<1> QED
  BY <1>2 DEF Refs

(* Transactions that name children may replace those of an account.        *)
LEMMA RefsTxns ==
  ASSUME NEW m \in Memory, NEW a, NEW txns, Refs(m),
         txns \in Seq(Referring(m.children))
  PROVE  Refs(WithTxns(m, a, txns))
<1> DEFINE n == WithTxns(m, a, txns)
<1>1. /\ DOMAIN n.accounts = DOMAIN m.accounts
      /\ \A b \in DOMAIN m.accounts :
           n.accounts[b].txns = IF b = a + 1 THEN txns ELSE m.accounts[b].txns
  BY MemoryShape, WithTxnsShape
<1>2. n.children = m.children
  BY DEF WithTxns, Memory
<1> HIDE DEF n
<1>3. Refs(n)
  BY <1>1, <1>2 DEF Refs
<1> QED
  BY <1>3 DEF n

LEMMA RefsOf ==
  ASSUME NEW m \in Memory, NEW a \in Nat, HasAccount(m, a), Refs(m)
  PROVE  TxnsOf(m, a) \in Seq(Referring(m.children))
<1>1. a + 1 \in DOMAIN m.accounts
  BY TxnsFacts
<1> QED
  BY <1>1 DEF Refs, TxnsOf

(* ApplyEdit() with an id of a child, or with a description.               *)
LEMMA RefsEdit ==
  ASSUME NEW m \in Memory, NEW a \in Nat, HasAccount(m, a), Refs(m), NEW p,
         NEW field, NEW value, FieldValue(field, value),
         field # "MEMO" => value < Len(m.children[field])
  PROVE  Refs(EditTransaction(m, a, p, field, value))
<1> DEFINE k == p + 1
           R == Referring(m.children)
           old == TxnsOf(m, a)
           e == IF field = "MEMO" THEN [old[k] EXCEPT !.note = value]
                ELSE [old[k] EXCEPT !.ids[field] = value]
           new == [old EXCEPT ![k] = e]
<1>1. old \in Seq(R)
  BY RefsOf
<1>2. EditTransaction(m, a, p, field, value) = WithTxns(m, a, new)
  BY DEF EditTransaction, AddDescription, SetId
<1> HIDE DEF old, k, R
<1>3. ASSUME k \in DOMAIN old PROVE e \in R
  <2>1. old[k] \in R
    BY <1>1, <1>3, SeqAt
  <2>2. old[k] \in Transaction /\ \A t \in Topics : old[k].ids[t] < Len(m.children[t])
    BY <2>1 DEF R, Referring
  <2>3. CASE field = "MEMO"
    <3>1. value \in Notes
      BY <2>3, DataAssumption DEF FieldValue, DataAssumption
    <3>2. e \in Transaction /\ e.ids = old[k].ids
      BY <2>2, <2>3, <3>1 DEF Transaction
    <3> HIDE DEF e
    <3> QED
      BY <2>2, <3>2 DEF R, Referring
  <2>4. CASE field # "MEMO"
    <3>1. value \in Nat /\ field \in Topics
      BY <2>4 DEF FieldValue
    <3> DEFINE ids == [old[k].ids EXCEPT ![field] = value]
    <3>2. e = [old[k] EXCEPT !.ids = ids]
      BY <2>2, <2>4 DEF Transaction
    <3>3. ids \in [Topics -> Nat]
      BY <2>2, <3>1 DEF Transaction
    <3>4. \A t \in Topics : ids[t] < Len(m.children[t])
      BY <2>2, <2>4, <3>1 DEF Transaction
    <3> HIDE DEF e, ids
    <3>5. e \in Transaction /\ e.ids = ids
      BY <2>2, <3>2, <3>3 DEF Transaction
    <3> QED
      BY <3>4, <3>5 DEF R, Referring
  <2> QED
    BY <2>3, <2>4
<1> HIDE DEF e
<1>4. new \in Seq(R)
  BY <1>1, <1>3, SeqExcept
<1> HIDE DEF new
<1> QED
  BY <1>2, <1>4, RefsTxns DEF R
(* A new transaction, a new account, another name for one.                 *)
LEMMA RefsAdd ==
  ASSUME NEW m \in Memory, NEW a \in Nat, HasAccount(m, a), Refs(m),
         NEW txn \in Referring(m.children)
  PROVE  Refs(AddTransaction(m, a, txn))
<1> DEFINE R == Referring(m.children)
<1>1. TxnsOf(m, a) \in Seq(R) /\ txn \in R
  BY RefsOf
<1> HIDE DEF R
<1>2. Append(TxnsOf(m, a), txn) \in Seq(R)
  BY <1>1, AppendProperties
<1> QED
  BY <1>2, RefsTxns DEF AddTransaction, R

LEMMA RefsAccounts ==
  ASSUME NEW m \in Memory, Refs(m)
  PROVE  /\ \A number, name, bank : Refs(AddAccount(m, number, name, bank))
         /\ \A id, name : Refs(RenameId(m, "ACCOUNT", id, name))
<1> DEFINE R == Referring(m.children)
<1>0. m.accounts \in Seq(Account) /\ "accounts" \in DOMAIN m
  BY DEF Memory
<1>1. ASSUME NEW number, NEW name, NEW bank
      PROVE  Refs(AddAccount(m, number, name, bank))
  <2> DEFINE e == [number |-> number, name |-> name, bank |-> bank,
                   txns |-> <<>>]
             acc == Append(m.accounts, e)
             n == AddAccount(m, number, name, bank)
  <2>1. CASE KnownNumber(m, number)
    BY <2>1 DEF AddAccount
  <2>2. CASE ~KnownNumber(m, number)
    <3>1. n.accounts = acc /\ n.children = m.children
      BY <1>0, <2>2 DEF AddAccount, Memory
    <3>2. e.txns \in Seq(R)
      OBVIOUS
    <3> HIDE DEF n, e, R
    <3>3. \A b \in DOMAIN acc :
            \/ acc[b] = e
            \/ b \in DOMAIN m.accounts /\ acc[b] = m.accounts[b]
      <4>1. IsSeq(m.accounts)
        BY MemoryShape DEF Shape
      <4>2. /\ IsSeq(acc) /\ Len(acc) = Len(m.accounts) + 1
            /\ \A i \in 1 .. Len(m.accounts) : acc[i] = m.accounts[i]
            /\ acc[Len(m.accounts) + 1] = e
        BY <4>1, AppendIsSeq
      <4>3. /\ Len(m.accounts) \in Nat /\ DOMAIN m.accounts = 1 .. Len(m.accounts)
            /\ DOMAIN acc = 1 .. Len(acc)
        BY <4>1, <4>2, SeqFacts
      <4> HIDE DEF acc
      <4>4. DOMAIN acc = 1 .. (Len(m.accounts) + 1)
        BY <4>2, <4>3
      <4> SUFFICES ASSUME NEW b \in DOMAIN acc
                   PROVE  \/ acc[b] = e
                          \/ b \in DOMAIN m.accounts /\ acc[b] = m.accounts[b]
        OBVIOUS
      <4>5. b = Len(m.accounts) + 1 \/ b \in 1 .. Len(m.accounts)
        BY <4>3, <4>4
      <4> QED
        BY <4>2, <4>3, <4>5
    <3> HIDE DEF acc
    <3>4. \A b \in DOMAIN acc : acc[b].txns \in Seq(R)
      BY <3>2, <3>3 DEF Refs, R
    <3>5. Refs(n)
      BY <3>1, <3>4 DEF Refs, R
    <3> QED
      BY <3>5 DEF n
  <2> QED
    BY <2>1, <2>2
<1>2. ASSUME NEW id, NEW name
      PROVE  Refs(RenameId(m, "ACCOUNT", id, name))
  <2> DEFINE k == id + 1
             n == RenameId(m, "ACCOUNT", id, name)
             e == [m.accounts[k] EXCEPT !.name = name]
  <2>1. n.accounts = [m.accounts EXCEPT ![k] = e] /\ n.children = m.children
    BY <1>0 DEF RenameId, Memory
  <2>2. k \in DOMAIN m.accounts => e.txns = m.accounts[k].txns
    <3> HIDE DEF k
    <3>1. k \in DOMAIN m.accounts => m.accounts[k] \in Account
      BY <1>0, SeqAt
    <3> QED
      BY <3>1 DEF Account
  <2> HIDE DEF e, n, k
  <2>3. /\ DOMAIN n.accounts = DOMAIN m.accounts
        /\ \A b \in DOMAIN m.accounts : n.accounts[b].txns = m.accounts[b].txns
    BY <2>1, <2>2
  <2>4. Refs(n)
    BY <2>1, <2>3 DEF Refs
  <2> QED
    BY <2>4 DEF n
<1> QED
  BY <1>1, <1>2

(* A beginning of an account.                                              *)
LEMMA RefsCut ==
  ASSUME NEW m \in Memory, NEW a \in Nat, HasAccount(m, a), Refs(m)
  PROVE  /\ \A count \in Nat : Refs(WithTxns(m, a, Prune(TxnsOf(m, a), count)))
         /\ \A date : Refs(WithTxns(m, a, KeptByImport(TxnsOf(m, a), date)))
<1> DEFINE R == Referring(m.children)
           old == TxnsOf(m, a)
<1>1. old \in Seq(R)
  BY RefsOf
<1> HIDE DEF R, old
<1>2. /\ \A count \in Nat : Prune(old, count) \in Seq(R)
      /\ \A date : KeptByImport(old, date) \in Seq(R)
  BY <1>1, PruneFacts, KeptFacts
<1> QED
  BY <1>2, RefsTxns DEF R, old

(* What is saved is loaded with as many children of every collection and   *)
(* the same transactions, in whatever order sorting leaves them.           *)
LEMMA RefsStored ==
  ASSUME NEW m \in Memory, Placed(m)
  PROVE  /\ \A t \in Topics : Len(Loaded(Stored(m)).children[t]) = Len(m.children[t])
         /\ Refs(m) => Refs(Loaded(Stored(m)))
<1> DEFINE f == Stored(m)
           n == Loaded(f)
<1>1. /\ n.children = [t \in Topics |-> StreamIn(f.children[t], t \in Defaulted)]
      /\ n.accounts = [a \in DOMAIN f.accounts |->
                         [f.accounts[a] EXCEPT !.txns = Sort(@)]]
  BY DEF Loaded
<1>2. /\ f.children = [t \in Topics |-> StreamOut(m.children[t], t \in Defaulted)]
      /\ f.accounts = m.accounts
  BY DEF Stored, Memory
<1>3. f \in Memory /\ n \in Memory
  BY StoredMemory, LoadedMemory
<1> HIDE DEF f, n
<1>4. ASSUME NEW t \in Topics PROVE Len(n.children[t]) = Len(m.children[t])
  <2> DEFINE d == t \in Defaulted
             c == m.children[t]
  <2>1. c \in Seq(Child) /\ InPlace(c) /\ (d => c # <<>>) /\ d \in BOOLEAN
    BY MemoryParts DEF Placed, Sound
  <2>2. n.children[t] = StreamIn(StreamOut(c, d), d)
    BY <1>1, <1>2
  <2> HIDE DEF c, d
  <2>3. Len(StreamIn(StreamOut(c, d), d)) = Len(c)
    BY <2>1, StreamFacts
  <2> QED
    BY <2>2, <2>3 DEF c
<1>5. ASSUME Refs(m) PROVE Refs(n)
  <2> DEFINE R == Referring(m.children)
             T == Referring(n.children)
  <2>1. R \subseteq T
    <3> SUFFICES ASSUME NEW x \in R, NEW t \in Topics
                 PROVE  x \in Transaction /\ x.ids[t] < Len(n.children[t])
      BY DEF Referring
    <3> QED
      BY <1>4 DEF Referring
  <2>2. \A x \in R : x.date \in Nat
    BY DEF Referring, Transaction
  <2>3. ASSUME NEW a \in DOMAIN n.accounts PROVE n.accounts[a].txns \in Seq(T)
    <3> DEFINE old == m.accounts[a].txns
    <3>1. a \in DOMAIN m.accounts /\ n.accounts[a] = [m.accounts[a] EXCEPT !.txns = Sort(@)]
      BY <1>1, <1>2
    <3>2. m.accounts[a] \in Account
      BY <3>1, MemoryParts, SeqAt
    <3>3. n.accounts[a].txns = Sort(old)
      BY <3>1, <3>2 DEF Account
    <3>4. old \in Seq(R)
      BY <1>5, <3>1 DEF Refs
    <3> HIDE DEF old, R, T
    <3>5. Sort(old) \in Seq(R)
      BY <2>2, <3>4, SortFacts
    <3>6. \A i \in DOMAIN Sort(old) : Sort(old)[i] \in T
      BY <2>1, <3>5, SeqAt
    <3>7. Sort(old) \in Seq(T)
      BY <3>5, <3>6, SeqInto
    <3> QED
      BY <3>3, <3>7
  <2> QED
    BY <2>3 DEF Refs
<1> QED
  BY <1>4, <1>5 DEF n, f
(* Which ids name a child, and what the rows of a journal do to that.      *)
Known(m, t, id) == id < Len(m.children[t])

LEMMA CreateKnown ==
  ASSUME NEW m \in Memory, NEW t \in Topics, NEW n \in Names
  PROVE  /\ CreateId(m, t, n).accounts = m.accounts
         /\ SearchIdsHighConfidence(m.children[t], n) = {} =>
              /\ CreatedId(m.children[t], n) = Len(m.children[t])
              /\ \A u \in Topics :
                   Len(CreateId(m, t, n).children[u])
                     = IF u = t THEN Len(m.children[t]) + 1
                                ELSE Len(m.children[u])
         /\ SearchIdsHighConfidence(m.children[t], n) # {} =>
              /\ CreateId(m, t, n) = m
              /\ Placed(m) => \/ CreatedId(m.children[t], n) = InvalidId
                              \/ Known(m, t, CreatedId(m.children[t], n))
<1> DEFINE c == m.children[t]
           found == SearchIdsHighConfidence(c, n)
<1>1. c \in Seq(Child) /\ (Placed(m) => InPlace(c))
  BY MemoryParts DEF Placed, Sound
<1>2. CreateId(m, t, n) = [m EXCEPT !.children[t] = Create(c, n)]
  BY DEF CreateId
<1>3. CreateId(m, t, n).accounts = m.accounts
  BY <1>2, MemoryParts
<1>4. ASSUME found = {}
      PROVE  /\ CreatedId(c, n) = Len(c)
             /\ \A u \in Topics :
                  Len(CreateId(m, t, n).children[u])
                    = IF u = t THEN Len(c) + 1 ELSE Len(m.children[u])
  <2>1. CreatedId(c, n) = Len(c)
    BY <1>4 DEF CreatedId
  <2> DEFINE r == Create(c, n)
  <2>2. r = Append(c, NewChild(Len(c), n))
    BY <1>4 DEF Create
  <2>3. NewChild(Len(c), n) \in Child
    <3>1. Len(c) \in Nat
      BY <1>1, LenProperties
    <3> HIDE DEF c
    <3> QED
      BY <3>1 DEF NewChild, Child
  <2>4. Len(r) = Len(c) + 1
    <3> HIDE DEF r, c
    <3> QED
      BY <1>1, <2>2, <2>3, AppendProperties
  <2>5. CreateId(m, t, n).children = [m.children EXCEPT ![t] = r]
    <3> HIDE DEF r
    <3> QED
      BY <1>2, MemoryParts DEF r
  <2>6. \A u \in Topics : CreateId(m, t, n).children[u] = IF u = t THEN r ELSE m.children[u]
    <3> HIDE DEF r
    <3> QED
      BY <2>5, MemoryParts
  <2> HIDE DEF r
  <2> QED
    BY <2>1, <2>4, <2>6
<1>5. ASSUME found # {}
      PROVE  /\ CreateId(m, t, n) = m
             /\ Placed(m) => CreatedId(c, n) = InvalidId \/ Known(m, t, CreatedId(c, n))
  <2>1. Create(c, n) = c
    BY <1>5 DEF Create
  <2>2. [m EXCEPT !.children[t] = c] = m
    <3>1. [m.children EXCEPT ![t] = c] = m.children
      BY MemoryParts
    <3> HIDE DEF c
    <3> QED
      BY <3>1, MemoryParts
  <2>3. CreateId(m, t, n) = m
    BY <1>2, <2>1, <2>2
  <2>4. ASSUME Placed(m), CreatedId(c, n) # InvalidId
        PROVE  Known(m, t, CreatedId(c, n))
    <3>1. CreatedId(c, n) = CHOOSE id \in found : TRUE
      BY <1>5, <2>4 DEF CreatedId
    <3>2. CreatedId(c, n) \in found
      <4> HIDE DEF found
      <4> QED
        BY <1>5, <3>1
    <3>3. PICK i \in DOMAIN c : CreatedId(c, n) = c[i].id
      BY <3>2 DEF SearchIdsHighConfidence
    <3>4. c[i].id = i - 1
      BY <1>1, <2>4 DEF InPlace
    <3>5. i - 1 < Len(c)
      BY <1>1, SeqAt
    <3> QED
      BY <3>3, <3>4, <3>5 DEF Known
  <2> QED
    BY <2>3, <2>4
<1> QED
  BY <1>3, <1>4, <1>5

(* Renaming and keywords leave every id as it is.                          *)
LEMMA ChildKnown ==
  ASSUME NEW m \in Memory, NEW t \in Topics, NEW c \in Seq(Child),
         Len(c) = Len(m.children[t])
  PROVE  /\ [m EXCEPT !.children[t] = c] \in Memory
         /\ [m EXCEPT !.children[t] = c].accounts = m.accounts
         /\ \A u \in Topics :
              Len([m EXCEPT !.children[t] = c].children[u]) = Len(m.children[u])
<1> DEFINE n == [m EXCEPT !.children[t] = c]
<1>1. n \in Memory
  BY ChildrenMemory
<1>2. n.accounts = m.accounts /\ n.children = [m.children EXCEPT ![t] = c]
  BY MemoryParts
<1> HIDE DEF n
<1>3. \A u \in Topics : Len(n.children[u]) = Len(m.children[u])
  BY <1>2, MemoryParts
<1> QED
  BY <1>1, <1>2, <1>3 DEF n

LEMMA KeywordKnown ==
  ASSUME NEW m \in Memory, NEW t \in Topics, NEW id, NEW w \in Words, NEW d
  PROVE  /\ AddKeywordTo(m, t, id, w, d).accounts = m.accounts
         /\ \A u \in Topics : Len(AddKeywordTo(m, t, id, w, d).children[u])
                               = Len(m.children[u])
<1> DEFINE c == m.children[t]
           r == AddKeyword(c, id, w, d)
<1>1. c \in Seq(Child)
  BY MemoryParts
<1>2. r \in Seq(Child) /\ Len(r) = Len(c)
  <2> HIDE DEF c
  <2> QED
    BY <1>1, KeywordFacts
<1>3. AddKeywordTo(m, t, id, w, d) = [m EXCEPT !.children[t] = r]
  BY DEF AddKeywordTo
<1> HIDE DEF r
<1> QED
  BY <1>2, <1>3, ChildKnown

LEMMA RenameKnown ==
  ASSUME NEW m \in Memory, NEW t \in Topics, NEW id, NEW name \in Names
  PROVE  /\ RenameId(m, t, id, name).accounts = m.accounts
         /\ \A u \in Topics : Len(RenameId(m, t, id, name).children[u])
                               = Len(m.children[u])
<1> DEFINE c == m.children[t]
           r == Rename(c, id, name)
<1>1. c \in Seq(Child)
  BY MemoryParts
<1>2. r \in Seq(Child) /\ Len(r) = Len(c)
  <2> HIDE DEF c
  <2> QED
    BY <1>1, RenameFacts
<1>3. RenameId(m, t, id, name) = [m EXCEPT !.children[t] = r]
  BY DataAssumption DEF RenameId, DataAssumption
<1> HIDE DEF r
<1> QED
  BY <1>2, <1>3, ChildKnown

(* The accounts change, the collections do not.                            *)
LEMMA AccountsKnown ==
  ASSUME NEW m \in Memory
  PROVE  /\ \A a, txns : WithTxns(m, a, txns).children = m.children
         /\ \A a, txn : AddTransaction(m, a, txn).children = m.children
         /\ \A a, p, field, value :
              EditTransaction(m, a, p, field, value).children = m.children
         /\ \A number, name, bank :
              AddAccount(m, number, name, bank).children = m.children
         /\ \A id, name : RenameId(m, "ACCOUNT", id, name).children = m.children
<1>1. "children" \in DOMAIN m
  BY DEF Memory
<1>2. \A a, txns : WithTxns(m, a, txns).children = m.children
  BY <1>1 DEF WithTxns
<1>3. \A number, name, bank :
        AddAccount(m, number, name, bank).children = m.children
  BY <1>1 DEF AddAccount
<1>4. \A id, name : RenameId(m, "ACCOUNT", id, name).children = m.children
  BY <1>1 DEF RenameId
<1> QED
  BY <1>2, <1>3, <1>4 DEF AddTransaction, EditTransaction
(* A row of the journal: the ids it gives to transactions, and those that  *)
(* name a child after it.                                                  *)
RowKnown(m, row) ==
  /\ row.op = "TRANSACTION" => \A t \in Topics : Known(m, t, row.txn.ids[t])
  /\ row.op = "EDIT_TXN" /\ row.field # "MEMO" => Known(m, row.field, row.value)

Announces(row, t, id) == row.op = "CREATE" /\ row.topic = t /\ id <= row.id

LEMMA AppliedKnown ==
  ASSUME NEW m \in Memory, Placed(m), NEW row \in Row, row.op # "MERGE",
         Applies(m, row), row.op = "CREATE" => row.id # InvalidId,
         NEW t \in Topics, NEW id \in Nat
  PROVE  Known(Applied(m, row), t, id) <=> Known(m, t, id) \/ Announces(row, t, id)
<1> DEFINE n == Applied(m, row)
<1> SUFFICES Known(n, t, id) <=> Known(m, t, id) \/ Announces(row, t, id)
  OBVIOUS
<1>0. m.children[t] \in Seq(Child) /\ Len(m.children[t]) \in Nat
  BY MemoryParts, LenProperties
<1>1. CASE row.op = "CREATE"
  <2> DEFINE c == m.children[row.topic]
  <2>1. /\ row.topic \in Topics /\ row.name \in Names /\ row.id # InvalidId
        /\ CreatedId(c, row.name) = row.id /\ n = CreateId(m, row.topic, row.name)
    BY <1>1, RowFacts DEF Applies, Applied
  <2>2. CASE SearchIdsHighConfidence(c, row.name) = {}
    <3>1. /\ row.id = Len(c)
          /\ Len(n.children[t]) = IF t = row.topic THEN Len(c) + 1
                                                   ELSE Len(m.children[t])
      BY <2>1, <2>2, CreateKnown
    <3> HIDE DEF n
    <3>2. CASE t = row.topic
      <4>1. /\ row.id = Len(m.children[t])
            /\ Len(n.children[t]) = Len(m.children[t]) + 1
        BY <3>1, <3>2
      <4>2. \A k \in Nat : id < k + 1 <=> id < k \/ id <= k
        OBVIOUS
      <4> QED
        BY <1>0, <1>1, <3>2, <4>1, <4>2 DEF Known, Announces
    <3>3. CASE t # row.topic
      BY <3>1, <3>3 DEF Known, Announces
    <3> QED
      BY <3>2, <3>3
  <2>3. CASE SearchIdsHighConfidence(c, row.name) # {}
    <3>1. n = m /\ Known(m, row.topic, row.id)
      BY <2>1, <2>3, CreateKnown
    <3>2. Announces(row, t, id) => Known(m, t, id)
      <4> SUFFICES ASSUME row.topic = t, id <= row.id PROVE id < Len(m.children[t])
        BY DEF Announces, Known
      <4>1. row.id < Len(m.children[t])
        BY <3>1 DEF Known
      <4>2. row.id \in Nat
        BY <1>1 DEF Row
      <4> QED
        BY <1>0, <4>1, <4>2
    <3> HIDE DEF n
    <3> QED
      BY <3>1, <3>2
  <2> QED
    BY <2>2, <2>3
<1>2. CASE row.op # "CREATE"
  <2>1. ~Announces(row, t, id)
    BY <1>2 DEF Announces
  <2>2. CASE row.op = "KEYWORD"
    <3>1. row.topic \in Topics /\ row.word \in Words /\ row.definitive \in BOOLEAN
      BY <2>2 DEF Row
    <3>2. n = AddKeywordTo(m, row.topic, row.id, row.word, row.definitive)
      BY <2>2 DEF Applied
    <3> HIDE DEF n
    <3>3. Len(n.children[t]) = Len(m.children[t])
      BY <3>1, <3>2, KeywordKnown
    <3> QED
      BY <2>1, <3>3 DEF Known
  <2>3. CASE row.op = "RENAME"
    <3>1. row.topic \in Topics \cup {"ACCOUNT"} /\ row.name \in Names
      BY <2>3, RowFacts
    <3>2. n = m \/ n = RenameId(m, row.topic, row.id, row.name)
      BY <2>3 DEF Applied
    <3> HIDE DEF n
    <3>3. Len(n.children[t]) = Len(m.children[t])
      <4>1. CASE n = m
        BY <4>1
      <4>2. CASE row.topic = "ACCOUNT" /\ n # m
        BY <3>2, <4>2, AccountsKnown
      <4>3. CASE row.topic \in Topics /\ n # m
        BY <3>1, <3>2, <4>3, RenameKnown
      <4> QED
        BY <3>1, <4>1, <4>2, <4>3
    <3> QED
      BY <2>1, <3>3 DEF Known
  <2>4. CASE row.op \in {"ACCOUNT", "TRANSACTION", "EDIT_TXN"}
    <3>1. n.children = m.children
      BY <2>4, AccountsKnown DEF Applied
    <3> HIDE DEF n
    <3> QED
      BY <2>1, <3>1 DEF Known
  <2> QED
    BY <1>2, <2>2, <2>3, <2>4, RowFacts DEF RowOps
<1> QED
  BY <1>1, <1>2

LEMMA AppliedRefs ==
  ASSUME NEW m \in Memory, Refs(m), NEW row \in Row, row.op # "MERGE",
         Applies(m, row) \/ row.op \in {"CREATE", "ACCOUNT"}, RowKnown(m, row)
  PROVE  Refs(Applied(m, row))
<1> DEFINE n == Applied(m, row)
<1> SUFFICES Refs(n)
  OBVIOUS
<1>0. n \in Memory
  BY AppliedMemory
<1>k. \A t \in Topics : Len(m.children[t]) \in Nat
  <2>1. \A t \in Topics : m.children[t] \in Seq(Child)
    BY MemoryParts
  <2> QED
    BY <2>1, LenProperties
<1>1. CASE row.op = "CREATE"
  <2> DEFINE c == m.children[row.topic]
  <2>1. /\ row.topic \in Topics /\ row.name \in Names
        /\ n = CreateId(m, row.topic, row.name)
    BY <1>1, RowFacts DEF Applied
  <2>2. CASE SearchIdsHighConfidence(c, row.name) = {}
    <3>1. /\ n.accounts = m.accounts
          /\ \A t \in Topics : Len(n.children[t]) = IF t = row.topic
                                    THEN Len(c) + 1 ELSE Len(m.children[t])
      BY <2>1, <2>2, CreateKnown
    <3> HIDE DEF n
    <3>2. \A t \in Topics : Len(m.children[t]) <= Len(n.children[t])
      <4> SUFFICES ASSUME NEW t \in Topics
                   PROVE  Len(m.children[t]) <= Len(n.children[t])
        OBVIOUS
      <4>1. \/ Len(n.children[t]) = Len(m.children[t]) + 1
            \/ Len(n.children[t]) = Len(m.children[t])
        BY <3>1
      <4> QED
        BY <1>k, <4>1
    <3> QED
      BY <1>0, <3>1, <3>2, RefsGrow
  <2>3. CASE SearchIdsHighConfidence(c, row.name) # {}
    BY <2>1, <2>3, CreateKnown
  <2> QED
    BY <2>2, <2>3
<1>2. ASSUME n.accounts = m.accounts,
             \A t \in Topics : Len(n.children[t]) = Len(m.children[t])
      PROVE  Refs(n)
  <2> HIDE DEF n
  <2>1. \A t \in Topics : Len(m.children[t]) <= Len(n.children[t])
    BY <1>k, <1>2
  <2> QED
    BY <1>0, <1>2, <2>1, RefsGrow
<1>3. CASE row.op = "KEYWORD"
  <2>1. row.topic \in Topics /\ row.word \in Words /\ row.definitive \in BOOLEAN
    BY <1>3 DEF Row
  <2>2. n = AddKeywordTo(m, row.topic, row.id, row.word, row.definitive)
    BY <1>3 DEF Applied
  <2> HIDE DEF n
  <2> QED
    BY <1>2, <2>1, <2>2, KeywordKnown
<1>4. CASE row.op = "RENAME"
  <2>1. row.topic \in Topics \cup {"ACCOUNT"} /\ row.name \in Names
    BY <1>4, RowFacts
  <2>2. n = m \/ n = RenameId(m, row.topic, row.id, row.name)
    BY <1>4 DEF Applied
  <2> HIDE DEF n
  <2>3. CASE n = m
    BY <2>3
  <2>4. CASE row.topic = "ACCOUNT" /\ n # m
    BY <2>2, <2>4, RefsAccounts
  <2>5. CASE row.topic \in Topics /\ n # m
    BY <1>2, <2>1, <2>2, <2>5, RenameKnown
  <2> QED
    BY <2>1, <2>3, <2>4, <2>5
<1>5. CASE row.op = "ACCOUNT"
  BY <1>5, RefsAccounts DEF Applied
<1>6. CASE row.op = "TRANSACTION"
  <2>1. row.account \in Nat /\ row.txn \in Transaction /\ HasAccount(m, row.account)
    BY <1>6, RowFacts DEF Applies
  <2>2. row.txn \in Referring(m.children)
    BY <1>6, <2>1 DEF RowKnown, Known, Referring
  <2> QED
    BY <1>6, <2>1, <2>2, RefsAdd DEF Applied
<1>7. CASE row.op = "EDIT_TXN"
  <2>1. row.account \in Nat /\ FieldValue(row.field, row.value) /\ HasAccount(m, row.account)
    BY <1>7, RowFacts DEF Applies, HasPosition
  <2>2. row.field # "MEMO" => row.value < Len(m.children[row.field])
    BY <1>7 DEF RowKnown, Known
  <2> QED
    BY <1>7, <2>1, <2>2, RefsEdit DEF Applied
<1> QED
  BY <1>1, <1>3, <1>4, <1>5, <1>6, <1>7, RowFacts DEF RowOps
(* Where a merge ends, every id names a child again.                       *)
LEMMA EndHalfway ==
  ASSUME NEW g \in Merger, NEW m \in Memory, Halfway(g, m), RefsIn(g.before),
         g.todo = {}
  PROVE  RefsIn(m)
<1> SUFFICES ASSUME NEW place \in Places(m), NEW u \in Topics
             PROVE  HasId(m, u, IdAt(m, place, u))
  BY DEF RefsIn, Shows, IdAt
<1> DEFINE b == g.before
<1>1. g.topic \in Topics /\ b \in Memory
  BY DEF Merger
<1>2. place \in Places(b) /\ place \notin g.todo
  BY DEF Halfway
<1>3. CASE u = g.topic
  BY <1>2, <1>3, HalfwayMeans
<1>4. CASE u # g.topic
  <2>1. m.children = [b.children EXCEPT ![g.topic] = Merge(@, g.froms, g.to)]
    BY DEF Halfway
  <2>2. m.children[u] = b.children[u]
    BY <1>1, <1>4, <2>1, MemoryParts
  <2>3. IdAt(m, place, u) = IdAt(b, place, u)
    BY <1>2, <1>4 DEF Halfway
  <2>4. HasId(b, u, IdAt(b, place, u))
    BY <1>2 DEF RefsIn, Shows, IdAt
  <2>5. u # "ACCOUNT"
    BY DataAssumption DEF DataAssumption
  <2> HIDE DEF b
  <2> QED
    BY <2>2, <2>3, <2>4, <2>5 DEF HasId
<1> QED
  BY <1>3, <1>4

-----------------------------------------------------------------------------
(* The replay of rows on a file: the memory it has reached after k rows.   *)
Passes(f, rows, k, s) ==
  /\ s[0] = Loaded(f)
  /\ \A j \in 1 .. k : Applies(s[j - 1], rows[j]) /\ s[j] = Applied(s[j - 1], rows[j])

Reached(f, rows, k, m) == \E s : Passes(f, rows, k, s) /\ s[k] = m

(* It stops at one of the first k rows.                                    *)
Stopped(f, rows, k) ==
  \E j \in 1 .. k : \E m : Reached(f, rows, j - 1, m) /\ ~Applies(m, rows[j])

LEMMA ReachedFirst ==
  ASSUME NEW f, NEW rows
  PROVE  Reached(f, rows, 0, Loaded(f))
<1> DEFINE s == [j \in {0} |-> Loaded(f)]
<1>1. Passes(f, rows, 0, s) /\ s[0] = Loaded(f)
  BY DEF Passes
<1> QED
  BY <1>1 DEF Reached

LEMMA ReachedNext ==
  ASSUME NEW f, NEW rows, NEW k \in Nat, NEW m, Reached(f, rows, k, m),
         Applies(m, rows[k + 1])
  PROVE  Reached(f, rows, k + 1, Applied(m, rows[k + 1]))
<1>1. PICK s : Passes(f, rows, k, s) /\ s[k] = m
  BY DEF Reached
<1> DEFINE n == Applied(m, rows[k + 1])
           r == [j \in 0 .. (k + 1) |-> IF j = k + 1 THEN n ELSE s[j]]
<1>2. r[0] = s[0] /\ r[k + 1] = n /\ \A j \in 0 .. k : r[j] = s[j]
  BY DEF r
<1> HIDE DEF r, n
<1>3. ASSUME NEW j \in 1 .. (k + 1)
      PROVE  Applies(r[j - 1], rows[j]) /\ r[j] = Applied(r[j - 1], rows[j])
  <2>1. j - 1 \in 0 .. k /\ r[j - 1] = s[j - 1]
    <3>1. j - 1 \in 0 .. k
      OBVIOUS
    <3> QED
      BY <1>2, <3>1
  <2>2. CASE j = k + 1
    <3>1. j - 1 = k
      BY <2>2
    <3>2. r[j - 1] = m
      BY <1>1, <2>1, <3>1
    <3> QED
      BY <1>2, <2>2, <3>2 DEF n
  <2>3. CASE j # k + 1
    <3>1. j \in 1 .. k /\ j \in 0 .. k
      BY <2>3
    <3>2. r[j] = s[j]
      BY <1>2, <3>1
    <3>3. Applies(s[j - 1], rows[j]) /\ s[j] = Applied(s[j - 1], rows[j])
      BY <1>1, <3>1 DEF Passes
    <3> QED
      BY <2>1, <3>2, <3>3
  <2> QED
    BY <2>2, <2>3
<1>4. Passes(f, rows, k + 1, r)
  <2>1. r[0] = Loaded(f)
    BY <1>1, <1>2 DEF Passes
  <2> QED
    BY <1>3, <2>1 DEF Passes
<1> QED
  BY <1>2, <1>4 DEF Reached, n

(* A replay does the same whenever it is begun again, and later rows make  *)
(* no difference to earlier ones.                                          *)
LEMMA ReachedAgain ==
  ASSUME NEW f, NEW rows, NEW k \in Nat, NEW n \in Nat, k < n,
         NEW m, Reached(f, rows, k, m), NEW x, Reached(f, rows, n, x)
  PROVE  Applies(m, rows[k + 1])
<1>1. PICK s : Passes(f, rows, k, s) /\ s[k] = m
  BY DEF Reached
<1>2. PICK r : Passes(f, rows, n, r) /\ r[n] = x
  BY DEF Reached
<1> DEFINE T == {j \in 0 .. k : s[j] # r[j]}
<1>3. T = {}
  <2> SUFFICES ASSUME T # {} PROVE FALSE
    OBVIOUS
  <2>1. T \subseteq Nat
    OBVIOUS
  <2>2. PICK j \in T : \A i \in T : j <= i
    <3> HIDE DEF T
    <3> QED
      BY <2>1, LeastNatural
  <2>3. j \in 0 .. k /\ s[j] # r[j]
    OBVIOUS
  <2>4. j # 0
    BY <1>1, <1>2, <2>3 DEF Passes
  <2>5. j \in 1 .. k /\ j \in 1 .. n /\ j - 1 \in 0 .. k /\ ~(j <= j - 1)
    BY <2>3, <2>4
  <2>6. j - 1 \notin T
    BY <2>2, <2>5
  <2>7. s[j - 1] = r[j - 1]
    BY <2>5, <2>6
  <2>8. s[j] = Applied(s[j - 1], rows[j]) /\ r[j] = Applied(r[j - 1], rows[j])
    BY <1>1, <1>2, <2>5 DEF Passes
  <2> QED
    BY <2>3, <2>7, <2>8
<1>4. s[k] = r[k]
  <2>1. k \in 0 .. k
    OBVIOUS
  <2> QED
    BY <1>3, <2>1
<1>5. k + 1 \in 1 .. n /\ k + 1 - 1 = k
  OBVIOUS
<1>6. Applies(r[k], rows[k + 1])
  BY <1>2, <1>5 DEF Passes
<1> QED
  BY <1>1, <1>4, <1>6

LEMMA NotStopped ==
  ASSUME NEW f, NEW rows, NEW k \in Nat, NEW m, Reached(f, rows, k, m)
  PROVE  ~Stopped(f, rows, k)
<1> SUFFICES ASSUME NEW j \in 1 .. k, NEW x, Reached(f, rows, j - 1, x)
             PROVE  Applies(x, rows[j])
  BY DEF Stopped
<1>1. j - 1 \in Nat /\ j - 1 < k /\ j - 1 + 1 = j
  OBVIOUS
<1> DEFINE i == j - 1
<1>2. i \in Nat /\ i < k /\ i + 1 = j /\ Reached(f, rows, i, x)
  BY <1>1
<1> HIDE DEF i
<1>3. Applies(x, rows[i + 1])
  BY <1>2, ReachedAgain
<1> QED
  BY <1>2, <1>3

LEMMA StoppedStays ==
  ASSUME NEW f, NEW rows, NEW more, NEW k \in Nat, NEW n \in Nat, k <= n,
         \A j \in 1 .. k : more[j] = rows[j], Stopped(f, rows, k)
  PROVE  Stopped(f, more, n)
<1>1. PICK j \in 1 .. k : \E m : Reached(f, rows, j - 1, m) /\ ~Applies(m, rows[j])
  BY DEF Stopped
<1>2. PICK m : Reached(f, rows, j - 1, m) /\ ~Applies(m, rows[j])
  BY <1>1
<1>3. PICK s : Passes(f, rows, j - 1, s) /\ s[j - 1] = m
  BY <1>2 DEF Reached
<1>4. \A i \in 1 .. (j - 1) : more[i] = rows[i]
  OBVIOUS
<1>5. Passes(f, more, j - 1, s)
  BY <1>3, <1>4 DEF Passes
<1>6. Reached(f, more, j - 1, m)
  BY <1>3, <1>5 DEF Reached
<1>7. j \in 1 .. n /\ ~Applies(m, more[j])
  BY <1>2
<1> QED
  BY <1>6, <1>7 DEF Stopped
-----------------------------------------------------------------------------
(* The invariant. Every id names a child, in the memory and in what the    *)
(* file loads as; but only from before a merge until after it, and so the  *)
(* journal may hold a merge or the session may crash, not both.            *)
NoLostMerge == "Crash" \notin Ops \/ "Merge" \notin Ops

(* CreateId() answers INVALID_ID only for a name that means several.       *)
IdsFit == MaxKids <= InvalidId

MemoryRefs ==
  /\ phase # "closed" /\ merging = NoMerge => Refs(mem)
  /\ Merging
  /\ file # NoFile => Refs(Loaded(file))
  /\ phase \in {"offer", "replaying"} => file # NoFile /\ journal.base = file
  /\ phase = "offer" => mem = Loaded(file)
  /\ "Crash" \notin Ops => /\ phase \in {"closed", "open"}
                           /\ phase = "closed" => journal = NoJournal
  /\ "Merge" \notin Ops => merging = NoMerge

(* The ids a row gives are of children that the file has, or that a row    *)
(* before it creates ...                                                   *)
Announced(f, rows, k, t, id) ==
  Known(Loaded(f), t, id) \/ \E j \in 1 .. k : Announces(rows[j], t, id)

RowSane(f, rows, k) ==
  /\ rows[k].op = "CREATE" => rows[k].id # InvalidId
  /\ rows[k].op = "TRANSACTION" =>
       \A t \in Topics : Announced(f, rows, k - 1, t, rows[k].txn.ids[t])
  /\ rows[k].op = "EDIT_TXN" /\ rows[k].field # "MEMO" =>
       Announced(f, rows, k - 1, rows[k].field, rows[k].value)

(* ... unless the replay stops before that row, for then the session has   *)
(* gone on with a child that the row at which it stopped did not mean.     *)
RowsKnown(f, rows) ==
  \A k \in DOMAIN rows : Stopped(f, rows, k - 1) \/ RowSane(f, rows, k)

Replayed(m, f, rows, k) ==
  /\ Reached(f, rows, k, m)
  /\ \A t \in Topics, id \in Nat : Known(m, t, id) <=> Announced(f, rows, k, t, id)

Journaled(m, f, rows) ==
  \/ Stopped(f, rows, Len(rows))
  \/ \A t \in Topics, id \in Nat :
       Known(m, t, id) => Announced(f, rows, Len(rows), t, id)

JournalRefs ==
  "Merge" \notin Ops =>
    /\ \A k \in DOMAIN journal.rows : journal.rows[k].op # "MERGE"
    /\ file # NoFile /\ journal.base = file =>
         /\ RowsKnown(file, journal.rows)
         /\ phase = "replaying" => Replayed(mem, file, journal.rows, cursor)
         /\ phase = "open" => Journaled(mem, file, journal.rows)

RInv == MemoryRefs /\ JournalRefs

LEMMA MergerIsOne == NoMerge \notin Merger
<1> SUFFICES ASSUME NoMerge \in Merger PROVE FALSE
  OBVIOUS
<1>1. NoMerge.topic \in Topics /\ "froms" \in DOMAIN NoMerge
  BY DEF Merger
<1> QED
  BY <1>1 DEF NoMerge

(* Rows that gain one at the end.                                          *)
LEMMA MoreRows ==
  ASSUME NEW rows \in Seq(Row), NEW row \in Row
  PROVE  /\ Append(rows, row) \in Seq(Row)
         /\ Len(rows) \in Nat /\ Len(Append(rows, row)) = Len(rows) + 1
         /\ DOMAIN rows = 1 .. Len(rows)
         /\ DOMAIN Append(rows, row) = 1 .. (Len(rows) + 1)
         /\ \A j \in 1 .. Len(rows) : Append(rows, row)[j] = rows[j]
         /\ Append(rows, row)[Len(rows) + 1] = row
<1>1. /\ Append(rows, row) \in Seq(Row) /\ Len(Append(rows, row)) = Len(rows) + 1
      /\ \A j \in 1 .. Len(rows) : Append(rows, row)[j] = rows[j]
      /\ Append(rows, row)[Len(rows) + 1] = row
  BY AppendProperties
<1>2. Len(rows) \in Nat /\ DOMAIN rows = 1 .. Len(rows)
  BY LenProperties
<1>3. DOMAIN Append(rows, row) = 1 .. Len(Append(rows, row))
  BY <1>1, LenProperties
<1> QED
  BY <1>1, <1>2, <1>3

LEMMA AppendedRows ==
  ASSUME NEW f, NEW rows \in Seq(Row), NEW row \in Row, NEW m \in Memory,
         NEW n, RowsKnown(f, rows), Journaled(m, f, rows),
         row.op = "CREATE" => row.id # InvalidId, RowKnown(m, row),
         \A t \in Topics, id \in Nat :
           Known(n, t, id) => Known(m, t, id) \/ Announces(row, t, id)
  PROVE  /\ RowsKnown(f, Append(rows, row))
         /\ Journaled(n, f, Append(rows, row))
<1> DEFINE more == Append(rows, row)
           l == Len(rows)
<1>1. /\ l \in Nat /\ Len(more) = l + 1
      /\ DOMAIN rows = 1 .. l /\ DOMAIN more = 1 .. (l + 1)
      /\ \A j \in 1 .. l : more[j] = rows[j]
      /\ more[l + 1] = row
  BY MoreRows
<1> HIDE DEF more, l
<1>2. ASSUME NEW k \in Nat, k <= l, Stopped(f, rows, k), NEW n2 \in Nat, k <= n2
      PROVE  Stopped(f, more, n2)
  <2>1. \A j \in 1 .. k : more[j] = rows[j]
    BY <1>1, <1>2
  <2> QED
    BY <1>2, <2>1, StoppedStays
<1>3. ASSUME NEW k \in Nat, k <= l, NEW n2 \in Nat, k <= n2,
             NEW t, NEW id, Announced(f, rows, k, t, id)
      PROVE  Announced(f, more, n2, t, id)
  <2>1. \A j \in 1 .. k : more[j] = rows[j] /\ j \in 1 .. n2
    BY <1>1, <1>3
  <2> QED
    BY <1>3, <2>1 DEF Announced
<1>4. ASSUME NEW k \in 1 .. l
      PROVE  Stopped(f, more, k - 1) \/ RowSane(f, more, k)
  <2>1. k - 1 \in Nat /\ k - 1 <= l /\ k - 1 <= k - 1 /\ more[k] = rows[k]
    BY <1>1
  <2>2. CASE Stopped(f, rows, k - 1)
    BY <1>2, <2>1, <2>2
  <2>3. CASE RowSane(f, rows, k)
    BY <1>3, <2>1, <2>3 DEF RowSane
  <2> QED
    BY <1>1, <2>2, <2>3 DEF RowsKnown
<1>5. Stopped(f, more, l) \/ RowSane(f, more, l + 1)
  <2>1. CASE Stopped(f, rows, l)
    BY <1>1, <1>2, <2>1
  <2>2. CASE \A t \in Topics, id \in Nat : Known(m, t, id) => Announced(f, rows, l, t, id)
    <3>1. \A t \in Topics, id \in Nat : Known(m, t, id) => Announced(f, more, l, t, id)
      BY <1>1, <1>3, <2>2
    <3>2. l + 1 - 1 = l
      BY <1>1
    <3>3. row.op = "TRANSACTION" => \A t \in Topics : row.txn.ids[t] \in Nat
      BY RowFacts DEF Transaction
    <3>4. row.op = "EDIT_TXN" /\ row.field # "MEMO" =>
            row.field \in Topics /\ row.value \in Nat
      BY RowFacts DEF FieldValue
    <3> QED
      BY <1>1, <3>1, <3>2, <3>3, <3>4 DEF RowSane, RowKnown
  <2> QED
    BY <2>1, <2>2 DEF Journaled, l
<1>6. RowsKnown(f, more)
  <2> SUFFICES ASSUME NEW k \in 1 .. (l + 1)
               PROVE  Stopped(f, more, k - 1) \/ RowSane(f, more, k)
    BY <1>1 DEF RowsKnown
  <2>1. CASE k = l + 1
    <3>1. k - 1 = l
      BY <1>1, <2>1
    <3> QED
      BY <1>5, <2>1, <3>1
  <2>2. CASE k # l + 1
    <3>1. k \in 1 .. l
      BY <1>1, <2>2
    <3> QED
      BY <1>4, <3>1
  <2> QED
    BY <2>1, <2>2
<1>7. Journaled(n, f, more)
  <2>1. CASE Stopped(f, rows, l)
    <3>1. Stopped(f, more, l + 1)
      BY <1>1, <1>2, <2>1
    <3> QED
      BY <1>1, <3>1 DEF Journaled
  <2>2. CASE \A t \in Topics, id \in Nat : Known(m, t, id) => Announced(f, rows, l, t, id)
    <3> SUFFICES ASSUME NEW t \in Topics, NEW id \in Nat, Known(n, t, id)
                 PROVE  Announced(f, more, l + 1, t, id)
      BY <1>1 DEF Journaled
    <3>1. CASE Known(m, t, id)
      BY <1>1, <1>3, <2>2, <3>1
    <3>2. CASE Announces(row, t, id)
      <4>1. l + 1 \in 1 .. (l + 1)
        BY <1>1
      <4> QED
        BY <1>1, <3>2, <4>1 DEF Announced
    <3> QED
      BY <3>1, <3>2
  <2> QED
    BY <2>1, <2>2 DEF Journaled, l
<1> QED
  BY <1>6, <1>7 DEF more
(* A journaled operation between merges.                                   *)
LEMMA LoggedRefs ==
  ASSUME RInv, MInv, phase = "open", merging = NoMerge,
         NEW row \in Row, NEW m \in Memory, Log(row, m), Refs(m),
         UNCHANGED <<file, phase, merging>>,
         row.op # "MERGE", row.op = "CREATE" => row.id # InvalidId,
         RowKnown(mem, row),
         \A t \in Topics, id \in Nat :
           Known(m, t, id) => Known(mem, t, id) \/ Announces(row, t, id)
  PROVE  RInv'
<1> DEFINE rows == journal.rows
<1>1. mem' = m /\ journal' = [journal EXCEPT !.rows = Append(@, row)]
  BY DEF Log
<1>2. /\ journal \in [base : Memory \cup {NoFile}, rows : Seq(Row)]
      /\ mem \in Memory
  BY DEF MInv, MData
<1>3. rows \in Seq(Row) /\ journal' = [base |-> journal.base, rows |-> Append(rows, row)]
  BY <1>1, <1>2
<1>4. MemoryRefs'
  BY <1>1 DEF RInv, MemoryRefs, Merging
<1>5. ASSUME "Merge" \notin Ops
      PROVE  \A k \in DOMAIN journal'.rows : journal'.rows[k].op # "MERGE"
  <2>1. \A k \in DOMAIN rows : rows[k].op # "MERGE"
    BY <1>5 DEF RInv, JournalRefs
  <2>2. journal'.rows = Append(rows, row)
    BY <1>3
  <2>3. /\ DOMAIN Append(rows, row) = 1 .. (Len(rows) + 1)
        /\ DOMAIN rows = 1 .. Len(rows) /\ Len(rows) \in Nat
        /\ \A j \in 1 .. Len(rows) : Append(rows, row)[j] = rows[j]
        /\ Append(rows, row)[Len(rows) + 1] = row
    BY <1>3, MoreRows
  <2> HIDE DEF rows
  <2>4. \A k \in 1 .. (Len(rows) + 1) : k \in 1 .. Len(rows) \/ k = Len(rows) + 1
    BY <2>3
  <2> QED
    BY <2>1, <2>2, <2>3, <2>4
<1>6. ASSUME "Merge" \notin Ops, file # NoFile, journal.base = file
      PROVE  /\ RowsKnown(file, journal'.rows)
             /\ Journaled(m, file, journal'.rows)
  <2>1. RowsKnown(file, rows) /\ Journaled(mem, file, rows)
    BY <1>6 DEF RInv, JournalRefs
  <2>2. journal'.rows = Append(rows, row)
    BY <1>3
  <2> HIDE DEF rows
  <2> QED
    BY <1>2, <1>3, <2>1, <2>2, AppendedRows
<1>7. JournalRefs'
  <2>1. /\ file' = file /\ phase' = "open" /\ mem' = m
        /\ journal'.base = journal.base
    BY <1>1, <1>3
  <2> QED
    BY <1>5, <1>6, <2>1 DEF JournalRefs
<1> QED
  BY <1>4, <1>7 DEF RInv

(* One that is not journaled, and creates no child.                        *)
LEMMA QuietRefs ==
  ASSUME RInv, phase = "open", merging = NoMerge, Refs(mem'),
         UNCHANGED <<file, journal, phase, merging>>,
         \A t \in Topics, id \in Nat : Known(mem', t, id) => Known(mem, t, id)
  PROVE  RInv'
<1>1. MemoryRefs'
  BY DEF RInv, MemoryRefs, Merging
<1>2. ASSUME Journaled(mem, file, journal.rows) PROVE Journaled(mem', file, journal.rows)
  BY <1>2 DEF Journaled
<1>3. JournalRefs'
  BY <1>2 DEF RInv, JournalRefs
<1> QED
  BY <1>1, <1>3 DEF RInv

(* The ids of children are the ids below their number.                     *)
LEMMA IdsKnown ==
  ASSUME NEW m \in Memory, Placed(m), NEW t \in Topics, NEW id \in Ids(m.children[t])
  PROVE  id \in Nat /\ Known(m, t, id)
<1>1. PICK i \in DOMAIN m.children[t] : id = m.children[t][i].id
  BY DEF Ids
<1>2. m.children[t] \in Seq(Child) /\ m.children[t][i].id = i - 1
  BY MemoryParts DEF Placed, Sound, InPlace
<1>3. i - 1 \in Nat /\ i - 1 < Len(m.children[t])
  BY <1>2, SeqAt
<1> QED
  BY <1>1, <1>2, <1>3 DEF Known

(* A journaled operation whose row says all it does: it is the replay of   *)
(* that row.                                                               *)
LEMMA LoggedApplied ==
  ASSUME RInv, MInv, phase = "open", merging = NoMerge,
         NEW row \in Row, Log(row, Applied(mem, row)),
         UNCHANGED <<file, phase, merging>>,
         row.op # "MERGE", row.op = "CREATE" => row.id # InvalidId,
         RowKnown(mem, row), Applies(mem, row)
  PROVE  RInv'
<1>1. mem \in Memory /\ Placed(mem) /\ Refs(mem)
  BY DEF MInv, MData, RInv, MemoryRefs
<1> DEFINE m == Applied(mem, row)
<1>2. m \in Memory /\ Refs(m)
  BY <1>1, AppliedMemory, AppliedRefs
<1>3. \A t \in Topics, id \in Nat :
        Known(m, t, id) => Known(mem, t, id) \/ Announces(row, t, id)
  BY <1>1, AppliedKnown
<1> HIDE DEF m
<1> QED
  BY <1>2, <1>3, LoggedRefs DEF m

LEMMA CreateKeepsR ==
  ASSUME RInv, MInv, IdsFit, phase = "open", NEW t \in Topics, NEW n \in Names,
         Create_(t, n)
  PROVE  RInv'
<1> DEFINE id == CreatedId(mem.children[t], n)
           row == [op |-> "CREATE", topic |-> t, name |-> n, id |-> id]
<1>1. /\ merging = NoMerge /\ Len(mem.children[t]) < MaxKids
      /\ SearchIdsHighConfidence(mem.children[t], n) = {}
      /\ Log(row, CreateId(mem, t, n))
      /\ UNCHANGED <<file, phase, merging>>
  BY DEF Create_, Dialog
<1>2. mem \in Memory
  BY DEF MInv, MData
<1>3. id = Len(mem.children[t])
  BY <1>1, <1>2, CreateKnown
<1>4. id \in Nat /\ id # InvalidId
  <2>1. mem.children[t] \in Seq(Child)
    BY <1>2, MemoryParts
  <2> DEFINE l == Len(mem.children[t])
  <2>2. l \in Nat
    BY <2>1, LenProperties
  <2>3. l < MaxKids /\ id = l
    BY <1>1, <1>3
  <2>4. MaxKids \in Nat /\ MaxKids <= InvalidId /\ InvalidId \in Nat
    BY LedgerAssumption DEF IdsFit, InvalidId, LedgerAssumption
  <2> HIDE DEF id, l
  <2> QED
    BY <2>2, <2>3, <2>4
<1> HIDE DEF id
<1>5. row \in Row
  BY <1>4 DEF Row
<1>6. Applies(mem, row) /\ Applied(mem, row) = CreateId(mem, t, n) /\ RowKnown(mem, row)
  BY DEF Applies, Applied, RowKnown, id
<1>7. row.op = "CREATE" /\ row.id = id
  OBVIOUS
<1> HIDE DEF row
<1> QED
  BY <1>1, <1>4, <1>5, <1>6, <1>7, LoggedApplied

LEMMA KeywordKeepsR ==
  ASSUME RInv, MInv, phase = "open", NEW t \in Topics, NEW id \in Nat,
         NEW w \in Words, NEW d \in BOOLEAN, Keyword(t, id, w, d)
  PROVE  RInv'
<1> DEFINE row == [op |-> "KEYWORD", topic |-> t, id |-> id, word |-> w,
                   definitive |-> d]
<1>1. /\ merging = NoMerge /\ HasId(mem, t, id)
      /\ Log(row, AddKeywordTo(mem, t, id, w, d))
      /\ UNCHANGED <<file, phase, merging>>
  BY DEF Keyword, Dialog
<1>2. row \in Row
  BY DEF Row
<1>3. /\ Applies(mem, row) /\ Applied(mem, row) = AddKeywordTo(mem, t, id, w, d)
      /\ RowKnown(mem, row) /\ row.op = "KEYWORD"
  BY <1>1 DEF Applies, Applied, RowKnown
<1> HIDE DEF row
<1> QED
  BY <1>1, <1>2, <1>3, LoggedApplied

LEMMA RenameKeepsR ==
  ASSUME RInv, MInv, phase = "open", NEW t \in Topics \cup {"ACCOUNT"},
         NEW id \in Nat, NEW n \in Names, Rename_(t, id, n)
  PROVE  RInv'
<1> DEFINE row == [op |-> "RENAME", topic |-> t, id |-> id, name |-> n]
<1>1. /\ merging = NoMerge /\ HasId(mem, t, id) /\ MayRenameId(mem, t, id, n)
      /\ Log(row, RenameId(mem, t, id, n))
      /\ UNCHANGED <<file, phase, merging>>
  BY DEF Rename_, Idle
<1>2. row \in Row
  BY DEF Row
<1>3. /\ Applies(mem, row) /\ Applied(mem, row) = RenameId(mem, t, id, n)
      /\ RowKnown(mem, row) /\ row.op = "RENAME"
  BY <1>1 DEF Applies, Applied, RowKnown
<1> HIDE DEF row
<1> QED
  BY <1>1, <1>2, <1>3, LoggedApplied

LEMMA EditKeepsR ==
  ASSUME RInv, MInv, phase = "open", NEW a \in Nat, NEW p \in Nat, NEW field,
         NEW value, FieldValue(field, value), HasPosition(mem, a, p),
         field # "MEMO" => Known(mem, field, value),
         Edit(a, p, field, value)
  PROVE  RInv'
<1> DEFINE row == [op |-> "EDIT_TXN", account |-> a, position |-> p,
                   field |-> field, value |-> value]
<1>1. /\ merging = NoMerge
      /\ Log(row, EditTransaction(mem, a, p, field, value))
      /\ UNCHANGED <<file, phase, merging>>
  BY DEF Edit, Idle
<1>2. row \in Row
  BY EditRow
<1>3. /\ Applies(mem, row)
      /\ Applied(mem, row) = EditTransaction(mem, a, p, field, value)
      /\ RowKnown(mem, row) /\ row.op = "EDIT_TXN"
  BY DEF Applies, Applied, RowKnown
<1> HIDE DEF row
<1> QED
  BY <1>1, <1>2, <1>3, LoggedApplied

LEMMA CategorizeKeepsR ==
  ASSUME RInv, MInv, phase = "open", NEW a \in DOMAIN mem.accounts,
         NEW p \in Positions(mem.accounts[a].txns),
         {"CLIENT", "CATEGORY"} \subseteq Topics,
         NEW client \in Nat, NEW category \in Nat, NEW note \in Notes,
         Known(mem, "CLIENT", client), Known(mem, "CATEGORY", category),
         NEW found \in BOOLEAN,
         Categorize(a - 1, p, client, category, note, found)
  PROVE  RInv'
<1> DEFINE row == [op |-> "EDIT_TXN", account |-> a - 1, position |-> p,
                   field |-> "CATEGORY", value |-> category]
           moved == EditTransaction(mem, a - 1, p, "CLIENT", client)
           named == EditTransaction(moved, a - 1, p, "CATEGORY", category)
           after == EditTransaction(named, a - 1, p, "MEMO", note)
<1>1. /\ phase = "open" /\ merging = NoMerge
      /\ UNCHANGED <<file, phase, merging>>
      /\ \/ Log(row, after)
         \/ mem' = after /\ UNCHANGED journal
  BY DEF Categorize, Idle
<1>2. mem \in Memory /\ Placed(mem) /\ Refs(mem)
  BY <1>1 DEF MInv, MData, RInv, MemoryRefs
<1>3. a - 1 \in Nat /\ p \in Nat /\ HasAccount(mem, a - 1)
  BY <1>2, PlacesAreNumbers
<1>4. /\ FieldValue("CLIENT", client) /\ FieldValue("CATEGORY", category)
      /\ FieldValue("MEMO", note)
  BY DEF FieldValue
<1>5. row \in Row /\ row.op = "EDIT_TXN" /\ RowKnown(mem, row)
  <2>1. row \in Row
    BY <1>3, <1>4, EditRow
  <2> QED
    BY <2>1 DEF RowKnown
<1> HIDE DEF row
<1>6. /\ moved \in Memory /\ HasAccount(moved, a - 1) /\ Refs(moved)
      /\ moved.children = mem.children
  BY <1>2, <1>3, <1>4, EditMemory, EditHasAccount, RefsEdit, AccountsKnown
     DEF Known
<1> HIDE DEF moved
<1>7. /\ named \in Memory /\ HasAccount(named, a - 1) /\ Refs(named)
      /\ named.children = mem.children
  BY <1>3, <1>4, <1>6, EditMemory, EditHasAccount, RefsEdit, AccountsKnown
     DEF Known
<1> HIDE DEF named
<1>8. after \in Memory /\ Refs(after) /\ after.children = mem.children
  BY <1>3, <1>4, <1>7, EditMemory, RefsEdit, AccountsKnown
<1> HIDE DEF after
<1>9. \A t \in Topics, id \in Nat : Known(after, t, id) => Known(mem, t, id)
  BY <1>8 DEF Known
<1>10. CASE Log(row, after)
  BY <1>1, <1>5, <1>8, <1>9, <1>10, LoggedRefs
<1>11. CASE mem' = after /\ UNCHANGED journal
  BY <1>1, <1>8, <1>9, <1>11, QuietRefs
<1> QED
  BY <1>1, <1>10, <1>11

(* A merge: while it is under way the memory is halfway, and where a       *)
(* session can merge it cannot crash.                                      *)
LEMMA MergeKeepsR ==
  ASSUME IInv, MInv, RInv, MInv', [Next]_vars, phase = "open", phase' = "open",
         file' = file, merging' # NoMerge, "Merge" \in Ops, NoLostMerge
  PROVE  RInv'
<1>1. mem \in Memory
  BY DEF MInv, MData
<1>2. RefsInRange
  BY <1>1, RefsAgree DEF RefsInRange, Idle, RInv, MemoryRefs
<1>3. Merging'
  BY <1>2, NextMerging DEF RInv, MemoryRefs
<1>4. MemoryRefs'
  BY <1>3 DEF RInv, MemoryRefs, NoLostMerge
<1> QED
  BY <1>4 DEF RInv, JournalRefs

LEMMA MergeEndKeepsR ==
  ASSUME IInv, MInv, RInv, NoLostMerge, MergeEnd
  PROVE  RInv'
<1>1. /\ phase = "open" /\ merging # NoMerge /\ merging.todo = {}
      /\ merging' = NoMerge
      /\ UNCHANGED <<mem, file, journal, phase>>
  BY DEF MergeEnd
<1>2. /\ mem \in Memory /\ merging \in Merger
      /\ Halfway(merging, mem) /\ RefsIn(merging.before) /\ "Merge" \in Ops
  BY <1>1 DEF MInv, MData, MUnder, RInv, MemoryRefs, Merging
<1>3. Refs(mem)
  BY <1>1, <1>2, EndHalfway, RefsAgree
<1>4. MemoryRefs'
  BY <1>1, <1>2, <1>3 DEF RInv, MemoryRefs, Merging, NoLostMerge
<1> QED
  BY <1>2, <1>4 DEF RInv, JournalRefs

LEMMA PruneKeepsR ==
  ASSUME RInv, MInv, phase = "open", NEW a \in DOMAIN mem.accounts, NEW count \in Nat,
         Prune_(a - 1, count)
  PROVE  RInv'
<1>1. /\ mem' = WithTxns(mem, a - 1, Prune(TxnsOf(mem, a - 1), count))
      /\ merging = NoMerge /\ UNCHANGED <<file, journal, phase, merging>>
  BY DEF Prune_, Idle
<1>2. mem \in Memory /\ Refs(mem)
  BY <1>1 DEF MInv, MData, RInv, MemoryRefs
<1>3. a - 1 \in Nat /\ HasAccount(mem, a - 1)
  BY <1>2, PlacesAreNumbers
<1>4. Refs(mem') /\ mem'.children = mem.children
  BY <1>1, <1>2, <1>3, RefsCut, AccountsKnown
<1>5. \A t \in Topics, id \in Nat : Known(mem', t, id) => Known(mem, t, id)
  BY <1>4 DEF Known
<1> QED
  BY <1>1, <1>4, <1>5, QuietRefs

LEMMA StartImportKeepsR ==
  ASSUME RInv, MInv, phase = "open", NEW export \in Exports, NEW name \in Names,
         NEW typed \in Banks, StartImport(export, name, typed)
  PROVE  RInv'
<1> DEFINE id == AccountId(mem, export.number)
           row == [op |-> "ACCOUNT", id |-> id, number |-> export.number,
                   name |-> name, bank |-> typed]
           m == AddAccount(mem, export.number, name, export.bank)
<1>1. /\ merging = NoMerge /\ UNCHANGED <<file, phase, merging>>
      /\ \/ UNCHANGED <<mem, journal>>
         \/ Log(row, m)
  BY DEF StartImport, Idle
<1>2. /\ mem \in Memory /\ Refs(mem)
      /\ export \in [number : Numbers, bank : Banks,
                     rows : Seq([date : Nat, what : Whats])]
  BY <1>1, LedgerAssumption
     DEF MInv, MData, RInv, MemoryRefs, LedgerAssumption
<1>3. id \in Nat
  BY <1>2, AccountIdFacts
<1> HIDE DEF id
<1>4. row \in Row /\ row.op = "ACCOUNT" /\ RowKnown(mem, row)
  BY <1>2, <1>3 DEF Row, RowKnown
<1>5. m \in Memory /\ Refs(m) /\ m.children = mem.children
  BY <1>2, AddAccountMemory, RefsAccounts, AccountsKnown
<1> HIDE DEF row, m
<1>6. \A t \in Topics, k \in Nat : Known(m, t, k) => Known(mem, t, k)
  BY <1>5 DEF Known
<1>7. CASE Log(row, m)
  BY <1>1, <1>4, <1>5, <1>6, <1>7, LoggedRefs
<1>8. CASE UNCHANGED <<mem, journal>>
  BY <1>1, <1>2, <1>8, QuietRefs
<1> QED
  BY <1>1, <1>7, <1>8

LEMMA PrepareImportKeepsR ==
  ASSUME IInv, MInv, RInv, PrepareImport
  PROVE  RInv'
<1> DEFINE a == importing.account
           m == WithTxns(mem, a, KeptByImport(TxnsOf(mem, a), importing.todo[1].date))
<1>1. /\ phase = "open" /\ importing.on
      /\ UNCHANGED <<file, journal, phase, merging>>
      /\ mem' = m \/ mem' = mem
  BY DEF PrepareImport
<1>2. /\ merging = NoMerge /\ mem \in Memory
      /\ a \in Nat /\ HasAccount(mem, a)
  BY <1>1 DEF IInv, Underway, MInv, MData, MUnder, Importer
<1>3. Refs(mem)
  BY <1>1, <1>2 DEF RInv, MemoryRefs
<1>4. Refs(m) /\ m.children = mem.children
  BY <1>2, <1>3, RefsCut, AccountsKnown
<1> HIDE DEF m
<1>5. Refs(mem') /\ \A t \in Topics, id \in Nat : Known(mem', t, id) => Known(mem, t, id)
  BY <1>1, <1>3, <1>4 DEF Known
<1> QED
  BY <1>1, <1>2, <1>5, QuietRefs

LEMMA ImportRowKeepsR ==
  ASSUME IInv, MInv, RInv, NEW ids \in [Topics -> Nat], NEW note \in Notes,
         \A t \in Topics : Known(mem, t, ids[t]), ImportRow(ids, note)
  PROVE  RInv'
<1> DEFINE raw == importing.todo[1]
           a == importing.account
           txn == [date |-> raw.date, what |-> raw.what, ids |-> ids,
                   note |-> note]
           row == [op |-> "TRANSACTION", account |-> a, txn |-> txn]
<1>1. /\ phase = "open" /\ importing.on /\ importing.todo # <<>>
      /\ Log(row, AddTransaction(mem, a, txn))
      /\ UNCHANGED <<file, phase, merging>>
  BY DEF ImportRow
<1>2. /\ merging = NoMerge /\ importing \in Importer
      /\ a \in Nat /\ HasAccount(mem, a)
  BY <1>1 DEF IInv, Underway, MInv, MUnder, Importer
<1>3. raw \in [date : Nat, what : Whats]
  BY <1>1, <1>2, TodoFacts
<1> HIDE DEF raw, a
<1>4. txn \in Transaction /\ txn.ids = ids
  BY <1>3 DEF Transaction
<1> HIDE DEF txn
<1>5. row \in Row
  BY <1>2, <1>4 DEF Row
<1>6. /\ Applies(mem, row) /\ Applied(mem, row) = AddTransaction(mem, a, txn)
      /\ RowKnown(mem, row) /\ row.op = "TRANSACTION"
  BY <1>2, <1>4 DEF Applies, Applied, RowKnown
<1> HIDE DEF row
<1> QED
  BY <1>1, <1>2, <1>5, <1>6, LoggedApplied

LEMMA EndImportKeepsR ==
  ASSUME RInv, EndImport
  PROVE  RInv'
<1>1. UNCHANGED <<mem, file, journal, phase, merging, cursor>>
  BY DEF EndImport
<1> QED
  BY <1>1 DEF RInv, MemoryRefs, JournalRefs, Merging

(* Loading: the memory is what the file loads as, or empty.                *)
LEMMA LoadKeepsR ==
  ASSUME MInv, RInv, NEW j, LoadWith(j),
         \/ j = journal /\ phase = "closed"
         \/ j = NoJournal
  PROVE  RInv'
<1>1. merging' = NoMerge /\ file' = file
  BY DEF LoadWith
<1>2. <<>> \in Seq(Row) /\ DOMAIN <<>> = {} /\ Len(<<>>) = 0
  OBVIOUS
<1>3. file # NoFile => Refs(Loaded(file))
  BY DEF RInv, MemoryRefs
<1>4. Refs(EmptyMemory)
  <2>1. DOMAIN EmptyMemory.accounts = {}
    BY DEF EmptyMemory
  <2> QED
    BY <2>1 DEF Refs
<1>5. "Merge" \notin Ops => \A k \in DOMAIN j.rows : j.rows[k].op # "MERGE"
  BY <1>2 DEF RInv, JournalRefs, NoJournal
<1>6. CASE file = NoFile
  <2>1. mem' = EmptyMemory /\ phase' = "open" /\ journal' = j
    BY <1>6 DEF LoadWith
  <2>2. MemoryRefs'
    BY <1>1, <1>4, <1>6, <2>1 DEF MemoryRefs, Merging
  <2>3. JournalRefs'
    BY <1>1, <1>5, <1>6, <2>1 DEF JournalRefs
  <2> QED
    BY <2>2, <2>3 DEF RInv
<1>7. CASE file # NoFile /\ j.base = file /\ j.rows # <<>>
  <2>1. mem' = Loaded(file) /\ phase' = "offer" /\ journal' = j
    BY <1>7 DEF LoadWith
  <2>2. j = journal /\ phase = "closed" /\ "Crash" \in Ops
    BY <1>7 DEF RInv, MemoryRefs, NoJournal
  <2>3. MemoryRefs'
    BY <1>1, <1>3, <1>7, <2>1, <2>2 DEF RInv, MemoryRefs, Merging
  <2>4. JournalRefs'
    BY <1>1, <1>7, <2>1, <2>2 DEF RInv, JournalRefs
  <2> QED
    BY <2>3, <2>4 DEF RInv
<1>8. CASE file # NoFile /\ ~(j.base = file /\ j.rows # <<>>)
  <2>1. /\ mem' = Loaded(file) /\ phase' = "open"
        /\ journal' = [base |-> file, rows |-> <<>>]
    BY <1>8 DEF LoadWith
  <2>2. MemoryRefs'
    BY <1>1, <1>3, <1>8, <2>1 DEF MemoryRefs, Merging
  <2>3. RowsKnown(file, <<>>) /\ Journaled(mem', file, <<>>)
    BY <1>2, <2>1 DEF RowsKnown, Journaled, Announced
  <2>4. JournalRefs'
    BY <1>1, <1>2, <2>1, <2>3 DEF JournalRefs
  <2> QED
    BY <2>2, <2>4 DEF RInv
<1> QED
  BY <1>6, <1>7, <1>8

(* The prompt: both answers go on from what the file loads as.             *)
LEMMA AnswerKeepsR ==
  ASSUME IInv, MInv, RInv, Accept \/ Decline
  PROVE  RInv'
<1>1. /\ phase = "offer" /\ phase' \in {"open", "replaying"}
      /\ UNCHANGED <<mem, file, journal, cursor, merging>>
  BY DEF Accept, Decline
<1>2. cursor = 0 /\ merging = NoMerge /\ Len(journal.rows) \in Nat
  BY <1>1, LenProperties DEF IInv, Types, Underway, MInv, MData
<1>3. mem = Loaded(file) /\ file # NoFile /\ journal.base = file /\ "Crash" \in Ops
  BY <1>1 DEF RInv, MemoryRefs
<1>4. MemoryRefs'
  BY <1>1, <1>2, <1>3 DEF RInv, MemoryRefs, Merging
<1>5. Replayed(mem, file, journal.rows, 0)
  BY <1>3, ReachedFirst DEF Replayed, Announced
<1>6. Journaled(mem, file, journal.rows)
  BY <1>3 DEF Journaled, Announced
<1>7. JournalRefs'
  BY <1>1, <1>2, <1>3, <1>5, <1>6 DEF RInv, JournalRefs
<1> QED
  BY <1>4, <1>7 DEF RInv

(* What holds while the journal is replayed.                               *)
LEMMA ReplayingFacts ==
  ASSUME MInv, RInv, IInv, NoLostMerge, phase = "replaying"
  PROVE  /\ "Merge" \notin Ops /\ "Crash" \in Ops /\ merging = NoMerge
         /\ mem \in Memory /\ Placed(mem) /\ Refs(mem)
         /\ file # NoFile /\ journal.base = file
         /\ \A k \in DOMAIN journal.rows : journal.rows[k].op # "MERGE"
         /\ RowsKnown(file, journal.rows)
         /\ Reached(file, journal.rows, cursor, mem)
         /\ \A t \in Topics, id \in Nat :
              Known(mem, t, id) <=> Announced(file, journal.rows, cursor, t, id)
         /\ journal.rows \in Seq(Row) /\ Len(journal.rows) \in Nat
         /\ DOMAIN journal.rows = 1 .. Len(journal.rows)
         /\ cursor \in Nat
<1>1. merging = NoMerge
  BY DEF IInv, Underway
<1>2. /\ "Crash" \in Ops /\ file # NoFile /\ journal.base = file /\ Refs(mem)
  BY <1>1 DEF RInv, MemoryRefs
<1>3. "Merge" \notin Ops
  BY <1>2 DEF NoLostMerge
<1>4. /\ \A k \in DOMAIN journal.rows : journal.rows[k].op # "MERGE"
      /\ RowsKnown(file, journal.rows)
      /\ Replayed(mem, file, journal.rows, cursor)
  BY <1>2, <1>3 DEF RInv, JournalRefs
<1>5. /\ mem \in Memory /\ Placed(mem) /\ journal.rows \in Seq(Row)
      /\ cursor \in 0 .. Len(journal.rows)
  BY DEF MInv, MData
<1>6. Len(journal.rows) \in Nat /\ DOMAIN journal.rows = 1 .. Len(journal.rows)
  BY <1>5, LenProperties
<1> QED
  BY <1>1, <1>2, <1>3, <1>4, <1>5, <1>6 DEF Replayed

LEMMA ReplayRowKeepsR ==
  ASSUME IInv, MInv, RInv, NoLostMerge, ReplayRow
  PROVE  RInv'
<1> DEFINE rows == journal.rows
           k == cursor + 1
           row == rows[k]
           l == Len(rows)
<1>1. /\ phase = "replaying" /\ cursor < l /\ Applies(mem, row)
      /\ mem' = Applied(mem, row) /\ cursor' = cursor + 1
      /\ UNCHANGED <<file, journal, phase, merging>>
  BY DEF ReplayRow
<1>2. /\ "Merge" \notin Ops /\ "Crash" \in Ops /\ merging = NoMerge
      /\ mem \in Memory /\ Placed(mem) /\ Refs(mem)
      /\ file # NoFile /\ journal.base = file
      /\ \A i \in DOMAIN rows : rows[i].op # "MERGE"
      /\ RowsKnown(file, rows)
      /\ Reached(file, rows, cursor, mem)
      /\ \A t \in Topics, id \in Nat :
           Known(mem, t, id) <=> Announced(file, rows, cursor, t, id)
      /\ rows \in Seq(Row) /\ l \in Nat /\ DOMAIN rows = 1 .. l
      /\ cursor \in Nat
  BY <1>1, ReplayingFacts
<1> HIDE DEF l
<1>3. k \in 1 .. l /\ k - 1 = cursor
  BY <1>1, <1>2
<1>4. row \in Row /\ row.op # "MERGE"
  BY <1>2, <1>3, SeqAt
<1>5. RowSane(file, rows, k)
  <2>1. ~Stopped(file, rows, cursor)
    BY <1>2, NotStopped
  <2>2. Stopped(file, rows, k - 1) \/ RowSane(file, rows, k)
    BY <1>2, <1>3 DEF RowsKnown
  <2> QED
    BY <1>3, <2>1, <2>2
<1>6. RowKnown(mem, row) /\ (row.op = "CREATE" => row.id # InvalidId)
  <2>1. row.op = "TRANSACTION" => \A t \in Topics : row.txn.ids[t] \in Nat
    BY <1>4, RowFacts DEF Transaction
  <2>2. row.op = "EDIT_TXN" /\ row.field # "MEMO" =>
          row.field \in Topics /\ row.value \in Nat
    BY <1>4, RowFacts DEF FieldValue
  <2>3. /\ row.op = "CREATE" => row.id # InvalidId
        /\ row.op = "TRANSACTION" =>
             \A t \in Topics : Announced(file, rows, cursor, t, row.txn.ids[t])
        /\ row.op = "EDIT_TXN" /\ row.field # "MEMO" =>
             Announced(file, rows, cursor, row.field, row.value)
    BY <1>3, <1>5 DEF RowSane
  <2> HIDE DEF row, rows
  <2> QED
    BY <1>2, <2>1, <2>2, <2>3 DEF RowKnown
<1>7. Reached(file, rows, k, mem')
  <2>1. Reached(file, rows, cursor + 1, Applied(mem, rows[cursor + 1]))
    BY <1>1, <1>2, ReachedNext
  <2> QED
    BY <1>1, <2>1
<1>8. ASSUME NEW t \in Topics, NEW id \in Nat
      PROVE  Known(mem', t, id) <=> Announced(file, rows, k, t, id)
  <2>1. Known(mem', t, id) <=> Known(mem, t, id) \/ Announces(row, t, id)
    <3> HIDE DEF row
    <3> QED
      BY <1>1, <1>2, <1>4, <1>6, AppliedKnown
  <2>2. Known(mem, t, id) <=> Announced(file, rows, cursor, t, id)
    BY <1>2
  <2>3. 1 .. k = (1 .. cursor) \cup {k}
    BY <1>2
  <2> HIDE DEF k, rows
  <2>4. Announced(file, rows, k, t, id)
          <=> Announced(file, rows, cursor, t, id) \/ Announces(rows[k], t, id)
    BY <2>3 DEF Announced
  <2> QED
    BY <2>1, <2>2, <2>4
<1>9. Refs(mem')
  <2> HIDE DEF row
  <2> QED
    BY <1>1, <1>2, <1>4, <1>6, AppliedRefs
<1>10. MemoryRefs'
  BY <1>1, <1>2, <1>9 DEF RInv, MemoryRefs, Merging
<1>11. Replayed(mem', file, rows, k)
  BY <1>7, <1>8 DEF Replayed
<1>12. JournalRefs'
  BY <1>1, <1>2, <1>11 DEF JournalRefs
<1> QED
  BY <1>10, <1>12 DEF RInv

LEMMA ReplayStopsKeepsR ==
  ASSUME IInv, MInv, RInv, NoLostMerge, ReplayStops
  PROVE  RInv'
<1> DEFINE rows == journal.rows
           k == cursor + 1
           row == rows[k]
           l == Len(rows)
<1>1. /\ phase = "replaying" /\ cursor < l /\ ~Applies(mem, row)
      /\ UNCHANGED <<file, journal, merging>>
      /\ \/ phase' = "closed"
         \/ /\ phase' = "open"
            /\ mem' = IF row.op \in {"CREATE", "ACCOUNT"}
                        THEN Applied(mem, row) ELSE mem
  BY DEF ReplayStops
<1>2. /\ "Merge" \notin Ops /\ "Crash" \in Ops /\ merging = NoMerge
      /\ mem \in Memory /\ Placed(mem) /\ Refs(mem)
      /\ file # NoFile /\ journal.base = file
      /\ \A i \in DOMAIN rows : rows[i].op # "MERGE"
      /\ RowsKnown(file, rows)
      /\ Reached(file, rows, cursor, mem)
      /\ rows \in Seq(Row) /\ l \in Nat /\ DOMAIN rows = 1 .. l
      /\ cursor \in Nat
  BY <1>1, ReplayingFacts
<1>3. Stopped(file, rows, l)
  <2> HIDE DEF l
  <2>1. k \in 1 .. l /\ k - 1 = cursor
    BY <1>1, <1>2
  <2> QED
    BY <1>1, <1>2, <2>1 DEF Stopped
<1>4. row \in Row /\ row.op # "MERGE"
  <2> HIDE DEF l
  <2>1. k \in 1 .. l
    BY <1>1, <1>2
  <2> QED
    BY <1>2, <2>1, SeqAt
<1>5. phase' = "open" => Refs(mem')
  <2>1. row.op \in {"CREATE", "ACCOUNT"} => RowKnown(mem, row)
    BY DEF RowKnown
  <2> HIDE DEF row
  <2>2. row.op \in {"CREATE", "ACCOUNT"} => Refs(Applied(mem, row))
    BY <1>2, <1>4, <2>1, AppliedRefs
  <2> QED
    BY <1>1, <1>2, <2>2
<1>6. MemoryRefs'
  BY <1>1, <1>2, <1>5 DEF RInv, MemoryRefs, Merging
<1>7. Journaled(mem', file, rows)
  BY <1>3 DEF Journaled
<1>8. JournalRefs'
  BY <1>1, <1>2, <1>7 DEF JournalRefs
<1> QED
  BY <1>6, <1>8 DEF RInv

LEMMA ReplayDoneKeepsR ==
  ASSUME IInv, MInv, RInv, NoLostMerge, ReplayDone
  PROVE  RInv'
<1>1. /\ phase = "replaying" /\ cursor = Len(journal.rows)
      /\ UNCHANGED <<file, journal, merging>>
      /\ \/ phase' = "open" /\ UNCHANGED mem
         \/ phase' = "closed"
  BY DEF ReplayDone
<1>2. /\ "Merge" \notin Ops /\ "Crash" \in Ops /\ merging = NoMerge
      /\ Refs(mem) /\ file # NoFile /\ journal.base = file
      /\ \A i \in DOMAIN journal.rows : journal.rows[i].op # "MERGE"
      /\ RowsKnown(file, journal.rows)
      /\ \A t \in Topics, id \in Nat :
           Known(mem, t, id) <=> Announced(file, journal.rows, cursor, t, id)
  BY <1>1, ReplayingFacts
<1>3. MemoryRefs'
  BY <1>1, <1>2 DEF RInv, MemoryRefs, Merging
<1>4. phase' = "open" => Journaled(mem', file, journal.rows)
  BY <1>1, <1>2 DEF Journaled
<1>5. JournalRefs'
  BY <1>1, <1>2, <1>4 DEF JournalRefs
<1> QED
  BY <1>3, <1>5 DEF RInv

LEMMA SaveKeepsR ==
  ASSUME MInv, RInv, phase = "open", Save
  PROVE  RInv'
<1>1. /\ file' = Stored(mem) /\ journal' = [base |-> file', rows |-> <<>>]
      /\ merging = NoMerge /\ UNCHANGED <<mem, phase, merging>>
  BY DEF Save, Idle
<1>2. mem \in Memory /\ Placed(mem) /\ Refs(mem)
  BY <1>1 DEF MInv, MData, RInv, MemoryRefs
<1>3. Refs(Loaded(file'))
  BY <1>1, <1>2, RefsStored
<1>4. MemoryRefs'
  BY <1>1, <1>2, <1>3 DEF RInv, MemoryRefs, Merging
<1>5. Len(<<>>) = 0 /\ DOMAIN <<>> = {}
  OBVIOUS
<1>6. \A t \in Topics : Len(Loaded(file').children[t]) = Len(mem.children[t])
  BY <1>1, <1>2, RefsStored
<1>7. RowsKnown(file', <<>>) /\ Journaled(mem', file', <<>>)
  BY <1>1, <1>5, <1>6 DEF RowsKnown, Journaled, Announced, Known
<1>8. JournalRefs'
  BY <1>1, <1>5, <1>7 DEF JournalRefs
<1> QED
  BY <1>4, <1>8 DEF RInv

LEMMA ExitKeepsR ==
  ASSUME MInv, RInv, phase = "open", NEW save \in BOOLEAN, Exit(save)
  PROVE  RInv'
<1>1. /\ file' = Stored(mem) \/ file' = file
      /\ journal' = NoJournal /\ phase' = "closed"
      /\ merging = NoMerge /\ UNCHANGED merging
  BY DEF Exit, Idle
<1>2. mem \in Memory /\ Placed(mem) /\ Refs(mem)
  BY <1>1 DEF MInv, MData, RInv, MemoryRefs
<1>3. file' # NoFile => Refs(Loaded(file'))
  BY <1>1, <1>2, RefsStored DEF RInv, MemoryRefs
<1>4. MemoryRefs'
  BY <1>1, <1>3 DEF RInv, MemoryRefs, Merging
<1>5. journal'.base = NoFile /\ DOMAIN journal'.rows = {}
  BY <1>1 DEF NoJournal
<1>6. JournalRefs'
  BY <1>5 DEF JournalRefs
<1> QED
  BY <1>4, <1>6 DEF RInv

LEMMA CrashKeepsR ==
  ASSUME RInv, Crash
  PROVE  RInv'
<1>1. /\ phase' = "closed" /\ merging' = NoMerge /\ "Crash" \in Ops
      /\ UNCHANGED <<file, journal>>
  BY DEF Crash
<1>2. MemoryRefs'
  BY <1>1 DEF RInv, MemoryRefs, Merging
<1>3. JournalRefs'
  BY <1>1 DEF RInv, JournalRefs
<1> QED
  BY <1>2, <1>3 DEF RInv

-----------------------------------------------------------------------------
(* It holds at first where the files do, and every action keeps it.        *)
RefsAtFirst == \A f \in InitFiles \ {NoFile} : RefsIn(Loaded(f))

LEMMA InitRInv ==
  ASSUME RefsAtFirst, Init
  PROVE  RInv
<1>1. /\ phase = "closed" /\ merging = NoMerge /\ journal = NoJournal
      /\ file # NoFile => file \in InitFiles \ {NoFile} /\ file \in Memory
  BY LedgerAssumption DEF Init, LedgerAssumption
<1>2. file # NoFile => Refs(Loaded(file))
  <2>1. file # NoFile => RefsIn(Loaded(file)) /\ Loaded(file) \in Memory
    BY <1>1, LoadedMemory DEF RefsAtFirst
  <2> QED
    BY <2>1, RefsAgree
<1>3. journal.base = NoFile /\ DOMAIN journal.rows = {}
  BY <1>1 DEF NoJournal
<1>4. MemoryRefs
  BY <1>1, <1>2 DEF MemoryRefs, Merging
<1>5. JournalRefs
  BY <1>3 DEF JournalRefs
<1> QED
  BY <1>4, <1>5 DEF RInv

LEMMA NextRInv ==
  ASSUME NoLostMerge, IdsFit, IInv, MInv, RInv, MInv', [Next]_vars
  PROVE  RInv'
<1>m. phase = "open" => mem \in Memory /\ Placed(mem)
  BY DEF MInv, MData
<1>1. CASE phase = "open" /\ OnChildren
  <2>1. PICK t \in Topics :
          \/ \E n \in Names : Create_(t, n)
          \/ \E id \in Ids(mem.children[t]) :
               \/ \E w \in Words, d \in BOOLEAN : Keyword(t, id, w, d)
               \/ \E n \in Names : Rename_(t, id, n)
               \/ \E others \in SUBSET Ids(mem.children[t]) :
                    StartMerge(t, others, id)
    BY <1>1 DEF OnChildren
  <2>2. Ids(mem.children[t]) \subseteq Nat
    BY <1>1, <1>m, IdsAreNumbers
  <2>3. ASSUME NEW id \in Ids(mem.children[t]),
               NEW others \in SUBSET Ids(mem.children[t]),
               StartMerge(t, others, id)
        PROVE  RInv'
    <3>1. phase' = "open" /\ file' = file /\ "Merge" \in Ops
      BY <1>1, <2>3 DEF StartMerge
    <3>2. merging' = NoMerge => FALSE
      <4>1. merging'.froms = others \ {id} /\ "froms" \in DOMAIN merging'
        BY <2>3 DEF StartMerge
      <4> QED
        BY <4>1 DEF NoMerge
    <3> QED
      BY <1>1, <3>1, <3>2, MergeKeepsR
  <2> QED
    BY <1>1, <2>1, <2>2, <2>3, CreateKeepsR, KeywordKeepsR, RenameKeepsR
<1>2. CASE phase = "open" /\ OnAccounts
  <2>1. PICK a \in DOMAIN mem.accounts :
          \/ \E n \in Names : Rename_("ACCOUNT", a - 1, n)
          \/ \E c \in 1 .. MaxTxns : Prune_(a - 1, c)
          \/ \E p \in Positions(mem.accounts[a].txns) :
               \/ \E t \in Topics : \E id \in Ids(mem.children[t]) :
                    Edit(a - 1, p, t, id)
               \/ \E note \in Notes : Edit(a - 1, p, "MEMO", note)
               \/ /\ {"CLIENT", "CATEGORY"} \subseteq Topics
                  /\ \E client \in Ids(mem.children["CLIENT"]),
                        category \in Ids(mem.children["CATEGORY"]),
                        note \in Notes, found \in BOOLEAN :
                       Categorize(a - 1, p, client, category, note, found)
    BY <1>2 DEF OnAccounts
  <2>0. /\ a - 1 \in Nat /\ HasAccount(mem, a - 1)
        /\ TxnsOf(mem, a - 1) = mem.accounts[a].txns
        /\ Positions(mem.accounts[a].txns) \subseteq Nat
    BY <1>2, <1>m, PlacesAreNumbers
  <2>2. CASE \E n \in Names : Rename_("ACCOUNT", a - 1, n)
    BY <1>2, <2>0, <2>2, RenameKeepsR
  <2>3. CASE \E c \in 1 .. MaxTxns : Prune_(a - 1, c)
    <3>1. \A c \in 1 .. MaxTxns : c \in Nat
      BY LedgerAssumption DEF LedgerAssumption
    <3> QED
      BY <1>2, <2>3, <3>1, PruneKeepsR
  <2>4. ASSUME NEW p \in Positions(mem.accounts[a].txns), NEW t \in Topics,
               NEW id \in Ids(mem.children[t]), Edit(a - 1, p, t, id)
        PROVE  RInv'
    <3>1. FieldValue(t, id) /\ Known(mem, t, id)
      BY <1>2, <1>m, IdsKnown DEF FieldValue
    <3>2. HasPosition(mem, a - 1, p) /\ p \in Nat
      BY <2>0 DEF HasPosition
    <3> QED
      BY <1>2, <2>0, <2>4, <3>1, <3>2, EditKeepsR
  <2>5. ASSUME NEW p \in Positions(mem.accounts[a].txns), NEW note \in Notes,
               Edit(a - 1, p, "MEMO", note)
        PROVE  RInv'
    <3>1. FieldValue("MEMO", note)
      BY DEF FieldValue
    <3>2. HasPosition(mem, a - 1, p) /\ p \in Nat
      BY <2>0 DEF HasPosition
    <3> QED
      BY <1>2, <2>0, <2>5, <3>1, <3>2, EditKeepsR
  <2>6. ASSUME NEW p \in Positions(mem.accounts[a].txns),
               {"CLIENT", "CATEGORY"} \subseteq Topics,
               NEW client \in Ids(mem.children["CLIENT"]),
               NEW category \in Ids(mem.children["CATEGORY"]),
               NEW note \in Notes, NEW found \in BOOLEAN,
               Categorize(a - 1, p, client, category, note, found)
        PROVE  RInv'
    <3>1. /\ client \in Nat /\ category \in Nat
          /\ Known(mem, "CLIENT", client) /\ Known(mem, "CATEGORY", category)
      BY <1>2, <1>m, <2>6, IdsKnown
    <3> QED
      BY <1>2, <2>6, <3>1, CategorizeKeepsR
  <2> QED
    BY <2>1, <2>2, <2>3, <2>4, <2>5, <2>6
<1>3. CASE phase = "open" /\ OnImport
  <2>1. CASE \E export \in Exports, n \in Names, b \in Banks :
               StartImport(export, n, b)
    BY <1>3, <2>1, StartImportKeepsR
  <2>2. ASSUME NEW ids \in [Topics -> UNION {Ids(mem.children[t]) : t \in Topics}],
               NEW note \in Notes,
               \A t \in Topics : ids[t] \in Ids(mem.children[t]),
               ImportRow(ids, note)
        PROVE  RInv'
    <3>1. \A t \in Topics : ids[t] \in Nat /\ Known(mem, t, ids[t])
      BY <1>3, <1>m, <2>2, IdsKnown
    <3>2. ids \in [Topics -> Nat]
      BY <2>2, <3>1
    <3> QED
      BY <2>2, <3>1, <3>2, ImportRowKeepsR
  <2>3. CASE PrepareImport
    BY <2>3, PrepareImportKeepsR
  <2>4. CASE EndImport
    BY <2>4, EndImportKeepsR
  <2> QED
    BY <1>3, <2>1, <2>2, <2>3, <2>4 DEF OnImport
<1>4. CASE MergeNext
  <2>1. /\ phase = "open" /\ merging # NoMerge /\ phase' = "open" /\ file' = file
        /\ \E place \in merging.todo :
             merging' = [merging EXCEPT !.todo = @ \ {place}]
    BY <1>4 DEF MergeNext
  <2>2. merging \in Merger /\ "Merge" \in Ops
    BY <2>1 DEF MInv, MUnder, RInv, MemoryRefs
  <2>3. "froms" \in DOMAIN merging'
    BY <2>1, <2>2 DEF Merger
  <2>4. merging' # NoMerge
    BY <2>3 DEF NoMerge
  <2> QED
    BY <2>1, <2>2, <2>4, MergeKeepsR
<1>5. CASE MergeEnd
  BY <1>5, MergeEndKeepsR
<1>6. CASE phase = "open" /\ (Save \/ \E save \in BOOLEAN : Exit(save))
  BY <1>6, SaveKeepsR, ExitKeepsR
<1>7. CASE Start
  BY <1>7, LoadKeepsR DEF Start
<1>8. CASE Discard
  BY <1>8, LoadKeepsR DEF Discard, Idle
<1>9. CASE Accept \/ Decline
  BY <1>9, AnswerKeepsR
<1>10. CASE ReplayRow \/ ReplayStops \/ ReplayDone \/ Crash
  BY <1>10, ReplayRowKeepsR, ReplayStopsKeepsR, ReplayDoneKeepsR, CrashKeepsR
<1>11. CASE UNCHANGED vars
  BY <1>11 DEF vars, RInv, MemoryRefs, JournalRefs, Merging, Halfway
<1> QED
  BY <1>1, <1>2, <1>3, <1>4, <1>5, <1>6, <1>7, <1>8, <1>9, <1>10, <1>11
     DEF Next, Running

(* Every id of every transaction names a child outside a merge, through    *)
(* imports, renames, crashes, refused and accepted recoveries and saves:   *)
(* nothing that is printed throws (Account::StreamOut() and every use of   *)
(* the managers' GetName()). The journal may hold merges or the session    *)
(* may crash, not both: MCLedger_bad_merge_crash.cfg shows what happens    *)
(* then.                                                                   *)
THEOREM RefsStayInRange ==
  ASSUME NoLostMerge, IdsFit, RefsAtFirst
  PROVE  Spec => []RefsInRange
<1>1. Init => RInv
  BY InitRInv
<1>2. IInv /\ MInv /\ RInv /\ MInv' /\ [Next]_vars => RInv'
  BY NextRInv
<1>3. MInv /\ RInv => RefsInRange
  <2> SUFFICES ASSUME MInv, RInv, Idle PROVE RefsIn(mem)
    BY DEF RefsInRange
  <2>1. phase = "open" /\ merging = NoMerge
    BY DEF Idle
  <2>2. mem \in Memory /\ Refs(mem)
    BY <2>1 DEF MInv, MData, RInv, MemoryRefs
  <2> QED
    BY <2>2, RefsAgree
<1> QED
  BY <1>1, <1>2, <1>3, InvariantHolds, MemoryInvariantHolds, PTL DEF Spec

(* So a merge keeps every transaction's meaning wherever the session that  *)
(* merges cannot be cut short.                                             *)
THEOREM MergesAreSound ==
  ASSUME NoLostMerge, IdsFit, RefsAtFirst
  PROVE  Spec => []MergeKeepsMeaning
<1>1. Spec => []RefsInRange
  BY RefsStayInRange
<1> QED
  BY <1>1, MergesKeepMeaning, PTL

=============================================================================
