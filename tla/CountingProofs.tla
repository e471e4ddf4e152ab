--------------------------- MODULE CountingProofs ---------------------------
(***************************************************************************)
(* Facts about counting that the proofs share: about finite sets of        *)
(* naturals, for the naming (resolve_collision gives the n-th file of a    *)
(* name the n-th free suffix), and about what a queue holds, for the       *)
(* retries.                                                                *)
(***************************************************************************)
EXTENDS Integers, FiniteSets, Sequences, Functions, FiniteSetTheorems, WellFoundedInduction, TLAPS

\* A set of naturals that is not empty has a least element.
LEMMA LeastExists ==
  ASSUME NEW S \in SUBSET Nat, S # {}
  PROVE  \E m \in S : \A n \in S : m <= n
<1> DEFINE Below(n) == 0..(n - 1)
           T == {Below(n) : n \in S}
<1>1. T \subseteq FiniteSubsetsOf(Nat)
  <2> SUFFICES ASSUME NEW n \in S PROVE Below(n) \in FiniteSubsetsOf(Nat)
    OBVIOUS
  <2>1. n \in Nat BY DEF FiniteSubsetsOf
  <2>2. IsFiniteSet(Below(n)) BY <2>1, FS_Interval
  <2>3. Below(n) \subseteq Nat BY <2>1
  <2> QED BY <2>2, <2>3 DEF FiniteSubsetsOf
<1>2. \E x \in T : \A y \in T : <<y, x>> \notin StrictSubsetOrdering(Nat)
  <2>1. T # {} OBVIOUS
  <2>2. IsWellFoundedOn(StrictSubsetOrdering(Nat), FiniteSubsetsOf(Nat))
    BY FS_StrictSubsetOrderingWellFounded
  <2> HIDE DEF T
  <2> QED BY <1>1, <2>1, <2>2, WFMin
<1>3. PICK m \in S : \A y \in T : <<y, Below(m)>> \notin StrictSubsetOrdering(Nat)
  BY <1>2
<1>4. ASSUME NEW n \in S, n < m PROVE FALSE
  <2>1. <<Below(n), Below(m)>> \notin StrictSubsetOrdering(Nat) BY <1>3
  <2>2. Below(n) \subseteq Below(m) BY <1>4
  <2>3. n \in Below(m) /\ n \notin Below(n) BY <1>4
  <2> QED BY <2>1, <2>2, <2>3 DEF StrictSubsetOrdering
<1> QED BY <1>4

\* Below any bound, each rank up to the size of the set is the rank of an element.
LEMMA RankExists ==
  ASSUME NEW N \in Nat, NEW F \in SUBSET (0..N), NEW m \in Nat, m < Cardinality(F)
  PROVE  \E d \in F : Cardinality({k \in F : k < d}) = m
<1> DEFINE Below(n) == {k \in F : k < n}
           rank == [n \in Nat |-> Cardinality(Below(n))]
           T == {n \in Nat : m < rank[n]}
<1>0. F \subseteq Nat /\ \A k \in F : k <= N OBVIOUS
<1>1. IsFiniteSet(F) BY <1>0, FS_BoundedSetOfNaturals
<1>2. \A n \in Nat : IsFiniteSet(Below(n)) /\ rank[n] \in Nat
  <2> SUFFICES ASSUME NEW n \in Nat PROVE IsFiniteSet(Below(n)) /\ rank[n] \in Nat
    OBVIOUS
  <2>1. Below(n) \in SUBSET F OBVIOUS
  <2>2. IsFiniteSet(Below(n)) BY <1>1, <2>1, FS_Subset
  <2>3. Cardinality(Below(n)) \in Nat BY <2>2, FS_CardinalityType
  <2> QED BY <2>2, <2>3
<1>3. rank[0] = 0
  <2>1. \A k \in F : ~(k < 0) BY <1>0
  <2>2. Below(0) = {} BY <2>1
  <2> QED BY <2>2, FS_EmptySet
<1>4. rank[N + 1] = Cardinality(F)
  <2>1. \A k \in F : k < N + 1 BY <1>0
  <2>2. Below(N + 1) = F BY <2>1
  <2>3. rank[N + 1] = Cardinality(Below(N + 1)) OBVIOUS
  <2> QED BY <2>2, <2>3
<1>5. ASSUME NEW n \in Nat PROVE rank[n + 1] = IF n \in F THEN rank[n] + 1 ELSE rank[n]
  <2>0. \A k \in F : k < n + 1 <=> k < n \/ k = n BY <1>0
  <2>1. Below(n + 1) = IF n \in F THEN Below(n) \cup {n} ELSE Below(n)
    BY <2>0, Zenon
  <2>2. n \notin Below(n) OBVIOUS
  <2>3. IsFiniteSet(Below(n)) BY <1>2
  <2>4. rank[n + 1] = Cardinality(Below(n + 1)) /\ rank[n] = Cardinality(Below(n))
    OBVIOUS
  <2> HIDE DEF Below, rank
  <2>5. Cardinality(Below(n) \cup {n}) = Cardinality(Below(n)) + 1
    BY <2>2, <2>3, FS_AddElement
  <2> QED BY <2>1, <2>4, <2>5
<1>6. \A n \in Nat : rank[n] = Cardinality({k \in F : k < n}) OBVIOUS
<1> HIDE DEF rank, Below
<1>7. T \subseteq Nat /\ T # {} BY <1>4
<1>8. PICK n \in T : \A l \in T : n <= l BY <1>7, LeastExists
<1>9. n # 0 BY <1>3, <1>8
<1>10. n - 1 \in Nat /\ n - 1 \notin T BY <1>8, <1>9
<1>11. rank[n - 1] <= m /\ rank[n - 1] \in Nat BY <1>2, <1>10
<1>12. rank[n] = IF n - 1 \in F THEN rank[n - 1] + 1 ELSE rank[n - 1]
  <2>1. (n - 1) + 1 = n BY <1>8
  <2> QED BY <1>5, <1>10, <2>1
<1>13. n - 1 \in F /\ rank[n - 1] = m BY <1>8, <1>11, <1>12
<1> QED BY <1>6, <1>10, <1>13

\* A subset that misses an element is smaller.
LEMMA SmallerWithout ==
  ASSUME NEW S, IsFiniteSet(S), NEW T, T \subseteq S, NEW x \in S, x \notin T
  PROVE  /\ IsFiniteSet(T)
         /\ Cardinality(T) \in Nat /\ Cardinality(S) \in Nat
         /\ Cardinality(T) < Cardinality(S)
<1>1. IsFiniteSet(T) /\ Cardinality(T) <= Cardinality(S) /\ Cardinality(S) # Cardinality(T)
  BY FS_Subset
<1> QED BY <1>1, FS_CardinalityType

\* Disjoint sets within a finite one are together no larger than it.
LEMMA DisjointFit ==
  ASSUME NEW S, IsFiniteSet(S), NEW T \in SUBSET S, NEW U \in SUBSET S, T \cap U = {}
  PROVE  /\ IsFiniteSet(T) /\ IsFiniteSet(U)
         /\ Cardinality(T) \in Nat /\ Cardinality(U) \in Nat /\ Cardinality(S) \in Nat
         /\ Cardinality(T) + Cardinality(U) <= Cardinality(S)
<1>1. IsFiniteSet(T) /\ IsFiniteSet(U) BY FS_Subset
<1>2. Cardinality(T \cup U) = Cardinality(T) + Cardinality(U) - Cardinality(T \cap U)
  BY <1>1, FS_Union
<1>3. Cardinality(T \cap U) = 0 BY FS_EmptySet
<1>4. Cardinality(T \cup U) <= Cardinality(S) BY FS_Subset
<1>5. Cardinality(T) \in Nat /\ Cardinality(U) \in Nat /\ Cardinality(S) \in Nat
  BY <1>1, FS_CardinalityType
<1> QED BY <1>1, <1>2, <1>3, <1>4, <1>5

\* What is not in a part of a finite set is as many as the rest.
LEMMA RestOf ==
  ASSUME NEW S, IsFiniteSet(S), NEW T, T \subseteq S
  PROVE  Cardinality(S \ T) = Cardinality(S) - Cardinality(T)
<1>1. S \cap T = T OBVIOUS
<1>2. Cardinality(S \ T) = Cardinality(S) - Cardinality(S \cap T) BY FS_Difference
<1> QED BY <1>1, <1>2

-----------------------------------------------------------------------------
(* resolve_collision: a file of a plan takes the free suffix whose rank is *)
(* the number of earlier files of the plan that want its name.             *)

Earlier(r, plan, name) == {q \in plan : q < r /\ name[q] = name[r]}

\* Of the files that want one name, a later one has more before it.
LEMMA EarlierIsFewer ==
  ASSUME NEW plan \in SUBSET Nat, IsFiniteSet(plan), NEW name, NEW r \in plan
  PROVE  /\ Cardinality(Earlier(r, plan, name)) \in Nat /\ Cardinality(plan) \in Nat
         /\ Cardinality(Earlier(r, plan, name)) < Cardinality(plan)
         /\ \A q \in plan : q < r /\ name[q] = name[r] =>
              /\ Cardinality(Earlier(q, plan, name)) \in Nat
              /\ Cardinality(Earlier(q, plan, name)) < Cardinality(Earlier(r, plan, name))
<1>1. Earlier(r, plan, name) \subseteq plan /\ r \notin Earlier(r, plan, name)
  BY DEF Earlier
<1>2. /\ IsFiniteSet(Earlier(r, plan, name))
      /\ Cardinality(Earlier(r, plan, name)) \in Nat /\ Cardinality(plan) \in Nat
      /\ Cardinality(Earlier(r, plan, name)) < Cardinality(plan)
  BY <1>1, SmallerWithout
<1>3. ASSUME NEW q \in plan, q < r, name[q] = name[r]
      PROVE  /\ Cardinality(Earlier(q, plan, name)) \in Nat
             /\ Cardinality(Earlier(q, plan, name)) < Cardinality(Earlier(r, plan, name))
  <2>1. \A p \in plan : p < q => p < r BY <1>3
  <2>2. Earlier(q, plan, name) \subseteq Earlier(r, plan, name) BY <1>3, <2>1 DEF Earlier
  <2>3. q \in Earlier(r, plan, name) /\ q \notin Earlier(q, plan, name) BY <1>3 DEF Earlier
  <2> QED BY <1>2, <2>2, <2>3, SmallerWithout
<1> QED BY <1>2, <1>3

\* Of the suffixes up to a bound, those that are not taken are free.
LEMMA FreeCount ==
  ASSUME NEW N \in Nat, NEW taken \in SUBSET (0..N), IsFiniteSet(taken),
         NEW free, free = (0..N) \ taken
  PROVE  Cardinality(free) = N + 1 - Cardinality(taken)
<1> DEFINE all == 0..N
<1>1. IsFiniteSet(all) /\ Cardinality(all) = N + 1 BY FS_Interval
<1>2. Cardinality(taken) \in Nat BY FS_CardinalityType
<1>3. taken \subseteq all /\ free = all \ taken OBVIOUS
<1> HIDE DEF all
<1>4. Cardinality(all \ taken) = Cardinality(all) - Cardinality(taken)
  BY <1>1, <1>3, RestOf
<1>5. Cardinality(free) = Cardinality(all \ taken) BY <1>3
<1>6. Cardinality(all \ taken) = N + 1 - Cardinality(taken) BY <1>1, <1>2, <1>4
<1> QED BY <1>5, <1>6, Zenon

-----------------------------------------------------------------------------
(* How often a value occurs in a sequence.                                 *)

Occurrences(c, s) == Cardinality({i \in 1..Len(s) : s[i] = c})

LEMMA OccurrencesCount ==
  ASSUME NEW S, NEW s \in Seq(S), NEW c
  PROVE  /\ IsFiniteSet({i \in 1..Len(s) : s[i] = c})
         /\ Occurrences(c, s) \in Nat
<1>1. IsFiniteSet(1..Len(s)) BY FS_Interval
<1>2. IsFiniteSet({i \in 1..Len(s) : s[i] = c}) BY <1>1, FS_Subset
<1> QED BY <1>2, FS_CardinalityType DEF Occurrences

LEMMA OccurrencesEmpty == \A c : Occurrences(c, <<>>) = 0
<1> SUFFICES ASSUME NEW c PROVE Occurrences(c, <<>>) = 0
  OBVIOUS
<1>1. {i \in 1..Len(<<>>) : <<>>[i] = c} = {} OBVIOUS
<1> QED BY <1>1, FS_EmptySet DEF Occurrences

LEMMA OccurrencesAppend ==
  ASSUME NEW S, NEW s \in Seq(S), NEW c, NEW d \in S
  PROVE  Occurrences(c, Append(s, d)) = Occurrences(c, s) + (IF c = d THEN 1 ELSE 0)
<1> DEFINE places == {i \in 1..Len(s) : s[i] = c}
           longer == {i \in 1..Len(Append(s, d)) : Append(s, d)[i] = c}
<1>1. IsFiniteSet(places) /\ Cardinality(places) \in Nat
  BY OccurrencesCount DEF Occurrences
<1>2. Len(s) \in Nat /\ Len(Append(s, d)) = Len(s) + 1 OBVIOUS
<1>3. \A i \in 1..Len(s) : Append(s, d)[i] = s[i] OBVIOUS
<1>4. Append(s, d)[Len(s) + 1] = d OBVIOUS
<1>5. longer = IF c = d THEN places \cup {Len(s) + 1} ELSE places
  <2>1. \A i : i \in 1..(Len(s) + 1) <=> i \in 1..Len(s) \/ i = Len(s) + 1 BY <1>2
  <2> QED BY <1>2, <1>3, <1>4, <2>1
<1>6. Len(s) + 1 \notin places BY <1>2
<1>7. Occurrences(c, s) = Cardinality(places) /\ Occurrences(c, Append(s, d)) = Cardinality(longer)
  BY DEF Occurrences
<1> HIDE DEF places, longer
<1>8. Cardinality(places \cup {Len(s) + 1}) = Cardinality(places) + 1
  BY <1>1, <1>6, FS_AddElement
<1> QED BY <1>1, <1>5, <1>7, <1>8

LEMMA OccurrencesTail ==
  ASSUME NEW S, NEW s \in Seq(S), s # <<>>, NEW c
  PROVE  Occurrences(c, s) = Occurrences(c, Tail(s)) + (IF Head(s) = c THEN 1 ELSE 0)
<1> DEFINE places == {i \in 1..Len(s) : s[i] = c}
           later == {i \in 1..Len(Tail(s)) : Tail(s)[i] = c}
           rest == places \ {1}
           back == [i \in later |-> i + 1]
<1>1. Len(s) \in Nat \ {0} /\ Tail(s) \in Seq(S) /\ Len(Tail(s)) = Len(s) - 1 /\ Head(s) = s[1]
  OBVIOUS
<1>2. \A i \in 1..Len(Tail(s)) : Tail(s)[i] = s[i + 1] BY <1>1
<1>3. IsFiniteSet(places) /\ Cardinality(places) \in Nat
  BY OccurrencesCount DEF Occurrences
<1>4. IsFiniteSet(later) /\ Cardinality(later) \in Nat
  BY <1>1, OccurrencesCount DEF Occurrences
<1>5. back \in Bijection(later, rest)
  <2>1. \A i \in later : i + 1 \in rest BY <1>1, <1>2
  <2>2. \A j \in rest : j - 1 \in later /\ back[j - 1] = j
    <3> TAKE j \in rest
    <3>1. j \in 1..Len(s) /\ j # 1 /\ s[j] = c OBVIOUS
    <3>2. j - 1 \in 1..Len(Tail(s)) BY <1>1, <3>1
    <3>3. Tail(s)[j - 1] = s[j] BY <1>2, <3>1, <3>2
    <3> QED BY <3>1, <3>2, <3>3
  <2>3. \A i, j \in later : i # j => back[i] # back[j] BY <1>1
  <2>4. back \in [later -> rest] BY <2>1
  <2>5. \A j \in rest : \E i \in later : back[i] = j
    <3> HIDE DEF back, later, rest
    <3> QED BY <2>2
  <2> HIDE DEF back, later, rest
  <2>6. back \in Injection(later, rest) BY <2>3, <2>4 DEF Injection, IsInjective
  <2>7. back \in Surjection(later, rest) BY <2>4, <2>5 DEF Surjection
  <2> QED BY <2>6, <2>7 DEF Bijection
<1>6. Cardinality(rest) = Cardinality(later)
  <2> HIDE DEF back, later, rest
  <2>1. ExistsBijection(later, rest) BY <1>5 DEF ExistsBijection
  <2>2. IsFiniteSet(later) BY <1>4
  <2> QED BY <2>1, <2>2, FS_Bijection
<1>7. 1 \in places <=> Head(s) = c BY <1>1
<1>8. Occurrences(c, s) = Cardinality(places) /\ Occurrences(c, Tail(s)) = Cardinality(later)
  BY DEF Occurrences
<1> HIDE DEF places, later, back
<1>9. Cardinality(rest) = IF 1 \in places THEN Cardinality(places) - 1 ELSE Cardinality(places)
  BY <1>3, FS_RemoveElement
<1> QED BY <1>3, <1>4, <1>6, <1>7, <1>8, <1>9

-----------------------------------------------------------------------------
(* The sum of the values of a function, as the folds compute it.           *)

Pick(s) == CHOOSE x \in s : TRUE

\* The sums over the subsets of a domain, each from a smaller one.
Sums(D, f, h) ==
  h = [s \in SUBSET D |-> IF s = {} THEN 0 ELSE f[Pick(s)] + h[s \ {Pick(s)}]]

LEMMA SumsExist ==
  ASSUME NEW D, IsFiniteSet(D), NEW f
  PROVE  \E h : Sums(D, f, h)
<1> DEFINE Upto(n) == {s \in SUBSET D : Cardinality(s) <= n}
           Found(n) == \E h : h = [s \in Upto(n) |-> IF s = {} THEN 0 ELSE f[Pick(s)] + h[s \ {Pick(s)}]]
           Missing == {n \in Nat : ~Found(n)}
<1>1. \A s \in SUBSET D : IsFiniteSet(s) /\ Cardinality(s) \in Nat /\ Cardinality(s) <= Cardinality(D)
  BY FS_Subset, FS_CardinalityType
<1>2. \A s \in SUBSET D : s # {} =>
        /\ Pick(s) \in s /\ s \ {Pick(s)} \in SUBSET D
        /\ Cardinality(s) # 0 /\ Cardinality(s \ {Pick(s)}) = Cardinality(s) - 1
  <2> SUFFICES ASSUME NEW s \in SUBSET D, s # {}
               PROVE  /\ Pick(s) \in s /\ s \ {Pick(s)} \in SUBSET D
                      /\ Cardinality(s) # 0 /\ Cardinality(s \ {Pick(s)}) = Cardinality(s) - 1
    OBVIOUS
  <2>1. Pick(s) \in s BY DEF Pick
  <2>2. Cardinality(s) # 0 BY <1>1, FS_EmptySet
  <2>3. Cardinality(s \ {Pick(s)}) = Cardinality(s) - 1 BY <1>1, <2>1, FS_RemoveElement
  <2> QED BY <2>1, <2>2, <2>3
<1>3. Found(0)
  <2>1. \A s \in Upto(0) : s = {}
    <3> TAKE s \in Upto(0)
    <3>1. s \in SUBSET D /\ Cardinality(s) <= 0 OBVIOUS
    <3>2. Cardinality(s) = 0
      <4>1. Cardinality(s) \in Nat BY <1>1, <3>1
      <4> HIDE DEF Upto
      <4> QED BY <3>1, <4>1
    <3> QED BY <1>2, <3>1, <3>2
  <2> DEFINE h == [s \in Upto(0) |-> 0]
  <2> HIDE DEF Upto
  <2>2. h = [s \in Upto(0) |-> IF s = {} THEN 0 ELSE f[Pick(s)] + h[s \ {Pick(s)}]]
    BY <2>1
  <2> QED BY <2>2
<1>4. ASSUME NEW n \in Nat, Found(n) PROVE Found(n + 1)
  <2>1. PICK h : h = [s \in Upto(n) |-> IF s = {} THEN 0 ELSE f[Pick(s)] + h[s \ {Pick(s)}]]
    BY <1>4
  <2> DEFINE k == [s \in Upto(n + 1) |-> IF s = {} THEN 0 ELSE f[Pick(s)] + h[s \ {Pick(s)}]]
  <2>2. \A s \in Upto(n + 1) : s # {} => s \ {Pick(s)} \in Upto(n) BY <1>1, <1>2
  <2>3. \A s \in Upto(n) : s \in Upto(n + 1) BY <1>1
  <2> HIDE DEF Upto
  <2>4. \A s \in Upto(n) : k[s] = h[s]
    <3> TAKE s \in Upto(n)
    <3>1. h[s] = IF s = {} THEN 0 ELSE f[Pick(s)] + h[s \ {Pick(s)}] BY <2>1
    <3>2. k[s] = IF s = {} THEN 0 ELSE f[Pick(s)] + h[s \ {Pick(s)}] BY <2>3
    <3> QED BY <3>1, <3>2
  <2>5. \A s \in Upto(n + 1) : s # {} => k[s \ {Pick(s)}] = h[s \ {Pick(s)}] BY <2>2, <2>4
  <2>6. k = [s \in Upto(n + 1) |-> IF s = {} THEN 0 ELSE f[Pick(s)] + k[s \ {Pick(s)}]]
    <3> HIDE DEF k
    <3>1. k = [s \in Upto(n + 1) |-> IF s = {} THEN 0 ELSE f[Pick(s)] + h[s \ {Pick(s)}]] BY DEF k
    <3> QED BY <2>5, <3>1
  <2> QED BY <2>6
<1>5. Missing = {}
  <2> SUFFICES ASSUME Missing # {} PROVE FALSE
    OBVIOUS
  <2> HIDE DEF Found
  <2>1. Missing \in SUBSET Nat OBVIOUS
  <2>2. PICK m \in Missing : \A n \in Missing : m <= n BY <2>1, LeastExists
  <2>3. m \in Nat /\ m # 0 BY <1>3, <2>2
  <2>4. m - 1 \in Nat /\ m - 1 \notin Missing /\ (m - 1) + 1 = m BY <2>2, <2>3
  <2>5. Found(m) BY <1>4, <2>4
  <2> QED BY <2>2, <2>5
<1>6. Found(Cardinality(D))
  <2>1. Cardinality(D) \in Nat BY FS_CardinalityType
  <2> HIDE DEF Found
  <2> QED BY <1>5, <2>1
<1>7. Upto(Cardinality(D)) = SUBSET D BY <1>1
<1> QED BY <1>6, <1>7 DEF Sums

\* The fold of a function sums its values, whichever order the elements are taken in.
LEMMA SumByOne ==
  ASSUME NEW D, IsFiniteSet(D), NEW f \in [D -> Nat]
  PROVE  \E h \in [SUBSET D -> Nat] :
           /\ h[{}] = 0
           /\ \A s \in SUBSET D : \A x \in s : h[s] = f[x] + h[s \ {x}]
           /\ h[D] = FoldFunction(+, 0, f)
<1> DEFINE h == CHOOSE h : Sums(D, f, h)
<1>1. Sums(D, f, h) BY SumsExist
<1>2. FoldFunction(+, 0, f) = h[D]
  <2>1. DOMAIN f = D OBVIOUS
  <2> QED BY <2>1 DEF FoldFunction, FoldFunctionOnSet, MapThenFoldSet, Sums, Pick
<1> HIDE DEF h
<1>3. h = [s \in SUBSET D |-> h[s]] BY <1>1 DEF Sums
<1>4. h[{}] = 0 BY <1>1 DEF Sums
<1>5. \A s \in SUBSET D : s # {} =>
        Pick(s) \in s /\ s \ {Pick(s)} \in SUBSET D /\ h[s] = f[Pick(s)] + h[s \ {Pick(s)}]
  BY <1>1 DEF Sums, Pick
<1>6. \A s \in SUBSET D : /\ IsFiniteSet(s) /\ Cardinality(s) \in Nat
                          /\ Cardinality(s) = 0 <=> s = {}
                          /\ \A x \in s : Cardinality(s \ {x}) = Cardinality(s) - 1
  <2> TAKE s \in SUBSET D
  <2>1. IsFiniteSet(s) BY FS_Subset
  <2> QED BY <2>1, FS_CardinalityType, FS_EmptySet, FS_RemoveElement
<1> DEFINE Right(s) == h[s] \in Nat /\ \A x \in s : h[s] = f[x] + h[s \ {x}]
           Wrong == {n \in Nat : \E s \in SUBSET D : Cardinality(s) = n /\ ~Right(s)}
<1>7. Wrong = {}
  <2> SUFFICES ASSUME Wrong # {} PROVE FALSE
    OBVIOUS
  <2>1. Wrong \in SUBSET Nat OBVIOUS
  <2>2. PICK m \in Wrong : \A n \in Wrong : m <= n
    <3> HIDE DEF Wrong
    <3> QED BY <2>1, LeastExists
  <2>3. PICK s \in SUBSET D : Cardinality(s) = m /\ ~Right(s) OBVIOUS
  <2>4. \A t \in SUBSET D : Cardinality(t) < m => Right(t) BY <1>6, <2>2
  <2>5. s # {} BY <1>4, <2>3
  <2> DEFINE c == Pick(s)
             t == s \ {c}
  <2>6. c \in s /\ t \in SUBSET D /\ h[s] = f[c] + h[t] BY <1>5, <2>5
  <2>7. Cardinality(t) = Cardinality(s) - 1 /\ Cardinality(s) \in Nat BY <1>6, <2>6
  <2> HIDE DEF c
  <2>m. m \in Nat OBVIOUS
  <2>8. Right(t)
    <3>1. Cardinality(t) < m
      <4>1. \A a, b \in Nat : a = b - 1 => a < b OBVIOUS
      <4>2. Cardinality(t) \in Nat BY <1>6, <2>6
      <4> QED BY <2>3, <2>7, <4>1, <4>2
    <3> HIDE DEF t
    <3> QED BY <2>4, <2>6, <3>1
  <2>9. h[s] \in Nat /\ f[c] \in Nat BY <2>6, <2>8
  <2>10. ASSUME NEW x \in s PROVE h[s] = f[x] + h[s \ {x}]
    <3>1. CASE x = c BY <2>6, <3>1
    <3>2. CASE x # c
      <4> DEFINE u == s \ {x}
                 v == t \ {x}
      <4>1. x \in t /\ c \in u /\ u \in SUBSET D /\ v = u \ {c} /\ v \in SUBSET D BY <2>6, <3>2
      <4>2. Cardinality(u) < m BY <1>6, <2>3, <2>10
      <4>3. Right(u) BY <2>4, <4>1, <4>2
      <4>4. h[t] = f[x] + h[v] BY <2>8, <4>1
      <4>5. h[u] = f[c] + h[v] BY <4>1, <4>3
      <4>6. Cardinality(v) < m
        <5>1. \A a, b, d \in Nat : a = b - 1 /\ b < d => a < d OBVIOUS
        <5>2. Cardinality(v) = Cardinality(u) - 1 /\ Cardinality(u) \in Nat /\ Cardinality(v) \in Nat
          <6>1. Cardinality(u \ {c}) = Cardinality(u) - 1
            <7> HIDE DEF u, v, t
            <7> QED BY <1>6, <4>1
          <6> QED BY <1>6, <4>1, <6>1
        <5> QED BY <2>m, <4>2, <5>1, <5>2
      <4>7. Right(v) BY <2>4, <4>1, <4>6
      <4>8. f[x] \in Nat /\ h[v] \in Nat BY <2>10, <4>7
      <4> HIDE DEF t, u, v
      <4>9. h[s] = f[c] + (f[x] + h[v]) /\ h[u] = f[c] + h[v] BY <2>6, <4>4, <4>5
      <4>10. h[s] = f[x] + h[u]
        <5>1. \A a, b, d \in Nat : a + (b + d) = b + (a + d) OBVIOUS
        <5> QED BY <2>9, <4>8, <4>9, <5>1
      <4> QED BY <4>10 DEF u
    <3> QED BY <3>1, <3>2
  <2> QED BY <2>3, <2>9, <2>10
<1>8. \A s \in SUBSET D : Right(s)
  <2> TAKE s \in SUBSET D
  <2>1. Cardinality(s) \in Nat BY <1>6
  <2> QED BY <1>7, <2>1
<1>9. h \in [SUBSET D -> Nat] BY <1>3, <1>8
<1> QED BY <1>2, <1>4, <1>8, <1>9


\* A function that no step lowers is in order.
LEMMA Rising ==
  ASSUME NEW n \in Nat, NEW g \in [0..n -> Int],
         \A k \in 0..(n - 1) : g[k] <= g[k + 1]
  PROVE  \A j, k \in 0..n : j <= k => g[j] <= g[k]
<1> SUFFICES ASSUME NEW j \in 0..n
             PROVE  \A k \in 0..n : j <= k => g[j] <= g[k]
  OBVIOUS
<1> DEFINE Wrong == {k \in 0..n : j <= k /\ g[k] < g[j]}
<1>1. Wrong = {}
  <2> SUFFICES ASSUME Wrong # {} PROVE FALSE
    OBVIOUS
  <2>1. Wrong \in SUBSET Nat OBVIOUS
  <2>2. PICK m \in Wrong : \A k \in Wrong : m <= k
    <3> HIDE DEF Wrong
    <3> QED BY <2>1, LeastExists
  <2>3. m \in 0..n /\ j <= m /\ g[m] < g[j] OBVIOUS
  <2>4. m # j BY <2>3
  <2>5. m - 1 \in 0..(n - 1) /\ j <= m - 1 /\ (m - 1) + 1 = m BY <2>3, <2>4
  <2>6. g[m - 1] <= g[m] BY <2>5
  <2>7. g[m - 1] \in Int /\ g[m] \in Int /\ g[j] \in Int BY <2>3, <2>5
  <2>8. m - 1 \in Wrong BY <2>3, <2>5, <2>6, <2>7
  <2>9. m <= m - 1 BY <2>2, <2>8
  <2> QED BY <2>3, <2>9
<1>2. \A k \in 0..n : g[k] \in Int /\ g[j] \in Int OBVIOUS
<1>3. \A a, b \in Int : ~(a < b) => b <= a OBVIOUS
<1>4. ASSUME NEW k \in 0..n, j <= k PROVE ~(g[k] < g[j]) BY <1>1, <1>4
<1> QED BY <1>2, <1>3, <1>4

\* Numbers that fit within the gaps of a ladder sum to at most its top, and to
\* its top only when each of them fills its gap.
LEMMA SumsWithin ==
  ASSUME NEW n \in Nat, NEW f \in [1..n -> Nat], NEW ladder \in [0..n -> Nat],
         ladder[0] = 0,
         \A k \in 0..(n - 1) : ladder[k] + f[k + 1] <= ladder[k + 1]
  PROVE  /\ FoldFunction(+, 0, f) \in Nat
         /\ FoldFunction(+, 0, f) = ladder[n]
              <=> \A k \in 0..(n - 1) : ladder[k] + f[k + 1] = ladder[k + 1]
<1>1. IsFiniteSet(1..n) BY FS_Interval
<1>2. PICK h \in [SUBSET (1..n) -> Nat] :
        /\ h[{}] = 0
        /\ \A s \in SUBSET (1..n) : \A x \in s : h[s] = f[x] + h[s \ {x}]
        /\ h[1..n] = FoldFunction(+, 0, f)
  BY <1>1, SumByOne
<1> DEFINE p == [k \in 0..n |-> h[1..k]]
<1>3. p \in [0..n -> Nat] OBVIOUS
<1>4. p[0] = 0 /\ p[n] = FoldFunction(+, 0, f)
  <2>1. 1..0 = {} OBVIOUS
  <2>2. 0 \in 0..n /\ n \in 0..n OBVIOUS
  <2>3. p[0] = h[1..0] /\ p[n] = h[1..n] BY <2>2
  <2> QED BY <1>2, <2>1, <2>3
<1>5. \A k \in 0..(n - 1) : p[k + 1] = f[k + 1] + p[k]
  <2> TAKE k \in 0..(n - 1)
  <2>1. k \in 0..n /\ k + 1 \in 0..n /\ k \in Nat OBVIOUS
  <2> DEFINE s == 1..(k + 1)
  <2>2. s \in SUBSET (1..n) /\ k + 1 \in s OBVIOUS
  <2>3. s \ {k + 1} = 1..k
    <3>1. \A x : x \in s \ {k + 1} <=> x \in 1..k
      <4> TAKE x
      <4>1. x \in s \ {k + 1} <=> x \in Int /\ 1 <= x /\ x <= k + 1 /\ x # k + 1 OBVIOUS
      <4>2. x \in 1..k <=> x \in Int /\ 1 <= x /\ x <= k OBVIOUS
      <4>3. x \in Int => (x <= k <=> x <= k + 1 /\ x # k + 1) BY <2>1
      <4> QED BY <4>1, <4>2, <4>3
    <3> QED BY <3>1
  <2>4. p[k + 1] = h[s] /\ p[k] = h[1..k] BY <2>1
  <2> HIDE DEF s, p
  <2>5. h[s] = f[k + 1] + h[s \ {k + 1}] BY <1>2, <2>2
  <2> QED BY <2>3, <2>4, <2>5
<1> HIDE DEF p
<1> DEFINE gap == [k \in 0..n |-> ladder[k] - p[k]]
<1>6. gap \in [0..n -> Int] BY <1>3
<1>7. \A k \in 0..(n - 1) :
        /\ gap[k] = ladder[k] - p[k] /\ gap[k + 1] = ladder[k + 1] - (f[k + 1] + p[k])
        /\ ladder[k] \in Nat /\ ladder[k + 1] \in Nat /\ f[k + 1] \in Nat /\ p[k] \in Nat
        /\ k \in 0..n /\ k + 1 \in 0..n
  BY <1>3, <1>5
<1>8. gap[0] = 0 /\ gap[n] = ladder[n] - p[n] /\ ladder[n] \in Nat /\ p[n] \in Nat
  <2>1. 0 \in 0..n /\ n \in 0..n OBVIOUS
  <2>2. gap[0] = ladder[0] - p[0] /\ gap[n] = ladder[n] - p[n] BY <2>1
  <2>3. ladder[n] \in Nat /\ p[n] \in Nat BY <1>3, <2>1
  <2> HIDE DEF gap
  <2>4. ladder[0] = 0 /\ p[0] = 0 BY <1>4
  <2>5. gap[0] = 0 - 0 BY <2>2, <2>4
  <2> QED BY <2>2, <2>3, <2>5
<1> HIDE DEF gap
<1>9. \A k \in 0..(n - 1) : gap[k] <= gap[k + 1]
  <2> TAKE k \in 0..(n - 1)
  <2>1. ladder[k] + f[k + 1] <= ladder[k + 1] OBVIOUS
  <2>2. \A a, b, c, d \in Nat : a + c <= b => a - d <= b - (c + d) OBVIOUS
  <2>3. /\ ladder[k] \in Nat /\ ladder[k + 1] \in Nat /\ f[k + 1] \in Nat /\ p[k] \in Nat
        /\ gap[k] = ladder[k] - p[k] /\ gap[k + 1] = ladder[k + 1] - (f[k + 1] + p[k])
    BY <1>7
  <2>4. ladder[k] - p[k] <= ladder[k + 1] - (f[k + 1] + p[k]) BY <2>1, <2>2, <2>3
  <2> QED BY <2>3, <2>4
<1>10. \A j, k \in 0..n : j <= k => gap[j] <= gap[k] BY <1>6, <1>9, Rising
<1>11. ASSUME gap[n] = 0, NEW k \in 0..(n - 1) PROVE ladder[k] + f[k + 1] = ladder[k + 1]
  <2>1. gap[0] <= gap[k] /\ gap[k] <= gap[n] BY <1>7, <1>10
  <2>2. gap[0] <= gap[k + 1] /\ gap[k + 1] <= gap[n] BY <1>7, <1>10
  <2>3. gap[k] \in Int /\ gap[k + 1] \in Int BY <1>6, <1>7
  <2>4. gap[k] = 0 /\ gap[k + 1] = 0 BY <1>8, <1>11, <2>1, <2>2, <2>3
  <2>5. ladder[k] - p[k] = 0 /\ ladder[k + 1] - (f[k + 1] + p[k]) = 0 BY <1>7, <2>4
  <2>6. ladder[k] \in Nat /\ ladder[k + 1] \in Nat /\ f[k + 1] \in Nat /\ p[k] \in Nat BY <1>7
  <2>7. \A a, b, c, d \in Nat : a - d = 0 /\ b - (c + d) = 0 => a + c = b OBVIOUS
  <2> QED BY <2>5, <2>6, <2>7
<1>12. ASSUME \A k \in 0..(n - 1) : ladder[k] + f[k + 1] = ladder[k + 1] PROVE gap[n] = 0
  <2> DEFINE fall == [k \in 0..n |-> 0 - gap[k]]
  <2>1. fall \in [0..n -> Int] BY <1>6
  <2>2. \A k \in 0..(n - 1) : fall[k] <= fall[k + 1]
    <3> TAKE k \in 0..(n - 1)
    <3>1. ladder[k] + f[k + 1] = ladder[k + 1] BY <1>12
    <3>2. gap[k] = gap[k + 1]
      <4>1. \A a, b, c, d \in Nat : a + c = b => a - d = b - (c + d) OBVIOUS
      <4>2. /\ ladder[k] \in Nat /\ ladder[k + 1] \in Nat /\ f[k + 1] \in Nat /\ p[k] \in Nat
            /\ gap[k] = ladder[k] - p[k] /\ gap[k + 1] = ladder[k + 1] - (f[k + 1] + p[k])
        BY <1>7
      <4>3. ladder[k] - p[k] = ladder[k + 1] - (f[k + 1] + p[k]) BY <3>1, <4>1, <4>2
      <4> QED BY <4>2, <4>3
    <3>3. fall[k] = 0 - gap[k] /\ fall[k + 1] = 0 - gap[k + 1] BY <1>7
    <3>4. gap[k] \in Int BY <1>6, <1>7
    <3> HIDE DEF fall
    <3> QED BY <3>2, <3>3, <3>4
  <2>3. fall[0] = 0 - gap[0] /\ fall[n] = 0 - gap[n] OBVIOUS
  <2> HIDE DEF fall
  <2>4. fall[0] <= fall[n]
    <3>1. 0 \in 0..n /\ n \in 0..n /\ 0 <= n OBVIOUS
    <3>2. \A j, k \in 0..n : j <= k => fall[j] <= fall[k] BY <2>1, <2>2, Rising
    <3> QED BY <3>1, <3>2
  <2>5. gap[0] <= gap[n]
    <3>1. 0 \in 0..n /\ n \in 0..n /\ 0 <= n OBVIOUS
    <3> QED BY <1>10, <3>1
  <2> QED BY <1>8, <2>3, <2>4, <2>5
<1>13. gap[n] = 0 <=> p[n] = ladder[n] BY <1>8
<1> QED BY <1>4, <1>8, <1>11, <1>12, <1>13

=============================================================================
