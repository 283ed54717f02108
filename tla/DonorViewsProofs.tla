-------------------------- MODULE DonorViewsProofs --------------------------
(***************************************************************************)
(* Lemmas about the functions of DonorViews, for rows of any number.       *)
(* What a filter and a sort yield, what the order of the rows decides      *)
(* (nothing), and that pages with a code each make the same of them.       *)
(***************************************************************************)
EXTENDS DonorViews, FunctionTheorems, FiniteSetTheorems, SequenceTheorems, TLAPS

-----------------------------------------------------------------------------
(* Least elements, which induction over the data rests on.                 *)

\* Every set of natural numbers has a least one.
LEMMA Least ==
    ASSUME NEW T \in SUBSET Nat, T # {}
    PROVE  \E x \in T : \A y \in T : x <= y
  <1> DEFINE R == {p \in Nat \X Nat : p[1] < p[2]}
  <1>1. IsWellFoundedOn(R, Nat)
    BY NatLessThanWellFounded DEF OpToRel
  <1> HIDE DEF R
  <1>2. PICK x \in T : \A y \in T : <<y, x>> \notin R
    BY <1>1, WFMin
  <1>3. \A y \in T : ~(y < x)
    BY <1>2 DEF R
  <1> QED BY <1>3

-----------------------------------------------------------------------------
(* Places: in a strict order, the number of those before one is its place. *)

IsOrder(R, I) ==
    /\ \A i \in I : <<i, i>> \notin R
    /\ \A i, j, k \in I : <<i, j>> \in R /\ <<j, k>> \in R => <<i, k>> \in R
    /\ \A i, j \in I : i = j \/ <<i, j>> \in R \/ <<j, i>> \in R

Before(R, I, i) == {j \in I : <<j, i>> \in R}

\* The o that puts the indices I into the order R.
Puts(o, R, I) ==
    /\ o \in Bijection(1..Cardinality(I), I)
    /\ \A n \in 1..Cardinality(I) : Cardinality(Before(R, I, o[n])) = n - 1
    /\ \A m, n \in 1..Cardinality(I) : m < n => <<o[m], o[n]>> \in R

\* Whoever comes later has more before them.
LEMMA MoreBefore ==
    ASSUME NEW I, IsFiniteSet(I), NEW R, IsOrder(R, I), NEW i \in I, NEW j \in I, <<i, j>> \in R
    PROVE  Cardinality(Before(R, I, i)) < Cardinality(Before(R, I, j))
  <1>1. Before(R, I, i) \subseteq Before(R, I, j)
    BY DEF IsOrder, Before
  <1>2. i \in Before(R, I, j) /\ i \notin Before(R, I, i)
    BY DEF IsOrder, Before
  <1>3. IsFiniteSet(Before(R, I, j)) /\ IsFiniteSet(Before(R, I, i))
    BY FS_Subset DEF Before
  <1>4. Cardinality(Before(R, I, i)) <= Cardinality(Before(R, I, j))
          /\ Cardinality(Before(R, I, i)) # Cardinality(Before(R, I, j))
    BY <1>1, <1>2, <1>3, FS_Subset
  <1>5. Cardinality(Before(R, I, i)) \in Nat /\ Cardinality(Before(R, I, j)) \in Nat
    BY <1>3, FS_CardinalityType
  <1> QED BY <1>4, <1>5

\* Every place is taken, by one.
LEMMA Places ==
    ASSUME NEW I, IsFiniteSet(I), NEW R, IsOrder(R, I)
    PROVE  /\ \A i, j \in I : Cardinality(Before(R, I, i)) = Cardinality(Before(R, I, j)) => i = j
           /\ \E o : Puts(o, R, I)
  <1> DEFINE N == Cardinality(I)
             place == [i \in I |-> Cardinality(Before(R, I, i)) + 1]
  <1>1. N \in Nat
    BY FS_CardinalityType
  <1>2. ASSUME NEW i \in I
        PROVE  Cardinality(Before(R, I, i)) \in 0..N - 1
    <2>1. i \notin Before(R, I, i) /\ Before(R, I, i) \subseteq I
      BY DEF IsOrder, Before
    <2>2. IsFiniteSet(Before(R, I, i)) /\ Cardinality(Before(R, I, i)) <= N
            /\ Cardinality(Before(R, I, i)) # N
      BY <2>1, FS_Subset
    <2>3. Cardinality(Before(R, I, i)) \in Nat
      BY <2>2, FS_CardinalityType
    <2> QED BY <1>1, <2>2, <2>3
  <1>3. \A i, j \in I : Cardinality(Before(R, I, i)) = Cardinality(Before(R, I, j)) => i = j
    <2> SUFFICES ASSUME NEW i \in I, NEW j \in I, i # j
                 PROVE  Cardinality(Before(R, I, i)) # Cardinality(Before(R, I, j))
      OBVIOUS
    <2>1. <<i, j>> \in R \/ <<j, i>> \in R
      BY DEF IsOrder
    <2>2. Cardinality(Before(R, I, i)) < Cardinality(Before(R, I, j))
            \/ Cardinality(Before(R, I, j)) < Cardinality(Before(R, I, i))
      BY <2>1, MoreBefore
    <2> QED BY <1>2, <2>2
  <1>4. place \in [I -> 1..N] /\ \A i, j \in I : place[i] = place[j] => i = j
    <2>1. \A i \in I : place[i] \in 1..N
      BY <1>1, <1>2
    <2>2. \A i, j \in I : place[i] = place[j] => i = j
      BY <1>2, <1>3
    <2> QED BY <2>1, <2>2
  <1> HIDE DEF place
  <1>5. place \in Injection(I, 1..N)
    BY <1>4, Fun_IsInj
  <1>6. IsFiniteSet(1..N) /\ Cardinality(1..N) = N
    BY <1>1, FS_Interval
  <1>7. place \in Surjection(I, 1..N)
    BY <1>5, <1>6, FS_Injection
  <1>8. place \in Bijection(I, 1..N)
    BY <1>5, <1>7 DEF Bijection
  <1> DEFINE o == Inverse(place, I, 1..N)
  <1>9. o \in Bijection(1..N, I)
    BY <1>8, Fun_BijInverse
  <1>10. ASSUME NEW n \in 1..N PROVE place[o[n]] = n
    <2>1. Range(place) = 1..N
      BY <1>7, Fun_SurjectionProperties
    <2> QED BY <1>4, <2>1, Fun_InverseProperties
  <1> HIDE DEF o
  <1>11. \A n \in 1..N : o[n] \in I
    BY <1>9 DEF Bijection, Injection
  <1>12. ASSUME NEW n \in 1..N PROVE Cardinality(Before(R, I, o[n])) = n - 1
    <2>1. place[o[n]] = Cardinality(Before(R, I, o[n])) + 1
      BY <1>11 DEF place
    <2> QED BY <1>1, <1>2, <1>10, <1>11, <2>1
  <1>13. ASSUME NEW m \in 1..N, NEW n \in 1..N, m < n PROVE <<o[m], o[n]>> \in R
    <2>1. o[m] # o[n]
      BY <1>10, <1>13
    <2>2. ~(Cardinality(Before(R, I, o[n])) < Cardinality(Before(R, I, o[m])))
      BY <1>1, <1>12, <1>13
    <2>3. <<o[n], o[m]>> \notin R
      BY <1>11, <2>2, MoreBefore
    <2> QED BY <1>11, <2>1, <2>3 DEF IsOrder
  <1> QED BY <1>3, <1>9, <1>12, <1>13 DEF Puts

\* The o by which s lists its elements at I in the order R.
Lists(o, s, I, R) == Puts(o, R, I) /\ Listed(s, I, R) = [n \in 1..Cardinality(I) |-> s[o[n]]]

\* What is listed is put in order.
LEMMA ListedRows ==
    ASSUME NEW S, NEW s \in Seq(S), NEW I \in SUBSET DOMAIN s, NEW R, IsOrder(R, I)
    PROVE  /\ IsFiniteSet(I)
           /\ Listed(s, I, R) \in Seq(S) /\ Len(Listed(s, I, R)) = Cardinality(I)
           /\ \E o : Lists(o, s, I, R)
  <1> DEFINE N == Cardinality(I)
  <1>1. IsFiniteSet(I) /\ N \in Nat
    <2>1. IsFiniteSet(1..Len(s)) /\ DOMAIN s = 1..Len(s)
      BY FS_Interval
    <2> QED BY <2>1, FS_Subset, FS_CardinalityType
  <1>2. /\ \A i, j \in I : Cardinality(Before(R, I, i)) = Cardinality(Before(R, I, j)) => i = j
        /\ \E o : Puts(o, R, I)
    BY <1>1, Places
  <1>3. PICK o : Puts(o, R, I)
    BY <1>2
  <1>4. ASSUME NEW n \in 1..N
        PROVE  IndexAt(n, I, R) = o[n]
    <2>1. o[n] \in I /\ Cardinality(Before(R, I, o[n])) = n - 1
      BY <1>3 DEF Puts, Bijection, Injection
    <2>2. \A i \in I : Cardinality(Before(R, I, i)) = n - 1 => i = o[n]
      BY <1>2, <2>1
    <2> QED BY <2>1, <2>2 DEF Before, IndexAt
  <1> DEFINE t == [n \in 1..N |-> s[o[n]]]
  <1>5. t \in Seq(S) /\ Len(t) = N
    <2>1. \A n \in 1..N : o[n] \in DOMAIN s
      BY <1>3 DEF Puts, Bijection, Injection
    <2>2. \A n \in 1..N : s[o[n]] \in S
      BY <2>1
    <2> QED BY <1>1, <2>2
  <1>6. Listed(s, I, R) = <<>> \o t
    <2>1. [n \in 1..N |-> s[IndexAt(n, I, R)]] = t
      BY <1>4
    <2> QED BY <2>1 DEF Listed
  <1>7. Listed(s, I, R) = t
    BY <1>5, <1>6
  <1>8. Lists(o, s, I, R)
    BY <1>3, <1>7 DEF Lists
  <1> QED BY <1>1, <1>5, <1>7, <1>8

-----------------------------------------------------------------------------
(* Filtering.                                                              *)

\* Indices stand in order.
LEMMA CameInOrder == ASSUME NEW I \in SUBSET Nat PROVE IsOrder(AsTheyCame(I), I)
  BY DEF IsOrder, AsTheyCame

\* The o by which s keeps its elements at I.
Keeps(o, s, I) ==
    /\ o \in Bijection(1..Cardinality(I), I)
    /\ Kept(s, I) = [n \in 1..Cardinality(I) |-> s[o[n]]]

\* What is kept is what is at the indices kept, each once.
LEMMA Keeping ==
    ASSUME NEW S, NEW s \in Seq(S), NEW I \in SUBSET DOMAIN s
    PROVE  /\ IsFiniteSet(I)
           /\ Kept(s, I) \in Seq(S) /\ Len(Kept(s, I)) = Cardinality(I)
           /\ \E o : Keeps(o, s, I)
           /\ ToSet(Kept(s, I)) = {s[i] : i \in I}
  <1>1. IsOrder(AsTheyCame(I), I)
    <2>1. I \subseteq Nat
      OBVIOUS
    <2> QED BY <2>1, CameInOrder
  <1>2. /\ IsFiniteSet(I)
        /\ Kept(s, I) \in Seq(S) /\ Len(Kept(s, I)) = Cardinality(I)
        /\ \E o : Lists(o, s, I, AsTheyCame(I))
    BY <1>1, ListedRows DEF Kept
  <1>3. PICK o \in Bijection(1..Cardinality(I), I) : Kept(s, I) = [n \in 1..Cardinality(I) |-> s[o[n]]]
    BY <1>2 DEF Lists, Puts, Kept
  <1>4. ToSet(Kept(s, I)) = {s[i] : i \in I}
    BY <1>3 DEF ToSet, Bijection, Injection, Surjection
  <1> QED BY <1>2, <1>3, <1>4 DEF Keeps

-----------------------------------------------------------------------------
(* The same rows in another order.                                         *)

Shuffled(a, b) == \E h \in Bijection(DOMAIN a, DOMAIN b) : \A i \in DOMAIN a : a[i] = b[h[i]]

Image(h, A) == {h[x] : x \in A}

\* As many on the one side of a bijection as on the other.
LEMMA AsMany ==
    ASSUME NEW D, NEW E, NEW h \in Bijection(D, E), NEW A \in SUBSET D, IsFiniteSet(A)
    PROVE  /\ IsFiniteSet(Image(h, A))
           /\ Cardinality(Image(h, A)) = Cardinality(A)
           /\ Restrict(h, A) \in Bijection(A, Image(h, A))
  <1> DEFINE g == [x \in A |-> h[x]]
             B == {h[x] : x \in A}
  <1>1. g \in [A -> B] /\ \A x, y \in A : g[x] = g[y] => x = y
    BY DEF Bijection, Injection, IsInjective
  <1>2. \A y \in B : \E x \in A : g[x] = y
    OBVIOUS
  <1>3. g \in Bijection(A, B)
    BY <1>1, <1>2, Fun_IsBij
  <1>4. ExistsBijection(A, B)
    BY <1>3 DEF ExistsBijection
  <1> HIDE DEF g, B
  <1>5. IsFiniteSet(B) /\ Cardinality(B) = Cardinality(A)
    BY <1>4, FS_Bijection
  <1>6. Image(h, A) = B /\ Restrict(h, A) = g
    BY DEF Image, Restrict, g, B
  <1> QED BY <1>3, <1>5, <1>6

\* The rows of X.
Passing(s, X) == Kept(s, {i \in DOMAIN s : s[i] \in X})

\* Of shuffled rows shuffled ones pass.
LEMMA PassingShuffled ==
    ASSUME NEW S, NEW a \in Seq(S), NEW b \in Seq(S), Shuffled(a, b), NEW X
    PROVE  Shuffled(Passing(a, X), Passing(b, X))
  <1> DEFINE I == {i \in DOMAIN a : a[i] \in X}
             J == {j \in DOMAIN b : b[j] \in X}
             N == Cardinality(I)
  <1>1. PICK h \in Bijection(DOMAIN a, DOMAIN b) : \A i \in DOMAIN a : a[i] = b[h[i]]
    BY DEF Shuffled
  <1>2. J = Image(h, I)
    BY <1>1 DEF Bijection, Injection, Surjection, Image
  <1>3. PICK o \in Bijection(1..N, I) : Kept(a, I) = [n \in 1..N |-> a[o[n]]]
    <2>1. I \subseteq DOMAIN a
      OBVIOUS
    <2> HIDE DEF I
    <2> QED BY <2>1, Keeping DEF Keeps
  <1>4. IsFiniteSet(I) /\ IsFiniteSet(J)
    BY Keeping
  <1> DEFINE f == Restrict(h, I)
  <1> HIDE DEF I, J
  <1>5. Cardinality(J) = N /\ f \in Bijection(I, J)
    <2>1. I \subseteq DOMAIN a
      BY DEF I
    <2> HIDE DEF f
    <2>2. Cardinality(Image(h, I)) = Cardinality(I) /\ Restrict(h, I) \in Bijection(I, Image(h, I))
      BY <1>1, <1>4, <2>1, AsMany
    <2> QED BY <1>2, <2>2 DEF f
  <1>6. PICK p \in Bijection(1..N, J) : Kept(b, J) = [n \in 1..N |-> b[p[n]]]
    <2>1. J \subseteq DOMAIN b
      BY DEF J
    <2> QED BY <1>5, <2>1, Keeping DEF Keeps
  <1> DEFINE q == Inverse(p, 1..N, J)
             g == [i \in I |-> q[f[i]]]
             k == [n \in 1..N |-> g[o[n]]]
  <1>7. q \in Bijection(J, 1..N) /\ \A j \in J : p[q[j]] = j
    <2>1. q \in Bijection(J, 1..N) /\ \A n \in 1..N : q[p[n]] = n
      BY <1>6, Fun_BijInverse
    <2>2. \A j \in J : \E n \in 1..N : p[n] = j
      BY <1>6 DEF Bijection, Surjection
    <2> QED BY <2>1, <2>2
  <1> HIDE DEF f, q, N
  <1>8. g \in Bijection(I, 1..N)
    BY <1>5, <1>7, Fun_BijTransitive
  <1> HIDE DEF g
  <1>9. k \in Bijection(1..N, 1..N)
    <2>1. o \in [1..N -> I] /\ g \in [I -> 1..N]
      BY <1>3, <1>8, Fun_BijectionProperties
    <2>2. \A m, n \in 1..N : g[o[m]] = g[o[n]] => m = n
      <3> SUFFICES ASSUME NEW m \in 1..N, NEW n \in 1..N, g[o[m]] = g[o[n]] PROVE m = n
        OBVIOUS
      <3>1. o[m] \in I /\ o[n] \in I
        BY <2>1
      <3>2. o[m] = o[n]
        BY <1>8, <3>1 DEF Bijection, Injection, IsInjective
      <3> QED BY <1>3, <3>2 DEF Bijection, Injection, IsInjective
    <2>3. ASSUME NEW m \in 1..N PROVE \E n \in 1..N : g[o[n]] = m
      <3>1. PICK i \in I : g[i] = m
        BY <1>8 DEF Bijection, Surjection
      <3>2. PICK n \in 1..N : o[n] = i
        BY <1>3 DEF Bijection, Surjection
      <3> QED BY <3>1, <3>2
    <2> QED BY <2>1, <2>2, <2>3, Fun_IsBij
  <1>10. ASSUME NEW n \in 1..N PROVE a[o[n]] = b[p[k[n]]]
    <2>1. o[n] \in I
      BY <1>3 DEF Bijection, Injection
    <2>2. k[n] = q[f[o[n]]] /\ f[o[n]] = h[o[n]] /\ h[o[n]] \in J
      BY <1>2, <2>1 DEF g, f, Restrict, Image
    <2>3. p[k[n]] = h[o[n]]
      BY <1>7, <2>2
    <2> QED BY <1>1, <2>1, <2>3 DEF I
  <1>11. \A n \in 1..N : k[n] \in 1..N
    BY <1>9 DEF Bijection, Injection
  <1> HIDE DEF k
  <1>12. DOMAIN Kept(a, I) = 1..N /\ DOMAIN Kept(b, J) = 1..N
          /\ \A n \in 1..N : Kept(a, I)[n] = Kept(b, J)[k[n]]
    BY <1>3, <1>6, <1>10, <1>11
  <1>13. Shuffled(Kept(a, I), Kept(b, J))
    BY <1>9, <1>12 DEF Shuffled
  <1> QED BY <1>13 DEF I, J, Passing

\* Rows without duplicates, the same set of them, are the same rows.
LEMMA SameSetShuffled ==
    ASSUME NEW S, NEW a \in Seq(S), NEW b \in Seq(S), ToSet(a) = ToSet(b),
           \A i, j \in DOMAIN a : a[i] = a[j] => i = j,
           \A i, j \in DOMAIN b : b[i] = b[j] => i = j
    PROVE  Shuffled(a, b)
  <1> DEFINE h == [i \in DOMAIN a |-> CHOOSE j \in DOMAIN b : b[j] = a[i]]
  <1>1. \A i \in DOMAIN a : \E j \in DOMAIN b : b[j] = a[i]
    BY DEF ToSet
  <1>2. \A i \in DOMAIN a : h[i] \in DOMAIN b /\ b[h[i]] = a[i]
    BY <1>1
  <1>3. h \in [DOMAIN a -> DOMAIN b]
    BY <1>2
  <1> HIDE DEF h
  <1>4. \A i, j \in DOMAIN a : h[i] = h[j] => i = j
    BY <1>2
  <1>5. \A j \in DOMAIN b : \E i \in DOMAIN a : h[i] = j
    <2> SUFFICES ASSUME NEW j \in DOMAIN b PROVE \E i \in DOMAIN a : h[i] = j
      OBVIOUS
    <2>1. PICK i \in DOMAIN a : a[i] = b[j]
      BY DEF ToSet
    <2> QED BY <1>2, <2>1
  <1>6. h \in Bijection(DOMAIN a, DOMAIN b)
    BY <1>3, <1>4, <1>5, Fun_IsBij
  <1> QED BY <1>2, <1>6 DEF Shuffled
-----------------------------------------------------------------------------
(* Sorting.                                                                *)

\* Keys of w components.
Keys(w) == {k \in Seq(Int) : Len(k) = w}

\* Keys compare like words in a dictionary.
LEMMA Dictionary ==
    ASSUME NEW w \in Nat
    PROVE  /\ \A k \in Keys(w) : ~LexLess(k, k)
           /\ \A k, l, m \in Keys(w) : LexLess(k, l) /\ LexLess(l, m) => LexLess(k, m)
           /\ \A k, l \in Keys(w) : k = l \/ LexLess(k, l) \/ LexLess(l, k)
  <1>0. \A k \in Keys(w) : DOMAIN k = 1..w /\ \A i \in 1..w : k[i] \in Int
    BY DEF Keys
  <1>1. ASSUME NEW k \in Keys(w) PROVE ~LexLess(k, k)
    BY <1>0 DEF LexLess
  <1>2. ASSUME NEW k \in Keys(w), NEW l \in Keys(w), NEW m \in Keys(w), LexLess(k, l), LexLess(l, m)
        PROVE  LexLess(k, m)
    <2>1. PICK i \in 1..w : k[i] < l[i] /\ \A n \in 1..i - 1 : k[n] = l[n]
      BY <1>0, <1>2 DEF LexLess
    <2>2. PICK j \in 1..w : l[j] < m[j] /\ \A n \in 1..j - 1 : l[n] = m[n]
      BY <1>0, <1>2 DEF LexLess
    <2> DEFINE first == IF i <= j THEN i ELSE j
    <2>3. first \in 1..w /\ first <= i /\ first <= j
      OBVIOUS
    <2>4. \A n \in 1..first - 1 : k[n] = m[n]
      BY <1>0, <2>1, <2>2, <2>3
    <2>5. k[first] < m[first]
      <3>1. CASE i < j
        BY <1>0, <2>1, <2>2, <3>1
      <3>2. CASE i = j
        BY <1>0, <2>1, <2>2, <3>2
      <3>3. CASE j < i
        BY <1>0, <2>1, <2>2, <3>3
      <3> QED BY <3>1, <3>2, <3>3
    <2> QED BY <1>0, <2>3, <2>4, <2>5 DEF LexLess
  <1>3. ASSUME NEW k \in Keys(w), NEW l \in Keys(w), k # l
        PROVE  LexLess(k, l) \/ LexLess(l, k)
    <2> DEFINE T == {i \in 1..w : k[i] # l[i]}
    <2>1. T # {}
      <3>1. k = [i \in 1..w |-> k[i]] /\ l = [i \in 1..w |-> l[i]]
        BY <1>0 DEF Keys
      <3> QED BY <1>3, <3>1
    <2>2. PICK i \in T : \A j \in T : i <= j
      <3>1. T \subseteq Nat
        OBVIOUS
      <3> HIDE DEF T
      <3> QED BY <2>1, <3>1, Least
    <2>3. i \in 1..w /\ k[i] # l[i] /\ \A j \in 1..i - 1 : k[j] = l[j]
      BY <2>2
    <2>4. k[i] < l[i] \/ l[i] < k[i]
      BY <1>0, <2>3
    <2> QED BY <1>0, <2>3, <2>4 DEF LexLess
  <1> QED BY <1>1, <1>2, <1>3

\* Indices stand in order by their keys, those of equal keys as they came.
LEMMA KeyOrder ==
    ASSUME NEW w \in Nat, NEW D \in SUBSET Nat, NEW key \in [D -> Keys(w)]
    PROVE  IsOrder(ByKey(key), D)
  <1> DEFINE Less(i, j) == LexLess(key[i], key[j])
  <1>1. \A i, j \in D : <<i, j>> \in ByKey(key) <=> Less(i, j) \/ (key[i] = key[j] /\ i < j)
    BY DEF ByKey
  <1>2. /\ \A i \in D : ~Less(i, i)
        /\ \A i, j, k \in D : Less(i, j) /\ Less(j, k) => Less(i, k)
        /\ \A i, j \in D : key[i] = key[j] \/ Less(i, j) \/ Less(j, i)
    BY Dictionary
  <1>3. \A i, j, k \in D : key[i] = key[j] => (Less(i, k) <=> Less(j, k)) /\ (Less(k, i) <=> Less(k, j))
    OBVIOUS
  <1> HIDE DEF Less
  <1>4. \A i \in D : <<i, i>> \notin ByKey(key)
    BY <1>1, <1>2
  <1>5. ASSUME NEW i \in D, NEW j \in D, NEW k \in D, <<i, j>> \in ByKey(key), <<j, k>> \in ByKey(key)
        PROVE  <<i, k>> \in ByKey(key)
    BY <1>1, <1>2, <1>3, <1>5
  <1>6. ASSUME NEW i \in D, NEW j \in D, i # j
        PROVE  <<i, j>> \in ByKey(key) \/ <<j, i>> \in ByKey(key)
    BY <1>1, <1>2, <1>6
  <1> QED BY <1>4, <1>5, <1>6 DEF IsOrder

\* The o by which t is s rearranged, no key before a lesser one.
Rearranges(o, t, s, key) ==
    /\ o \in Bijection(DOMAIN s, DOMAIN s)
    /\ t = [n \in DOMAIN s |-> s[o[n]]]
    /\ \A m, n \in DOMAIN s : m < n => ~LexLess(key[o[n]], key[o[m]])

\* What is sorted is what there was, each once, the least key first.
LEMMA Sorting ==
    ASSUME NEW S, NEW s \in Seq(S), NEW w \in Nat, NEW key \in [DOMAIN s -> Keys(w)],
           NEW t, t = Listed(s, DOMAIN s, ByKey(key))
    PROVE  /\ t \in Seq(S) /\ Len(t) = Len(s) /\ ToSet(t) = ToSet(s)
           /\ \E o : Rearranges(o, t, s, key)
  <1> DEFINE N == Len(s)
  <1>1. N \in Nat /\ DOMAIN s = 1..N /\ Cardinality(1..N) = N
    <2>1. N \in Nat /\ DOMAIN s = 1..N
      OBVIOUS
    <2> HIDE DEF N
    <2>2. Cardinality(1..N) = N
      BY <2>1, FS_Interval
    <2> QED BY <2>1, <2>2
  <1>2. IsOrder(ByKey(key), DOMAIN s)
    <2>1. DOMAIN s \in SUBSET Nat
      OBVIOUS
    <2> QED BY <2>1, KeyOrder
  <1>3. t \in Seq(S) /\ Len(t) = N /\ \E o : Puts(o, ByKey(key), DOMAIN s) /\ t = [n \in 1..N |-> s[o[n]]]
    <2>1. DOMAIN s \in SUBSET DOMAIN s /\ Cardinality(DOMAIN s) = N
      BY <1>1
    <2> DEFINE I == DOMAIN s
               R == ByKey(key)
    <2> HIDE DEF N, I, R
    <2>2. /\ Listed(s, I, R) \in Seq(S) /\ Len(Listed(s, I, R)) = Cardinality(I)
          /\ \E o : Lists(o, s, I, R)
      <3>1. I \in SUBSET DOMAIN s /\ IsOrder(R, I)
        BY <1>2, <2>1 DEF I, R
      <3> QED BY <3>1, ListedRows
    <2>3. Listed(s, I, R) = t
      BY DEF I, R
    <2> QED BY <2>1, <2>2, <2>3 DEF I, R, Lists
  <1>4. PICK o \in Bijection(1..N, 1..N) :
           t = [n \in 1..N |-> s[o[n]]] /\ \A m, n \in 1..N : m < n => <<o[m], o[n]>> \in ByKey(key)
    BY <1>1, <1>3 DEF Puts
  <1> HIDE DEF N
  <1>5. ToSet(t) = ToSet(s)
    <2>1. DOMAIN t = 1..N /\ \A n \in 1..N : t[n] = s[o[n]]
      BY <1>4
    <2>2. (\A n \in 1..N : o[n] \in 1..N) /\ \A i \in 1..N : \E n \in 1..N : o[n] = i
      BY <1>4 DEF Bijection, Injection, Surjection
    <2>3. ToSet(t) = {s[o[n]] : n \in 1..N}
      <3>1. ToSet(t) = {t[n] : n \in 1..N}
        BY <2>1 DEF ToSet
      <3> QED BY <2>1, <3>1
    <2>4. ToSet(s) = {s[i] : i \in 1..N}
      BY <1>1 DEF ToSet
    <2>5. \A n \in 1..N : s[o[n]] \in ToSet(s)
      BY <2>2, <2>4
    <2>6. \A i \in 1..N : s[i] \in ToSet(t)
      BY <2>2, <2>3
    <2> QED BY <2>3, <2>4, <2>5, <2>6
  <1>6. ASSUME NEW m \in 1..N, NEW n \in 1..N, m < n
        PROVE  ~LexLess(key[o[n]], key[o[m]])
    <2>1. o[m] \in 1..N /\ o[n] \in 1..N
      BY <1>4 DEF Bijection, Injection
    <2>2. LexLess(key[o[m]], key[o[n]]) \/ key[o[m]] = key[o[n]]
      BY <1>4, <1>6 DEF ByKey
    <2>3. key[o[m]] \in Keys(w) /\ key[o[n]] \in Keys(w)
      BY <1>1, <2>1
    <2> QED BY <2>2, <2>3, Dictionary
  <1>7. Rearranges(o, t, s, key)
    BY <1>1, <1>4, <1>6 DEF Rearranges
  <1>8. Len(t) = Len(s)
    BY <1>3 DEF N
  <1> QED BY <1>3, <1>5, <1>7, <1>8

\* The same rows, in whatever order they came, are sorted into the same list
\* when no two have the same key.
LEMMA SortedSame ==
    ASSUME NEW S, NEW a \in Seq(S), NEW b \in Seq(S), Shuffled(a, b),
           NEW w \in Nat, NEW K \in [S -> Keys(w)],
           \A i, j \in DOMAIN a : K[a[i]] = K[a[j]] => i = j
    PROVE  Listed(a, DOMAIN a, ByKey([i \in DOMAIN a |-> K[a[i]]]))
             = Listed(b, DOMAIN b, ByKey([i \in DOMAIN b |-> K[b[i]]]))
  <1> DEFINE key == [i \in DOMAIN a |-> K[a[i]]]
             lock == [i \in DOMAIN b |-> K[b[i]]]
             A == ByKey(key)
             B == ByKey(lock)
             D == DOMAIN a
             E == DOMAIN b
  <1>1. PICK h \in Bijection(D, E) : \A i \in D : a[i] = b[h[i]]
    BY DEF Shuffled
  <1>2. h \in [D -> E] /\ (\A i, j \in D : h[i] = h[j] => i = j) /\ \A j \in E : \E i \in D : h[i] = j
    BY <1>1 DEF Bijection, Injection, IsInjective, Surjection
  <1>3. D = 1..Len(a) /\ Len(a) \in Nat /\ E = 1..Len(b) /\ Len(b) \in Nat
    OBVIOUS
  <1>4. key \in [D -> Keys(w)] /\ lock \in [E -> Keys(w)] /\ (\A i \in D : key[i] = lock[h[i]])
          /\ \A i, j \in D : key[i] = key[j] => i = j
    BY <1>1, <1>2
  <1>5. IsOrder(A, D) /\ IsOrder(B, E)
    <2>0. D \in SUBSET Nat /\ E \in SUBSET Nat
      BY <1>3
    <2> HIDE DEF key, lock, D, E
    <2>1. IsOrder(A, D)
      BY <1>4, <2>0, KeyOrder
    <2>2. IsOrder(B, E)
      BY <1>4, <2>0, KeyOrder
    <2> QED BY <2>1, <2>2
  <1>6. ASSUME NEW i \in D, NEW j \in D
        PROVE  <<j, i>> \in A <=> <<h[j], h[i]>> \in B
    <2>1. h[i] \in E /\ h[j] \in E
      BY <1>2
    <2>d. DOMAIN key = D /\ DOMAIN lock = E
      OBVIOUS
    <2> HIDE DEF key, lock, D, E
    <2>2. <<j, i>> \in A <=> LexLess(key[j], key[i]) \/ (key[i] = key[j] /\ j < i)
      BY <2>d DEF ByKey
    <2>3. <<h[j], h[i]>> \in B <=> LexLess(lock[h[j]], lock[h[i]]) \/ (lock[h[i]] = lock[h[j]] /\ h[j] < h[i])
      BY <2>1, <2>d DEF ByKey
    <2>4. CASE i = j
      BY <1>3, <2>1, <2>2, <2>3, <2>4, <1>4
    <2>5. CASE i # j
      <3>1. key[i] # key[j] /\ key[i] = lock[h[i]] /\ key[j] = lock[h[j]]
        BY <1>4, <2>5
      <3> QED BY <2>2, <2>3, <3>1
    <2> QED BY <2>4, <2>5
  <1>7. PICK o, p : /\ Puts(o, A, D) /\ Listed(a, D, A) = [n \in 1..Cardinality(D) |-> a[o[n]]]
                    /\ Puts(p, B, E) /\ Listed(b, E, B) = [n \in 1..Cardinality(E) |-> b[p[n]]]
    <2>1. D \in SUBSET DOMAIN a /\ E \in SUBSET DOMAIN b
      OBVIOUS
    <2> HIDE DEF A, B, D, E
    <2>2. \E o : Lists(o, a, D, A)
      BY <1>5, <2>1, ListedRows
    <2>3. \E p : Lists(p, b, E, B)
      BY <1>5, <2>1, ListedRows
    <2> QED BY <2>2, <2>3 DEF Lists
  <1> HIDE DEF A, B, key, lock, D, E
  <1>8. IsFiniteSet(D) /\ IsFiniteSet(E)
    BY <1>3, FS_Interval
  <1>9. Cardinality(D) = Cardinality(E)
    <2>1. ExistsBijection(D, E)
      BY <1>1 DEF ExistsBijection
    <2> QED BY <1>8, <2>1, FS_Bijection
  <1>10. ASSUME NEW i \in D
         PROVE  Cardinality(Before(A, D, i)) = Cardinality(Before(B, E, h[i]))
    <2>1. Before(A, D, i) \subseteq D /\ IsFiniteSet(Before(A, D, i))
      BY <1>8, FS_Subset DEF Before
    <2>2. Before(B, E, h[i]) = Image(h, Before(A, D, i))
      <3>1. ASSUME NEW x \in Before(B, E, h[i]) PROVE x \in Image(h, Before(A, D, i))
        <4>1. PICK j \in D : h[j] = x
          BY <1>2 DEF Before
        <4> QED BY <1>6, <4>1 DEF Before, Image
      <3>2. ASSUME NEW j \in Before(A, D, i) PROVE h[j] \in Before(B, E, h[i])
        BY <1>2, <1>6 DEF Before
      <3> QED BY <3>1, <3>2 DEF Image
    <2>3. Cardinality(Before(B, E, h[i])) = Cardinality(Before(A, D, i))
      BY <1>1, <2>1, <2>2, AsMany
    <2> QED BY <2>3
  <1>11. ASSUME NEW n \in 1..Cardinality(D) PROVE a[o[n]] = b[p[n]]
    <2>1. o[n] \in D /\ p[n] \in E /\ h[o[n]] \in E
      BY <1>2, <1>7, <1>9 DEF Puts, Bijection, Injection
    <2>2. Cardinality(Before(A, D, o[n])) = n - 1 /\ Cardinality(Before(B, E, p[n])) = n - 1
      BY <1>7, <1>9 DEF Puts
    <2>3. Cardinality(Before(B, E, h[o[n]])) = n - 1
      BY <1>10, <2>1, <2>2
    <2>4. h[o[n]] = p[n]
      BY <1>5, <1>8, <2>1, <2>2, <2>3, Places
    <2> QED BY <1>1, <2>1, <2>4
  <1>12. Listed(a, D, A) = Listed(b, E, B)
    BY <1>7, <1>9, <1>11
  <1> QED BY <1>12 DEF A, B, key, lock, D, E

-----------------------------------------------------------------------------
(* The functions of DonorViews, over the set of what passes and a table of *)
(* the keys.                                                               *)

\* The rows sorted by the keys of K.
Sorted(s, K) == Listed(s, DOMAIN s, ByKey([i \in DOMAIN s |-> K[s[i]]]))

\* No two rows have the same value under F.
Distinct(s, F) == \A i, j \in DOMAIN s : F[s[i]] = F[s[j]] => i = j

\* No row appears twice.
Injected(s) == \A i, j \in DOMAIN s : s[i] = s[j] => i = j

\* A sequence follows the empty one.
LEMMA Nothing == ASSUME NEW S, NEW s \in Seq(S) PROVE <<>> \o s = s
  OBVIOUS

\* What passes.
LEMMA PassingRows ==
    ASSUME NEW S, NEW s \in Seq(S), NEW X
    PROVE  /\ Passing(s, X) \in Seq(S)
           /\ IsFiniteSet({i \in DOMAIN s : s[i] \in X})
           /\ Len(Passing(s, X)) = Cardinality({i \in DOMAIN s : s[i] \in X})
           /\ ToSet(Passing(s, X)) = ToSet(s) \cap X
           /\ \A F : Distinct(s, F) => Distinct(Passing(s, X), F)
           /\ Injected(s) => Injected(Passing(s, X))
  <1> DEFINE I == {i \in DOMAIN s : s[i] \in X}
  <1>1. I \in SUBSET DOMAIN s
    OBVIOUS
  <1>2. ToSet(s) \cap X = {s[i] : i \in I}
    BY DEF ToSet
  <1>3. Passing(s, X) = Kept(s, I)
    BY DEF Passing
  <1> HIDE DEF I
  <1>4. /\ IsFiniteSet(I)
        /\ Kept(s, I) \in Seq(S) /\ Len(Kept(s, I)) = Cardinality(I)
        /\ \E o : Keeps(o, s, I)
        /\ ToSet(Kept(s, I)) = {s[i] : i \in I}
    BY <1>1, Keeping
  <1>5. PICK o \in Bijection(1..Cardinality(I), I) : Kept(s, I) = [n \in 1..Cardinality(I) |-> s[o[n]]]
    BY <1>4 DEF Keeps
  <1>6. /\ \A n \in 1..Cardinality(I) : o[n] \in DOMAIN s
        /\ \A m, n \in 1..Cardinality(I) : o[m] = o[n] => m = n
    BY <1>1, <1>5 DEF Bijection, Injection, IsInjective
  <1>7. \A F : Distinct(s, F) => Distinct(Kept(s, I), F)
    BY <1>5, <1>6 DEF Distinct
  <1>8. Injected(s) => Injected(Kept(s, I))
    BY <1>5, <1>6 DEF Injected
  <1>9. IsFiniteSet(I) /\ Len(Kept(s, I)) = Cardinality(I) /\ Kept(s, I) \in Seq(S)
    BY <1>4
  <1>10. ToSet(Kept(s, I)) = ToSet(s) \cap X
    BY <1>2, <1>4
  <1> QED BY <1>3, <1>7, <1>8, <1>9, <1>10 DEF I

\* In short, rows are rows, as many as pass.
LEMMA PassingType ==
    ASSUME NEW S, NEW s \in Seq(S), NEW X
    PROVE  Passing(s, X) \in Seq(S) /\ Len(Passing(s, X)) = Cardinality({i \in DOMAIN s : s[i] \in X})
  <1> DEFINE I == {i \in DOMAIN s : s[i] \in X}
  <1>1. I \in SUBSET DOMAIN s
    OBVIOUS
  <1> HIDE DEF I
  <1>2. Kept(s, I) \in Seq(S) /\ Len(Kept(s, I)) = Cardinality(I)
    BY <1>1, Keeping
  <1> QED BY <1>2 DEF Passing, I

\* What is sorted.
LEMMA SortedRows ==
    ASSUME NEW S, NEW s \in Seq(S), NEW w \in Nat, NEW K \in [S -> Keys(w)]
    PROVE  /\ Sorted(s, K) \in Seq(S)
           /\ Len(Sorted(s, K)) = Len(s)
           /\ ToSet(Sorted(s, K)) = ToSet(s)
           /\ \A F : Distinct(s, F) => Distinct(Sorted(s, K), F)
           /\ \A i \in DOMAIN s : ~LexLess(K[s[i]], K[Sorted(s, K)[1]])
  <1> DEFINE key == [i \in DOMAIN s |-> K[s[i]]]
             t == Sorted(s, K)
  <1>1. key \in [DOMAIN s -> Keys(w)]
    OBVIOUS
  <1>2. t = Listed(s, DOMAIN s, ByKey(key))
    BY DEF Sorted
  <1>3. \A i \in DOMAIN s : key[i] = K[s[i]]
    OBVIOUS
  <1> HIDE DEF key, t
  <1>4. /\ t \in Seq(S) /\ Len(t) = Len(s) /\ ToSet(t) = ToSet(s)
        /\ \E o : Rearranges(o, t, s, key)
    BY <1>1, <1>2, Sorting
  <1>5. PICK o \in Bijection(DOMAIN s, DOMAIN s) :
              /\ t = [n \in DOMAIN s |-> s[o[n]]]
              /\ \A m, n \in DOMAIN s : m < n => ~LexLess(key[o[n]], key[o[m]])
    BY <1>4 DEF Rearranges
  <1>6. /\ \A n \in DOMAIN s : o[n] \in DOMAIN s
        /\ \A m, n \in DOMAIN s : o[m] = o[n] => m = n
        /\ \A i \in DOMAIN s : \E n \in DOMAIN s : o[n] = i
    BY <1>5 DEF Bijection, Injection, IsInjective, Surjection
  <1>7. \A F : Distinct(s, F) => Distinct(t, F)
    <2>1. DOMAIN t = DOMAIN s /\ \A n \in DOMAIN s : t[n] = s[o[n]]
      BY <1>5
    <2> SUFFICES ASSUME NEW F, Distinct(s, F), NEW i \in DOMAIN s, NEW j \in DOMAIN s, F[t[i]] = F[t[j]]
                 PROVE  i = j
      BY <2>1 DEF Distinct
    <2>2. F[s[o[i]]] = F[s[o[j]]] /\ o[i] \in DOMAIN s /\ o[j] \in DOMAIN s
      BY <1>6, <2>1
    <2>3. o[i] = o[j]
      BY <2>2 DEF Distinct
    <2> QED BY <1>6, <2>3
  <1>8. ASSUME NEW i \in DOMAIN s
        PROVE  ~LexLess(K[s[i]], K[t[1]])
    <2>1. 1 \in DOMAIN s /\ DOMAIN s \subseteq Nat \ {0}
      OBVIOUS
    <2>2. PICK n \in DOMAIN s : o[n] = i
      BY <1>6
    <2>3. K[t[1]] = key[o[1]] /\ K[s[i]] = key[o[n]] /\ o[1] \in DOMAIN s
      BY <1>3, <1>5, <1>6, <2>1, <2>2
    <2>4. CASE n = 1
      <3>1. key[o[1]] \in Keys(w)
        BY <1>1, <2>3
      <3> QED BY <2>3, <2>4, <3>1, Dictionary
    <2>5. CASE n # 1
      BY <1>5, <2>1, <2>3, <2>5
    <2> QED BY <2>4, <2>5
  <1> QED BY <1>4, <1>7, <1>8 DEF t

\* The same rows sort the same, when no two have the same key.
LEMMA SortedAlike ==
    ASSUME NEW S, NEW a \in Seq(S), NEW b \in Seq(S), Shuffled(a, b),
           NEW w \in Nat, NEW K \in [S -> Keys(w)], Distinct(a, K)
    PROVE  Sorted(a, K) = Sorted(b, K)
  <1>1. \A i, j \in DOMAIN a : K[a[i]] = K[a[j]] => i = j
    BY DEF Distinct
  <1> QED BY <1>1, SortedSame DEF Sorted

-----------------------------------------------------------------------------
(* Adding up.                                                              *)

\* The recursive function that adds up f, over the subsets of A.
Pick(S) == CHOOSE x \in S : TRUE
Adds(F, f, A) ==
    F = [S \in A |-> IF S = {} THEN 0 ELSE f[Pick(S)] + F[S \ {Pick(S)}]]

\* The finite subsets of S with at most n elements.
Small(S, n) == {T \in SUBSET S : IsFiniteSet(T) /\ Cardinality(T) <= n}

\* One element taken out.
LEMMA TakenOut ==
    ASSUME NEW S, IsFiniteSet(S), NEW x \in S
    PROVE  /\ IsFiniteSet(S \ {x}) /\ Cardinality(S) \in Nat /\ Cardinality(S \ {x}) \in Nat
           /\ Cardinality(S \ {x}) = Cardinality(S) - 1
  <1>1. IsFiniteSet(S \ {x}) /\ Cardinality(S \ {x}) = Cardinality(S) - 1
    BY FS_RemoveElement
  <1> QED BY <1>1, FS_CardinalityType

\* Who is small, and how small.
LEMMA SmallOnes ==
    ASSUME NEW S, NEW n \in Nat, NEW X \in Small(S, n)
    PROVE  /\ X \in SUBSET S /\ IsFiniteSet(X) /\ Cardinality(X) \in 0..n
           /\ n = 0 => X = {}
  <1>1. X \in SUBSET S /\ IsFiniteSet(X) /\ Cardinality(X) <= n
    BY DEF Small
  <1>2. Cardinality(X) \in Nat
    BY <1>1, FS_CardinalityType
  <1>3. n = 0 => Cardinality(X) = 0
    BY <1>1, <1>2
  <1> QED BY <1>1, <1>2, <1>3, FS_EmptySet

\* What is picked is there.
LEMMA Picked == ASSUME NEW S, S # {} PROVE Pick(S) \in S
  BY DEF Pick

\* There is such a function, for sets of whatever size.
LEMMA AddsExists ==
    ASSUME NEW S, NEW f, NEW n \in Nat
    PROVE  \E F : Adds(F, f, Small(S, n))
  <1> DEFINE T == {m \in Nat : ~\E F : Adds(F, f, Small(S, m))}
  <1>1. SUFFICES ASSUME T # {} PROVE FALSE
    OBVIOUS
  <1>2. PICK m \in T : \A k \in T : m <= k
    <2>1. T \subseteq Nat
      OBVIOUS
    <2> HIDE DEF T
    <2> QED BY <1>1, <2>1, Least
  <1>3. m # 0
    <2>1. SUFFICES ASSUME m = 0 PROVE FALSE
      OBVIOUS
    <2> DEFINE F == [X \in Small(S, 0) |-> 0]
    <2>2. \A X \in Small(S, 0) : X = {}
      BY SmallOnes
    <2>3. Adds(F, f, Small(S, 0))
      BY <2>2 DEF Adds
    <2> QED BY <2>1, <2>3
  <1>4. PICK G : Adds(G, f, Small(S, m - 1))
    <2>1. m - 1 \in Nat /\ m - 1 \notin T
      BY <1>2, <1>3
    <2> QED BY <2>1
  <1> DEFINE F == [X \in Small(S, m) |-> IF X = {} THEN 0 ELSE f[Pick(X)] + G[X \ {Pick(X)}]]
  <1>5. ASSUME NEW X \in Small(S, m), X # {}
        PROVE  X \ {Pick(X)} \in Small(S, m - 1) /\ X \ {Pick(X)} \in Small(S, m)
    <2>1. Pick(X) \in X
      BY <1>5, Picked
    <2>2. X \in SUBSET S /\ IsFiniteSet(X) /\ Cardinality(X) <= m
      BY DEF Small
    <2> DEFINE Y == X \ {Pick(X)}
    <2>3. IsFiniteSet(Y) /\ Cardinality(X) \in Nat /\ Cardinality(Y) = Cardinality(X) - 1
      BY <2>1, <2>2, TakenOut
    <2>4. Y \in SUBSET S
      BY <2>2
    <2> HIDE DEF Y
    <2>5. Cardinality(Y) <= m - 1 /\ Cardinality(Y) <= m
      BY <1>2, <2>2, <2>3
    <2>6. Y \in Small(S, m - 1) /\ Y \in Small(S, m)
      BY <2>3, <2>4, <2>5 DEF Small
    <2> QED BY <2>6 DEF Y
  <1>6. ASSUME NEW X \in Small(S, m - 1)
        PROVE  X \in Small(S, m) /\ G[X] = F[X]
    <2>1. X \in Small(S, m)
      <3>1. m - 1 \in Nat
        BY <1>2, <1>3
      <3>2. X \in SUBSET S /\ IsFiniteSet(X) /\ Cardinality(X) \in 0..m - 1
        BY <3>1, SmallOnes
      <3>3. Cardinality(X) <= m
        BY <1>2, <3>2
      <3> QED BY <3>2, <3>3 DEF Small
    <2> QED BY <1>4, <2>1 DEF Adds
  <1>7. ASSUME NEW X \in Small(S, m)
        PROVE  F[X] = IF X = {} THEN 0 ELSE f[Pick(X)] + F[X \ {Pick(X)}]
    BY <1>5, <1>6
  <1>8. F = [X \in Small(S, m) |-> F[X]]
    OBVIOUS
  <1> HIDE DEF F
  <1>9. Adds(F, f, Small(S, m))
    BY <1>7, <1>8 DEF Adds
  <1> QED BY <1>9

\* A finite set has no subsets but the small ones.
LEMMA AllSmall ==
    ASSUME NEW S, IsFiniteSet(S)
    PROVE  Cardinality(S) \in Nat /\ Small(S, Cardinality(S)) = SUBSET S
  BY FS_Subset, FS_CardinalityType DEF Small

\* Total adds up.
LEMMA TotalAdds ==
    ASSUME NEW S, IsFiniteSet(S), NEW f
    PROVE  \E F : Adds(F, f, SUBSET S) /\ Total(f, S) = F[S]
  <1>1. \E F : Adds(F, f, SUBSET S)
    <2>1. Cardinality(S) \in Nat /\ Small(S, Cardinality(S)) = SUBSET S
      BY AllSmall
    <2>2. \E F : Adds(F, f, Small(S, Cardinality(S)))
      BY <2>1, AddsExists
    <2> QED BY <2>1, <2>2
  <1>2. Total(f, S) = MapThenFoldSet(+, 0, LAMBDA x : f[x], LAMBDA T : CHOOSE x \in T : TRUE, S)
    BY DEF Total, MapThenSumSet
  <1>3. Total(f, S)
          = LET iter[T \in SUBSET S] ==
                  IF T = {} THEN 0 ELSE LET x == CHOOSE y \in T : TRUE IN f[x] + iter[T \ {x}]
            IN  iter[S]
    BY <1>2 DEF MapThenFoldSet
  <1> DEFINE F == CHOOSE iter : iter = [T \in SUBSET S |->
                    IF T = {} THEN 0 ELSE LET x == CHOOSE y \in T : TRUE IN f[x] + iter[T \ {x}]]
  <1>4. Total(f, S) = F[S]
    BY <1>3
  <1>5. F = CHOOSE iter : Adds(iter, f, SUBSET S)
    BY DEF Adds, Pick
  <1> HIDE DEF F
  <1>6. Adds(F, f, SUBSET S)
    BY <1>1, <1>5
  <1> QED BY <1>4, <1>6

\* What has been added up is the same, whatever set it is a part of.
LEMMA AddsAgree ==
    ASSUME NEW f, NEW A, NEW B, NEW F, NEW G, Adds(F, f, SUBSET A), Adds(G, f, SUBSET B),
           NEW S \in SUBSET A, S \in SUBSET B, IsFiniteSet(S)
    PROVE  F[S] = G[S]
  <1> DEFINE Odd(X) == X \in SUBSET A /\ X \in SUBSET B /\ IsFiniteSet(X) /\ F[X] # G[X]
             T == {n \in Nat : \E X : Odd(X) /\ Cardinality(X) = n}
  <1>1. SUFFICES ASSUME F[S] # G[S] PROVE FALSE
    OBVIOUS
  <1>2. Cardinality(S) \in T
    BY <1>1, FS_CardinalityType
  <1>3. PICK n \in T : \A m \in T : n <= m
    <2>1. T \subseteq Nat
      OBVIOUS
    <2> HIDE DEF T
    <2> QED BY <1>2, <2>1, Least
  <1>4. PICK X : Odd(X) /\ Cardinality(X) = n
    BY <1>3
  <1>5. CASE X = {}
    BY <1>4, <1>5 DEF Adds
  <1>6. CASE X # {}
    <2> DEFINE x == Pick(X)
               Y == X \ {x}
    <2>1. x \in X
      BY <1>6, Picked
    <2>2. IsFiniteSet(Y) /\ Cardinality(Y) \in Nat /\ Cardinality(X) \in Nat /\ Cardinality(Y) = Cardinality(X) - 1
      BY <1>4, <2>1, TakenOut
    <2> HIDE DEF T, Y, Odd
    <2>3. Cardinality(Y) \notin T
      <3>1. ~(n <= Cardinality(Y)) /\ n \in Nat
        BY <1>4, <2>2
      <3> QED BY <1>3, <3>1
    <2> USE DEF T, Y, Odd
    <2>4. Y \in SUBSET A /\ Y \in SUBSET B
      BY <1>4
    <2>5. F[Y] = G[Y]
      BY <2>2, <2>3, <2>4
    <2>6. F[X] = f[x] + F[Y] /\ G[X] = f[x] + G[Y]
      BY <1>4, <1>6 DEF Adds
    <2> QED BY <1>4, <2>5, <2>6
  <1> QED BY <1>5, <1>6

\* Numbers add up to a number, and the order does not matter: whichever of them
\* comes last adds its own share.
LEMMA AddsAnyhow ==
    ASSUME NEW D, NEW f \in [D -> Nat], NEW A \in SUBSET D, IsFiniteSet(A), NEW F, Adds(F, f, SUBSET A)
    PROVE  \A X \in SUBSET A : F[X] \in Nat /\ \A x \in X : F[X] = f[x] + F[X \ {x}]
  <1> DEFINE Good(X) == F[X] \in Nat /\ \A x \in X : F[X] = f[x] + F[X \ {x}]
             T == {n \in Nat : \E X \in SUBSET A : ~Good(X) /\ Cardinality(X) = n}
  <1>0. \A X \in SUBSET A : IsFiniteSet(X) /\ Cardinality(X) \in Nat
    BY FS_Subset, FS_CardinalityType
  <1>1. SUFFICES ASSUME NEW S \in SUBSET A, ~Good(S) PROVE FALSE
    OBVIOUS
  <1>2. Cardinality(S) \in T
    BY <1>0, <1>1
  <1>3. PICK n \in T : \A m \in T : n <= m
    <2>1. T \subseteq Nat
      OBVIOUS
    <2> HIDE DEF T
    <2> QED BY <1>2, <2>1, Least
  <1>4. PICK X \in SUBSET A : ~Good(X) /\ Cardinality(X) = n
    BY <1>3
  <1>5. F[X] = IF X = {} THEN 0 ELSE f[Pick(X)] + F[X \ {Pick(X)}]
    BY DEF Adds
  <1>6. CASE X = {}
    BY <1>4, <1>5, <1>6
  <1>7. CASE X # {}
    <2>1. ASSUME NEW x \in X
          PROVE  Good(X \ {x}) /\ X \ {x} \in SUBSET A /\ f[x] \in Nat
      <3>1. Cardinality(X \ {x}) = Cardinality(X) - 1
        BY <1>0, TakenOut
      <3>2. Cardinality(X \ {x}) \notin T
        BY <1>0, <1>3, <1>4, <3>1
      <3>3. X \ {x} \in SUBSET A
        OBVIOUS
      <3> HIDE DEF Good
      <3>4. Good(X \ {x})
        BY <1>0, <3>2, <3>3
      <3> QED BY <3>3, <3>4
    <2> DEFINE y == Pick(X)
    <2>2. y \in X
      BY <1>7, Picked
    <2>3. F[X] = f[y] + F[X \ {y}]
      BY <1>5, <1>7
    <2> HIDE DEF y
    <2>4. F[X] \in Nat
      BY <2>1, <2>2, <2>3, SMTT(20)
    <2>5. ASSUME NEW x \in X
          PROVE  F[X] = f[x] + F[X \ {x}]
      <3>1. CASE x = y
        BY <2>3, <3>1
      <3>2. CASE x # y
        <4>1. F[X \ {y}] = f[x] + F[(X \ {y}) \ {x}]
          BY <2>1, <2>2, <3>2
        <4>2. F[X \ {x}] = f[y] + F[(X \ {x}) \ {y}]
          BY <2>1, <2>2, <3>2
        <4>3. (X \ {y}) \ {x} = (X \ {x}) \ {y}
          OBVIOUS
        <4> DEFINE Z == (X \ {y}) \ {x}
        <4>4. F[Z] \in Nat
          <5>1. X \ {y} \in SUBSET A
            BY <2>1, <2>2
          <5>2. Cardinality(X \ {y}) = Cardinality(X) - 1 /\ Cardinality(Z) = Cardinality(X \ {y}) - 1
            BY <1>0, <2>2, <3>2, <5>1, TakenOut
          <5>3. Z \in SUBSET A
            OBVIOUS
          <5> HIDE DEF Z
          <5>4. Cardinality(Z) \notin T
            <6>1. ~(n <= Cardinality(Z))
              BY <1>0, <1>4, <5>1, <5>2, <5>3
            <6> HIDE DEF T
            <6> QED BY <1>3, <6>1
          <5> HIDE DEF Good
          <5>5. Good(Z)
            BY <1>0, <5>3, <5>4
          <5> QED BY <5>5 DEF Good
        <4>5. f[x] \in Nat /\ f[y] \in Nat
          BY <2>2
        <4> HIDE DEF Z
        <4>6. F[X \ {y}] = f[x] + F[Z] /\ F[X \ {x}] = f[y] + F[Z]
          BY <4>1, <4>2, <4>3 DEF Z
        <4> QED BY <2>3, <4>4, <4>5, <4>6
      <3> QED BY <3>1, <3>2
    <2> QED BY <1>4, <2>4, <2>5
  <1> QED BY <1>6, <1>7

\* So it is with Total.
LEMMA Totalled ==
    ASSUME NEW D, NEW f \in [D -> Nat], NEW S \in SUBSET D, IsFiniteSet(S)
    PROVE  /\ Total(f, S) \in Nat
           /\ S = {} => Total(f, S) = 0
           /\ \A x \in S : Total(f, S) = f[x] + Total(f, S \ {x})
  <1>1. PICK F : Adds(F, f, SUBSET S) /\ Total(f, S) = F[S]
    BY TotalAdds
  <1>2. F[S] \in Nat /\ \A x \in S : F[S] = f[x] + F[S \ {x}]
    BY <1>1, AddsAnyhow
  <1>3. S = {} => F[S] = 0
    BY <1>1 DEF Adds
  <1>4. ASSUME NEW x \in S PROVE Total(f, S \ {x}) = F[S \ {x}]
    <2> DEFINE R == S \ {x}
    <2>1. R \in SUBSET S /\ IsFiniteSet(R)
      BY FS_RemoveElement
    <2> HIDE DEF R
    <2>2. PICK G : Adds(G, f, SUBSET R) /\ Total(f, R) = G[R]
      BY <2>1, TotalAdds
    <2>3. R \in SUBSET R
      OBVIOUS
    <2>4. F[R] = G[R]
      BY <1>1, <2>1, <2>2, <2>3, AddsAgree
    <2> QED BY <2>2, <2>4 DEF R
  <1> QED BY <1>1, <1>2, <1>3, <1>4

\* The same numbers add up to the same, in whatever order they came.
LEMMA TotalSame ==
    ASSUME NEW D, NEW E, NEW h \in Bijection(D, E), NEW f \in [D -> Nat], NEW g \in [E -> Nat],
           \A x \in D : f[x] = g[h[x]], NEW A \in SUBSET D, IsFiniteSet(A)
    PROVE  Total(f, A) = Total(g, Image(h, A))
  <1> DEFINE Odd(X) == Total(f, X) # Total(g, Image(h, X))
             T == {n \in Nat : \E X \in SUBSET A : Odd(X) /\ Cardinality(X) = n}
  <1>0. \A X \in SUBSET A : IsFiniteSet(X) /\ Cardinality(X) \in Nat
    BY FS_Subset, FS_CardinalityType
  <1>1. SUFFICES ASSUME Odd(A) PROVE FALSE
    OBVIOUS
  <1>2. Cardinality(A) \in T
    BY <1>0, <1>1
  <1>3. PICK n \in T : \A m \in T : n <= m
    <2>1. T \subseteq Nat
      OBVIOUS
    <2> HIDE DEF T
    <2> QED BY <1>2, <2>1, Least
  <1>4. PICK X \in SUBSET A : Odd(X) /\ Cardinality(X) = n
    BY <1>3
  <1>h. (\A x \in D : h[x] \in E) /\ (\A x, y \in D : h[x] = h[y] => x = y)
    BY DEF Bijection, Injection, IsInjective
  <1>i. Image(h, X) \in SUBSET E /\ IsFiniteSet(Image(h, X))
    <2>1. X \in SUBSET D
      OBVIOUS
    <2>2. IsFiniteSet(Image(h, X))
      BY <1>0, <2>1, AsMany
    <2> QED BY <1>h, <2>1, <2>2 DEF Image
  <1>5. CASE X = {}
    <2>1. Image(h, X) = {}
      BY <1>5 DEF Image
    <2>2. Total(f, X) = 0
      BY <1>0, <1>5, Totalled
    <2>3. Total(g, Image(h, X)) = 0
      BY <1>i, <2>1, Totalled
    <2> QED BY <1>4, <2>2, <2>3
  <1>6. CASE X # {}
    <2>1. PICK x \in X : TRUE
      BY <1>6
    <2> DEFINE Y == X \ {x}
    <2>2. Y \in SUBSET A /\ IsFiniteSet(X) /\ X \in SUBSET D
      BY <1>0
    <2>3. Cardinality(Y) = Cardinality(X) - 1
      BY <1>0, TakenOut
    <2>4. Total(f, X) = f[x] + Total(f, Y)
      BY <2>2, Totalled
    <2>5. Image(h, X) \ {h[x]} = Image(h, Y) /\ h[x] \in Image(h, X)
      <3>1. ASSUME NEW z \in Image(h, X) \ {h[x]} PROVE z \in Image(h, Y)
        BY DEF Image
      <3>2. ASSUME NEW z \in Image(h, Y) PROVE z \in Image(h, X) \ {h[x]}
        BY <1>h, <2>2 DEF Image
      <3> QED BY <3>1, <3>2 DEF Image
    <2>6. Total(g, Image(h, X)) = g[h[x]] + Total(g, Image(h, Y))
      <3> DEFINE B == Image(h, X)
      <3>1. B \in SUBSET E /\ IsFiniteSet(B) /\ h[x] \in B
        BY <1>i, <2>5
      <3> HIDE DEF B
      <3>2. Total(g, B) = g[h[x]] + Total(g, B \ {h[x]})
        BY <3>1, Totalled
      <3> QED BY <2>5, <3>2 DEF B
    <2> HIDE DEF Y
    <2>7. Total(f, Y) = Total(g, Image(h, Y))
      BY <1>0, <1>3, <1>4, <2>2, <2>3
    <2>8. f[x] = g[h[x]]
      BY <2>2
    <2> QED BY <1>4, <2>4, <2>6, <2>7, <2>8
  <1> QED BY <1>5, <1>6

-----------------------------------------------------------------------------
(* Giving.                                                                 *)

\* Rows of money.
Money(S) == \A r \in S : r.currency \in Nat /\ r.amount \in Nat

Of(rows, c) == {i \in DOMAIN rows : rows[i].currency = c}
Amounts(rows) == [i \in DOMAIN rows |-> rows[i].amount]
Bucket(rows, c) == [currency |-> c, count |-> Cardinality(Of(rows, c)), total |-> Total(Amounts(rows), Of(rows, c))]
BucketRow == [currency : Nat, count : Nat, total : Nat]
Firsts(rows) == {i \in DOMAIN rows : \A j \in 1..i - 1 : rows[j].currency # rows[i].currency}

\* A bucket is a row of numbers.
LEMMA BucketType ==
    ASSUME NEW S, Money(S), NEW rows \in Seq(S), NEW c \in Nat
    PROVE  Bucket(rows, c) \in BucketRow
  <1>1. Amounts(rows) \in [DOMAIN rows -> Nat]
    BY DEF Amounts, Money
  <1>2. IsFiniteSet(DOMAIN rows)
    BY FS_Interval
  <1>3. Of(rows, c) \in SUBSET DOMAIN rows /\ IsFiniteSet(Of(rows, c))
    BY <1>2, FS_Subset DEF Of
  <1>4. Total(Amounts(rows), Of(rows, c)) \in Nat
    BY <1>1, <1>3, Totalled
  <1>5. Cardinality(Of(rows, c)) \in Nat
    BY <1>3, FS_CardinalityType
  <1> QED BY <1>4, <1>5 DEF Bucket, BucketRow

\* There is one bucket for every currency of the rows.
LEMMA BucketsAre ==
    ASSUME NEW S, Money(S), NEW rows \in Seq(S)
    PROVE  /\ Buckets(rows) \in Seq(BucketRow)
           /\ ToSet(Buckets(rows)) = {Bucket(rows, rows[i].currency) : i \in DOMAIN rows}
           /\ \A m, n \in DOMAIN Buckets(rows) :
                 Buckets(rows)[m].currency = Buckets(rows)[n].currency => m = n
           /\ Buckets(rows) = <<>> <=> rows = <<>>
  <1> DEFINE all == [i \in DOMAIN rows |-> i]
             first == Kept(all, Firsts(rows))
             b == [n \in DOMAIN first |-> Bucket(rows, rows[first[n]].currency)]
  <1>1. all \in Seq(Nat) /\ DOMAIN all = DOMAIN rows /\ Len(all) = Len(rows)
    OBVIOUS
  <1>2. Where(all, LAMBDA i : \A j \in 1..i - 1 : rows[j].currency # rows[i].currency) = first
    <2>1. <<>> \o all = all
      BY <1>1, Nothing
    <2>2. Where(all, LAMBDA i : \A j \in 1..i - 1 : rows[j].currency # rows[i].currency)
            = Kept(all, {i \in DOMAIN all : \A j \in 1..all[i] - 1 : rows[j].currency # rows[all[i]].currency})
      <3> HIDE DEF all
      <3> QED BY <2>1 DEF Where
    <2>3. {i \in DOMAIN all : \A j \in 1..all[i] - 1 : rows[j].currency # rows[all[i]].currency} = Firsts(rows)
      BY DEF Firsts
    <2> QED BY <2>2, <2>3
  <1>3. Buckets(rows) = b
    BY <1>2, Zenon DEF Buckets, Bucket, Of, Amounts
  <1>4. /\ first \in Seq(Nat) /\ IsFiniteSet(Firsts(rows)) /\ Len(first) = Cardinality(Firsts(rows))
        /\ \E o : Keeps(o, all, Firsts(rows))
    <2>1. Firsts(rows) \in SUBSET DOMAIN all
      BY <1>1 DEF Firsts
    <2> HIDE DEF all
    <2> QED BY <1>1, <2>1, Keeping
  <1>5. PICK o \in Bijection(1..Cardinality(Firsts(rows)), Firsts(rows)) :
              first = [n \in 1..Cardinality(Firsts(rows)) |-> all[o[n]]]
    BY <1>4 DEF Keeps
  <1> DEFINE N == Cardinality(Firsts(rows))
  <1>6. /\ \A n \in 1..N : o[n] \in Firsts(rows)
        /\ \A m, n \in 1..N : o[m] = o[n] => m = n
        /\ \A i \in Firsts(rows) : \E n \in 1..N : o[n] = i
    BY <1>5 DEF Bijection, Injection, IsInjective, Surjection
  <1>7. DOMAIN first = 1..N /\ \A n \in 1..N : first[n] = o[n]
    <2>1. \A i \in Firsts(rows) : all[i] = i
      BY DEF Firsts
    <2> HIDE DEF all
    <2> QED BY <1>5, <1>6, <2>1
  <1>8. N \in Nat
    BY <1>4, FS_CardinalityType
  <1> HIDE DEF all, first, N
  <1>9. ASSUME NEW i \in DOMAIN rows
        PROVE  /\ rows[i].currency \in Nat
               /\ \E j \in Firsts(rows) : rows[j].currency = rows[i].currency
    <2>1. rows[i].currency \in Nat
      BY DEF Money
    <2> DEFINE T == {j \in DOMAIN rows : rows[j].currency = rows[i].currency}
    <2>2. T \subseteq Nat /\ i \in T
      OBVIOUS
    <2>3. PICK j \in T : \A k \in T : j <= k
      <3> HIDE DEF T
      <3> QED BY <2>2, Least
    <2>4. j \in Firsts(rows)
      BY <2>3 DEF Firsts
    <2> QED BY <2>1, <2>3, <2>4
  <1>10. \A i \in Firsts(rows) : i \in DOMAIN rows
    BY DEF Firsts
  <1>11. DOMAIN b = 1..N /\ \A n \in 1..N : b[n] = Bucket(rows, rows[o[n]].currency)
    BY <1>7
  <1>12. \A n \in 1..N : b[n] \in BucketRow
    <2> SUFFICES ASSUME NEW n \in 1..N PROVE b[n] \in BucketRow
      OBVIOUS
    <2>1. o[n] \in DOMAIN rows
      BY <1>6, <1>10
    <2>2. rows[o[n]].currency \in Nat
      BY <1>9, <2>1
    <2> QED BY <1>11, <2>2, BucketType
  <1>13. b \in Seq(BucketRow)
    <2>1. b = [n \in 1..N |-> b[n]]
      BY <1>11
    <2> QED BY <1>8, <1>12, <2>1
  <1>14. ToSet(b) = {Bucket(rows, rows[i].currency) : i \in DOMAIN rows}
    <2>1. ToSet(b) = {Bucket(rows, rows[o[n]].currency) : n \in 1..N}
      BY <1>11 DEF ToSet
    <2>2. ASSUME NEW i \in DOMAIN rows
          PROVE  \E n \in 1..N : rows[o[n]].currency = rows[i].currency
      BY <1>6, <1>9
    <2>3. \A n \in 1..N : o[n] \in DOMAIN rows
      BY <1>6, <1>10
    <2> QED BY <2>1, <2>2, <2>3
  <1>15. \A m, n \in DOMAIN b : b[m].currency = b[n].currency => m = n
    <2> SUFFICES ASSUME NEW m \in 1..N, NEW n \in 1..N, b[m].currency = b[n].currency PROVE m = n
      BY <1>11
    <2>1. rows[o[m]].currency = rows[o[n]].currency
      BY <1>11 DEF Bucket
    <2>2. o[m] \in Firsts(rows) /\ o[n] \in Firsts(rows) /\ o[m] \in Nat /\ o[n] \in Nat
            /\ o[m] > 0 /\ o[n] > 0
      BY <1>6 DEF Firsts
    <2>3. ~(o[m] < o[n]) /\ ~(o[n] < o[m])
      <3>1. o[m] \notin 1..o[n] - 1 /\ o[n] \notin 1..o[m] - 1
        BY <2>1, <2>2, Zenon DEF Firsts
      <3> QED BY <3>1, <2>2
    <2>4. o[m] = o[n]
      BY <2>2, <2>3
    <2> QED BY <1>6, <2>4
  <1>16. b = <<>> <=> rows = <<>>
    <2>1. rows = <<>> => N = 0
      <3>1. rows = <<>> => Firsts(rows) = {}
        BY DEF Firsts
      <3> QED BY <3>1, FS_EmptySet DEF N
    <2>2. rows # <<>> => N # 0
      <3>1. rows # <<>> => 1 \in DOMAIN rows
        OBVIOUS
      <3> QED BY <1>6, <1>8, <1>9, <3>1
    <2>3. b = <<>> <=> N = 0
      <3>1. Len(b) = N
        BY <1>8, <1>11, <1>13
      <3> HIDE DEF b
      <3>2. b = <<>> <=> Len(b) = 0
        BY <1>13
      <3> QED BY <3>1, <3>2
    <2> QED BY <2>1, <2>2, <2>3
  <1> HIDE DEF b
  <1> QED BY <1>3, <1>13, <1>14, <1>15, <1>16

\* So many numbers are there up to n.
LEMMA UpTo == ASSUME NEW n \in Nat PROVE IsFiniteSet(1..n) /\ Cardinality(1..n) = n
  BY FS_Interval

\* Shuffled rows are as many.
LEMMA ShuffledLength ==
    ASSUME NEW S, NEW a \in Seq(S), NEW b \in Seq(S), Shuffled(a, b)
    PROVE  Len(a) = Len(b) /\ ToSet(a) = ToSet(b)
  <1>1. PICK h \in Bijection(DOMAIN a, DOMAIN b) : \A i \in DOMAIN a : a[i] = b[h[i]]
    BY DEF Shuffled
  <1>2. IsFiniteSet(1..Len(a)) /\ Cardinality(1..Len(a)) = Len(a)
          /\ IsFiniteSet(1..Len(b)) /\ Cardinality(1..Len(b)) = Len(b)
    <2>1. Len(a) \in Nat /\ Len(b) \in Nat
      OBVIOUS
    <2> QED BY <2>1, UpTo
  <1>3. DOMAIN a = 1..Len(a) /\ DOMAIN b = 1..Len(b)
    OBVIOUS
  <1>4. ExistsBijection(1..Len(a), 1..Len(b))
    BY <1>1, <1>3 DEF ExistsBijection
  <1>5. Len(a) = Len(b)
    BY <1>2, <1>4, FS_Bijection
  <1>6. (\A i \in DOMAIN a : h[i] \in DOMAIN b) /\ \A j \in DOMAIN b : \E i \in DOMAIN a : h[i] = j
    BY <1>1 DEF Bijection, Injection, Surjection
  <1>7. ToSet(a) = ToSet(b)
    <2>1. \A i \in DOMAIN a : a[i] \in ToSet(b)
      BY <1>1, <1>6 DEF ToSet
    <2>2. \A j \in DOMAIN b : b[j] \in ToSet(a)
      BY <1>1, <1>6 DEF ToSet
    <2> QED BY <2>1, <2>2 DEF ToSet
  <1> QED BY <1>5, <1>7

\* A bucket holds the same, in whatever order the rows came.
LEMMA BucketSame ==
    ASSUME NEW S, Money(S), NEW a \in Seq(S), NEW b \in Seq(S), Shuffled(a, b), NEW c
    PROVE  Bucket(a, c) = Bucket(b, c)
  <1>1. PICK h \in Bijection(DOMAIN a, DOMAIN b) : \A i \in DOMAIN a : a[i] = b[h[i]]
    BY DEF Shuffled
  <1>2. (\A i \in DOMAIN a : h[i] \in DOMAIN b) /\ \A j \in DOMAIN b : \E i \in DOMAIN a : h[i] = j
    BY <1>1 DEF Bijection, Injection, Surjection
  <1>3. Of(a, c) \in SUBSET DOMAIN a /\ IsFiniteSet(Of(a, c))
    <2>1. IsFiniteSet(DOMAIN a)
      BY FS_Interval
    <2> QED BY <2>1, FS_Subset DEF Of
  <1>4. Of(b, c) = Image(h, Of(a, c))
    <2>1. \A j \in Of(b, c) : j \in Image(h, Of(a, c))
      BY <1>1, <1>2 DEF Of, Image
    <2>2. \A j \in Image(h, Of(a, c)) : j \in Of(b, c)
      BY <1>1, <1>2 DEF Of, Image
    <2> QED BY <2>1, <2>2
  <1>5. Cardinality(Of(b, c)) = Cardinality(Of(a, c))
    BY <1>1, <1>3, <1>4, AsMany
  <1>6. /\ Amounts(a) \in [DOMAIN a -> Nat] /\ Amounts(b) \in [DOMAIN b -> Nat]
        /\ \A i \in DOMAIN a : Amounts(a)[i] = Amounts(b)[h[i]]
    BY <1>1, <1>2 DEF Amounts, Money
  <1>7. Total(Amounts(a), Of(a, c)) = Total(Amounts(b), Image(h, Of(a, c)))
    <2> DEFINE D == DOMAIN a
               E == DOMAIN b
               f == Amounts(a)
               g == Amounts(b)
               A == Of(a, c)
    <2>1. /\ h \in Bijection(D, E) /\ f \in [D -> Nat] /\ g \in [E -> Nat]
          /\ (\A i \in D : f[i] = g[h[i]]) /\ A \in SUBSET D /\ IsFiniteSet(A)
      BY <1>1, <1>3, <1>6
    <2> HIDE DEF D, E, f, g, A
    <2>2. Total(f, A) = Total(g, Image(h, A))
      BY <2>1, TotalSame, SMTT(20)
    <2> QED BY <2>2 DEF f, g, A
  <1> QED BY <1>4, <1>5, <1>7 DEF Bucket

\* Most gifts first, then the larger total, then the currency's name.
Rank == [b \in BucketRow |-> <<-b.count, -b.total, b.currency>>]
Given(rows) ==
    IF rows = <<>> THEN [currency |-> 0, total |-> 0, count |-> 0, others |-> 0]
    ELSE LET ranked == Sorted(Buckets(rows), Rank)
         IN [currency |-> ranked[1].currency, total |-> ranked[1].total,
             count |-> Len(rows), others |-> Len(ranked) - 1]

\* A rank is three numbers.
LEMMA RankType == Rank \in [BucketRow -> Keys(3)]
  <1> SUFFICES ASSUME NEW b \in BucketRow PROVE <<-b.count, -b.total, b.currency>> \in Keys(3)
    BY DEF Rank
  <1>1. -b.count \in Int /\ -b.total \in Int /\ b.currency \in Int
    BY DEF BucketRow
  <1> QED BY <1>1 DEF Keys

\* The dashboard, the payments page, the waqf page and My Orphans, each with its
\* own code, rank the currencies alike.
LEMMA GivingIs ==
    ASSUME NEW S, Money(S), NEW rows \in Seq(S)
    PROVE  /\ Giving(rows, YtdRank) = Given(rows)
           /\ Giving(rows, YearRank) = Given(rows)
           /\ Giving(rows, WaqfRank) = Given(rows)
           /\ Giving(rows, ImpactRank) = Given(rows)
  <1> DEFINE B == Buckets(rows)
             key == [i \in DOMAIN B |-> <<-B[i].count, -B[i].total, B[i].currency>>]
  <1>1. B \in Seq(BucketRow)
    BY BucketsAre
  <1> HIDE DEF B
  <1>2. <<>> \o B = B
    BY <1>1, Nothing
  <1>3. key = [i \in DOMAIN B |-> Rank[B[i]]]
    BY <1>1 DEF Rank
  <1>4. Sorted(B, Rank) = Listed(B, DOMAIN B, ByKey(key))
    BY <1>3 DEF Sorted
  <1>5. /\ SortedBy(B, YtdRank) = Listed(B, DOMAIN B, ByKey(key))
        /\ SortedBy(B, YearRank) = Listed(B, DOMAIN B, ByKey(key))
        /\ SortedBy(B, WaqfRank) = Listed(B, DOMAIN B, ByKey(key))
        /\ SortedBy(B, ImpactRank) = Listed(B, DOMAIN B, ByKey(key))
    BY <1>2 DEF SortedBy, YtdRank, YearRank, WaqfRank, ImpactRank
  <1> HIDE DEF key
  <1>6. /\ SortedBy(Buckets(rows), YtdRank) = Sorted(Buckets(rows), Rank)
        /\ SortedBy(Buckets(rows), YearRank) = Sorted(Buckets(rows), Rank)
        /\ SortedBy(Buckets(rows), WaqfRank) = Sorted(Buckets(rows), Rank)
        /\ SortedBy(Buckets(rows), ImpactRank) = Sorted(Buckets(rows), Rank)
    BY <1>4, <1>5 DEF B
  <1> QED BY <1>6 DEF Giving, Given

\* What was given is the same, in whatever order the rows came.
LEMMA GivenSame ==
    ASSUME NEW S, Money(S), NEW a \in Seq(S), NEW b \in Seq(S), Shuffled(a, b)
    PROVE  Given(a) = Given(b)
  <1> DEFINE A == Buckets(a)
             B == Buckets(b)
  <1>1. Len(a) = Len(b)
    BY ShuffledLength
  <1>2. a = <<>> <=> b = <<>>
    BY <1>1
  <1>3. /\ A \in Seq(BucketRow) /\ ToSet(A) = {Bucket(a, a[i].currency) : i \in DOMAIN a}
        /\ \A m, n \in DOMAIN A : A[m].currency = A[n].currency => m = n
    BY BucketsAre
  <1>4. /\ B \in Seq(BucketRow) /\ ToSet(B) = {Bucket(b, b[i].currency) : i \in DOMAIN b}
        /\ \A m, n \in DOMAIN B : B[m].currency = B[n].currency => m = n
    BY BucketsAre
  <1>5. ToSet(A) = ToSet(B)
    <2>1. PICK h \in Bijection(DOMAIN a, DOMAIN b) : \A i \in DOMAIN a : a[i] = b[h[i]]
      BY DEF Shuffled
    <2>2. (\A i \in DOMAIN a : h[i] \in DOMAIN b) /\ \A j \in DOMAIN b : \E i \in DOMAIN a : h[i] = j
      BY <2>1 DEF Bijection, Injection, Surjection
    <2>3. \A c : Bucket(a, c) = Bucket(b, c)
      BY BucketSame
    <2> HIDE DEF A, B
    <2>4. \A i \in DOMAIN a : Bucket(a, a[i].currency) \in ToSet(B)
      <3> SUFFICES ASSUME NEW i \in DOMAIN a PROVE Bucket(a, a[i].currency) \in ToSet(B)
        OBVIOUS
      <3>1. h[i] \in DOMAIN b /\ Bucket(a, a[i].currency) = Bucket(b, b[h[i]].currency)
        BY <2>1, <2>2, <2>3
      <3> QED BY <1>4, <3>1
    <2>5. \A j \in DOMAIN b : Bucket(b, b[j].currency) \in ToSet(A)
      BY <1>3, <2>1, <2>2, <2>3
    <2> QED BY <1>3, <1>4, <2>4, <2>5
  <1> HIDE DEF A, B
  <1>6. Shuffled(A, B)
    BY <1>3, <1>4, <1>5, SameSetShuffled
  <1>7. \A i, j \in DOMAIN A : Rank[A[i]] = Rank[A[j]] => i = j
    <2> SUFFICES ASSUME NEW i \in DOMAIN A, NEW j \in DOMAIN A, Rank[A[i]] = Rank[A[j]] PROVE i = j
      OBVIOUS
    <2>1. A[i] \in BucketRow /\ A[j] \in BucketRow
      BY <1>3
    <2>2. Rank[A[i]][3] = A[i].currency /\ Rank[A[j]][3] = A[j].currency
      BY <2>1 DEF Rank
    <2> QED BY <1>3, <2>2
  <1>8. Sorted(A, Rank) = Sorted(B, Rank)
    <2>1. A \in Seq(BucketRow) /\ B \in Seq(BucketRow) /\ 3 \in Nat
      BY <1>3, <1>4
    <2>2. Distinct(A, Rank)
      BY <1>7 DEF Distinct
    <2> QED BY <2>1, <1>6, <2>2, RankType, SortedAlike
  <1> QED BY <1>1, <1>2, <1>8 DEF Given, A, B

-----------------------------------------------------------------------------
(* Payments.                                                               *)

Done(S) == {p \in S : Completed(p)}
InYear(S, year) == {p \in S : Year(EffectiveDate(p)) = year}
ToWaqf(S) == {p \in S : p.waqf}
UnderChip(S, c) == {p \in S : c = "all" \/ FoldStatus(p.status) = c}

\* What the three pages add up, and what the chips count and let through.
LEMMA PaymentsAre ==
    ASSUME NEW S, Money(S), NEW rows \in Seq(S)
    PROVE  /\ SummarizeYearToDate(rows) = Given(Passing(rows, Done(S) \cap InYear(S, CurrentYear)))
           /\ \A y : SummarizeYear(rows, y) = Given(Passing(Passing(rows, InYear(S, y)), Done(S)))
           /\ SummarizeMyWaqf(rows) = Given(Passing(rows, ToWaqf(S) \cap Done(S)))
           /\ Where(rows, Completed) = Passing(rows, Done(S))
           /\ \A c : FilterPaymentRows(rows, c) = Passing(rows, UnderChip(S, c))
           /\ \A c : CountByStatus(rows, c) = Len(Passing(rows, UnderChip(S, c)))
  <1>1. ASSUME NEW r \in Seq(S)
        PROVE  <<>> \o r = r /\ \A i \in DOMAIN r : r[i] \in S
    BY Nothing
  <1>2. ASSUME NEW r \in Seq(S)
        PROVE  Where(r, Completed) = Passing(r, Done(S))
    <2>1. {i \in DOMAIN r : Completed(r[i])} = {i \in DOMAIN r : r[i] \in Done(S)}
      BY <1>1 DEF Done
    <2>2. Where(r, Completed) = Kept(r, {i \in DOMAIN r : Completed(r[i])})
      BY <1>1 DEF Where
    <2> QED BY <2>1, <2>2 DEF Passing
  <1>3. SummarizeYearToDate(rows) = Given(Passing(rows, Done(S) \cap InYear(S, CurrentYear)))
    <2> DEFINE I == {i \in DOMAIN rows : /\ Completed(rows[i])
                                         /\ Year(IF rows[i].completed # 0 THEN rows[i].completed
                                                 ELSE rows[i].initiated) = CurrentYear}
    <2>1. I = {i \in DOMAIN rows : rows[i] \in Done(S) \cap InYear(S, CurrentYear)}
      BY <1>1 DEF Done, InYear, EffectiveDate
    <2>2. Where(rows, LAMBDA p : /\ Completed(p)
                                 /\ Year(IF p.completed # 0 THEN p.completed ELSE p.initiated) = CurrentYear)
            = Kept(rows, I)
      BY <1>1 DEF Where
    <2> HIDE DEF I
    <2>3. Kept(rows, I) \in Seq(S)
      BY <2>1, PassingRows DEF Passing
    <2>4. SummarizeYearToDate(rows) = Giving(Kept(rows, I), YtdRank)
      BY <2>2 DEF SummarizeYearToDate
    <2> QED BY <2>1, <2>3, <2>4, GivingIs DEF Passing
  <1>4. ASSUME NEW y
        PROVE  SummarizeYear(rows, y) = Given(Passing(Passing(rows, InYear(S, y)), Done(S)))
    <2>1. {i \in DOMAIN rows : Year(EffectiveDate(rows[i])) = y} = {i \in DOMAIN rows : rows[i] \in InYear(S, y)}
      BY <1>1 DEF InYear
    <2>2. RowsInYear(rows, y) = Kept(rows, {i \in DOMAIN rows : Year(EffectiveDate(rows[i])) = y})
      BY <1>1 DEF Where, RowsInYear
    <2>3. RowsInYear(rows, y) = Passing(rows, InYear(S, y)) /\ RowsInYear(rows, y) \in Seq(S)
      <3>1. RowsInYear(rows, y) = Passing(rows, InYear(S, y))
        BY <2>1, <2>2 DEF Passing
      <3> QED BY <3>1, PassingType
    <2>4. Where(RowsInYear(rows, y), Completed) = Passing(RowsInYear(rows, y), Done(S))
      BY <1>2, <2>3
    <2>5. Passing(RowsInYear(rows, y), Done(S)) \in Seq(S)
      BY <2>3, PassingRows
    <2>6. SummarizeYear(rows, y) = Giving(Passing(RowsInYear(rows, y), Done(S)), YearRank)
      BY <2>4 DEF SummarizeYear
    <2> QED BY <2>3, <2>5, <2>6, GivingIs
  <1>5. SummarizeMyWaqf(rows) = Given(Passing(rows, ToWaqf(S) \cap Done(S)))
    <2> DEFINE I == {i \in DOMAIN rows : rows[i].waqf /\ Completed(rows[i])}
    <2>1. I = {i \in DOMAIN rows : rows[i] \in ToWaqf(S) \cap Done(S)}
      BY <1>1 DEF Done, ToWaqf
    <2>2. Where(rows, LAMBDA p : p.waqf /\ Completed(p)) = Kept(rows, I)
      BY <1>1 DEF Where
    <2> HIDE DEF I
    <2>3. Kept(rows, I) \in Seq(S)
      BY <2>1, PassingRows DEF Passing
    <2>4. SummarizeMyWaqf(rows) = Giving(Kept(rows, I), WaqfRank)
      BY <2>2 DEF SummarizeMyWaqf
    <2> QED BY <2>1, <2>3, <2>4, GivingIs DEF Passing
  <1>6. ASSUME NEW c
        PROVE  /\ FilterPaymentRows(rows, c) = Passing(rows, UnderChip(S, c))
               /\ CountByStatus(rows, c) = Len(Passing(rows, UnderChip(S, c)))
    <2> DEFINE I == {i \in DOMAIN rows : c = "all" \/ FoldStatus(rows[i].status) = c}
    <2>1. I = {i \in DOMAIN rows : rows[i] \in UnderChip(S, c)}
      BY <1>1 DEF UnderChip
    <2>2. FilterPaymentRows(rows, c) = Kept(rows, I)
      BY <1>1 DEF Where, FilterPaymentRows
    <2>3. Len(Passing(rows, UnderChip(S, c))) = Cardinality(I)
      <3> HIDE DEF I
      <3>1. Len(Passing(rows, UnderChip(S, c))) = Cardinality({i \in DOMAIN rows : rows[i] \in UnderChip(S, c)})
        BY PassingType
      <3> QED BY <2>1, <3>1
    <2>4. CASE c = "all"
      <3>1. I = 1..Len(rows) /\ Len(rows) \in Nat
        BY <2>4
      <3>2. Cardinality(I) = Len(rows)
        BY <3>1, UpTo
      <3> QED BY <2>1, <2>2, <2>3, <2>4, <3>2 DEF Passing, CountByStatus
    <2>5. CASE c # "all"
      <3>1. I = {i \in DOMAIN rows : FoldStatus(rows[i].status) = c}
        BY <2>5
      <3> HIDE DEF I
      <3> QED BY <2>1, <2>2, <2>3, <2>5, <3>1 DEF Passing, CountByStatus
    <2> QED BY <2>4, <2>5
  <1> QED BY <1>2, <1>3, <1>4, <1>5, <1>6

\* The same rows pass, in whatever order they came and whatever they passed
\* before.
LEMMA PassingSame ==
    ASSUME NEW S, NEW a \in Seq(S), NEW b \in Seq(S), Injected(a), Injected(b),
           NEW X, NEW Y, ToSet(a) \cap X = ToSet(b) \cap Y
    PROVE  /\ Shuffled(Passing(a, X), Passing(b, Y))
           /\ Len(Passing(a, X)) = Len(Passing(b, Y))
  <1> DEFINE p == Passing(a, X)
             q == Passing(b, Y)
  <1>1. p \in Seq(S) /\ q \in Seq(S) /\ ToSet(p) = ToSet(q) /\ Injected(p) /\ Injected(q)
    <2>1. p \in Seq(S) /\ ToSet(p) = ToSet(a) \cap X /\ Injected(p)
      BY PassingRows
    <2>2. q \in Seq(S) /\ ToSet(q) = ToSet(b) \cap Y /\ Injected(q)
      BY PassingRows
    <2> QED BY <2>1, <2>2
  <1> HIDE DEF p, q
  <1>2. Shuffled(p, q)
    BY <1>1, SameSetShuffled DEF Injected
  <1>3. Len(p) = Len(q)
    BY <1>1, <1>2, ShuffledLength
  <1> QED BY <1>2, <1>3 DEF p, q

\* The dashboard, the payments page and the waqf page agree about the same rows.
THEOREM PagesAgree ==
    ASSUME NEW S, Money(S), NEW a \in Seq(S), NEW b \in Seq(S), Injected(a), Injected(b), ToSet(a) = ToSet(b)
    PROVE  LET year == SummarizeYear(a, CurrentYear)
               done == Where(a, Completed)
               ofYear == \A p \in ToSet(done) : Year(EffectiveDate(p)) = CurrentYear
           IN  /\ year = SummarizeYearToDate(b)
               /\ ofYear => year.count = CountByStatus(a, "completed")
               /\ (ofYear /\ \A p \in ToSet(done) : p.waqf) => year = SummarizeMyWaqf(b)
  <1> DEFINE T == InYear(S, CurrentYear)
             rows == Passing(a, T)
             shown == Passing(rows, Done(S))
             done == Passing(a, Done(S))
  <1>1. rows \in Seq(S) /\ Injected(rows) /\ ToSet(rows) = ToSet(a) \cap T /\ ToSet(a) \subseteq S
    <2>1. ToSet(a) \subseteq S
      BY DEF ToSet
    <2> QED BY <2>1, PassingRows
  <1>2. shown \in Seq(S)
    BY <1>1, PassingRows
  <1>3. ToSet(done) = ToSet(a) \cap Done(S)
    BY PassingRows
  <1>4. SummarizeYear(a, CurrentYear) = Given(shown)
    BY PaymentsAre
  <1>5. SummarizeYear(a, CurrentYear) = SummarizeYearToDate(b)
    <2> DEFINE X == Done(S) \cap T
               ytd == Passing(b, X)
    <2>1. ytd \in Seq(S) /\ SummarizeYearToDate(b) = Given(ytd)
      BY PassingRows, PaymentsAre
    <2>2. ToSet(rows) \cap Done(S) = ToSet(b) \cap X
      BY <1>1
    <2> HIDE DEF rows, X
    <2>3. Shuffled(shown, ytd)
      BY <1>1, <2>2, PassingSame
    <2> HIDE DEF shown, ytd
    <2>4. Given(shown) = Given(ytd)
      BY <1>2, <2>1, <2>3, GivenSame
    <2> QED BY <1>4, <2>1, <2>4
  <1>6. ASSUME \A p \in ToSet(done) : Year(EffectiveDate(p)) = CurrentYear
        PROVE  Given(shown).count = CountByStatus(a, "completed")
    <2>1. UnderChip(S, "completed") = Done(S)
      BY DEF UnderChip, Done, Completed
    <2>2. CountByStatus(a, "completed") = Len(done)
      BY <2>1, PaymentsAre
    <2>3. ToSet(rows) \cap Done(S) = ToSet(a) \cap Done(S)
      BY <1>1, <1>3, <1>6 DEF InYear
    <2> HIDE DEF rows
    <2>4. Len(shown) = Len(done)
      BY <1>1, <2>3, PassingSame
    <2> HIDE DEF shown
    <2>5. Given(shown).count = Len(shown)
      BY <1>2 DEF Given
    <2> QED BY <2>2, <2>4, <2>5
  <1>7. ASSUME \A p \in ToSet(done) : Year(EffectiveDate(p)) = CurrentYear, \A p \in ToSet(done) : p.waqf
        PROVE  Given(shown) = SummarizeMyWaqf(b)
    <2> DEFINE X == ToWaqf(S) \cap Done(S)
               waqf == Passing(b, X)
    <2>1. waqf \in Seq(S) /\ SummarizeMyWaqf(b) = Given(waqf)
      BY PassingRows, PaymentsAre
    <2>2. ToSet(rows) \cap Done(S) = ToSet(b) \cap X
      BY <1>1, <1>3, <1>7 DEF InYear, ToWaqf
    <2> HIDE DEF rows, X
    <2>3. Shuffled(shown, waqf)
      BY <1>1, <2>2, PassingSame
    <2> HIDE DEF shown, waqf
    <2>4. Given(shown) = Given(waqf)
      BY <1>2, <2>1, <2>3, GivenSame
    <2> QED BY <2>1, <2>4
  <1>8. Where(a, Completed) = done
    BY PaymentsAre
  <1> HIDE DEF shown, done
  <1> QED BY <1>4, <1>5, <1>6, <1>7, <1>8

\* Every row under the chip in effect, as many as the chip says, and some when
\* there are any.
THEOREM ChipsHold ==
    ASSUME NEW S, Money(S), NEW rows \in Seq(S), NEW chip
    PROVE  LET active == ActiveChip(rows, chip)
               shown == FilterPaymentRows(rows, active)
           IN  /\ rows # <<>> => shown # <<>>
               /\ Len(shown) = CountByStatus(rows, active)
  <1> DEFINE active == ActiveChip(rows, chip)
             shown == FilterPaymentRows(rows, active)
  <1>1. Len(shown) = CountByStatus(rows, active)
    BY PaymentsAre
  <1>2. ASSUME rows # <<>>
        PROVE  shown # <<>>
    <2>1. CountByStatus(rows, "all") > 0
      BY <1>2 DEF CountByStatus
    <2>2. CountByStatus(rows, active) > 0
      BY <2>1 DEF ActiveChip
    <2> QED BY <1>1, <2>2
  <1> QED BY <1>1, <1>2

-----------------------------------------------------------------------------
(* Days.                                                                   *)

\* A finite set of days has a last one.
LEMMA Greatest ==
    ASSUME NEW T \in SUBSET Nat, IsFiniteSet(T), T # {}
    PROVE  \E x \in T : \A y \in T : x >= y
  <1> DEFINE N == Cardinality(T)
  <1>1. N \in Nat /\ N # 0
    BY FS_CardinalityType, FS_EmptySet
  <1>2. IsOrder(AsTheyCame(T), T)
    BY CameInOrder
  <1>3. PICK o : Puts(o, AsTheyCame(T), T)
    BY <1>2, Places
  <1>4. /\ \A n \in 1..N : o[n] \in T
        /\ \A x \in T : \E n \in 1..N : o[n] = x
        /\ \A m, n \in 1..N : m < n => o[m] < o[n]
    BY <1>3 DEF Puts, Bijection, Injection, Surjection, AsTheyCame
  <1> HIDE DEF N
  <1>5. o[N] \in T /\ \A y \in T : o[N] >= y
    <2>1. N \in 1..N
      BY <1>1
    <2> SUFFICES ASSUME NEW y \in T PROVE o[N] >= y
      BY <1>4, <2>1
    <2>2. PICK n \in 1..N : o[n] = y
      BY <1>4
    <2>3. n = N \/ n < N
      BY <1>1
    <2>4. o[n] \in Nat /\ o[N] \in Nat
      BY <1>4, <2>1
    <2> QED BY <1>4, <2>1, <2>2, <2>3, <2>4
  <1> QED BY <1>5

\* The latest of some days is a day.
LEMMA LatestType ==
    ASSUME NEW T \in SUBSET Nat, IsFiniteSet(T)
    PROVE  Latest(T) \in Nat
  <1>1. CASE T = {}
    BY <1>1 DEF Latest
  <1>2. CASE T # {}
    <2>1. \E x \in T : \A y \in T : x >= y
      BY <1>2, Greatest
    <2>2. Max(T) \in T
      BY <2>1 DEF Max
    <2> QED BY <1>2, <2>2 DEF Latest
  <1> QED BY <1>1, <1>2

\* The first of some days is one of them.
LEMMA Earliest ==
    ASSUME NEW T \in SUBSET Nat, T # {}
    PROVE  Min(T) \in T /\ \A y \in T : Min(T) <= y
  <1>1. \E x \in T : \A y \in T : x <= y
    BY Least
  <1> QED BY <1>1 DEF Min

-----------------------------------------------------------------------------
(* Cards.                                                                  *)

\* Rows of sponsorships, of reports and of messages.
Sponsored(S) ==
    \A s \in S : /\ s.id \in Nat /\ s.orphan \in Nat /\ s.name \in Nat /\ s.currency \in Nat
                 /\ s.monthly \in Nat /\ s.paid \in Nat /\ s.start \in Nat /\ s.next \in Nat
Reported(R) == \A r \in R : r.published \in Nat
Written(M) == \A m \in M : m.created \in Nat

LiveOf(S) == {s \in S : Live(s)}
CardRow(S) == [s : S, unread : Nat, unreadAt : Nat, reportAt : Nat]
UnreadOf(s, messages) ==
    {i \in DOMAIN messages : s.code # 0 /\ messages[i].code = s.code /\ IsUnreadIncoming(messages[i])}
CardOf(s, reports, messages) ==
    [s |-> s, unread |-> Cardinality(UnreadOf(s, messages)),
     unreadAt |-> Latest({messages[i].created : i \in UnreadOf(s, messages)}),
     reportAt |-> Latest({r.published : r \in {x \in ToSet(reports) : x.orphan = s.orphan}})]

\* One card for every live sponsorship.
LEMMA CardsAre ==
    ASSUME NEW S, NEW rows \in Seq(S), NEW reports, NEW messages
    PROVE  BuildOrphanCards(rows, reports, messages)
             = [i \in DOMAIN Passing(rows, LiveOf(S)) |-> CardOf(Passing(rows, LiveOf(S))[i], reports, messages)]
  <1>1. <<>> \o rows = rows /\ \A i \in DOMAIN rows : rows[i] \in S
    BY Nothing
  <1>2. {i \in DOMAIN rows : Live(rows[i])} = {i \in DOMAIN rows : rows[i] \in LiveOf(S)}
    BY <1>1 DEF LiveOf
  <1>3. Where(rows, Live) = Kept(rows, {i \in DOMAIN rows : Live(rows[i])})
    BY <1>1 DEF Where
  <1>4. Where(rows, Live) = Passing(rows, LiveOf(S))
    BY <1>2, <1>3 DEF Passing
  <1> QED BY <1>4, Zenon DEF BuildOrphanCards, CardOf, UnreadOf

\* A card is a row, a number and two days.
LEMMA CardType ==
    ASSUME NEW S, NEW s \in S, NEW R, Reported(R), NEW reports \in Seq(R),
           NEW M, Written(M), NEW messages \in Seq(M)
    PROVE  CardOf(s, reports, messages) \in CardRow(S)
  <1> DEFINE U == UnreadOf(s, messages)
             days == {messages[i].created : i \in U}
             published == {r.published : r \in {x \in ToSet(reports) : x.orphan = s.orphan}}
             I == {i \in DOMAIN reports : reports[i].orphan = s.orphan}
  <1>1. IsFiniteSet(DOMAIN messages) /\ IsFiniteSet(DOMAIN reports)
    BY UpTo
  <1>2. IsFiniteSet(U) /\ IsFiniteSet(I) /\ U \in SUBSET DOMAIN messages /\ I \in SUBSET DOMAIN reports
    BY <1>1, FS_Subset DEF UnreadOf
  <1>3. Cardinality(U) \in Nat
    BY <1>2, FS_CardinalityType
  <1>4. days \in SUBSET Nat /\ IsFiniteSet(days)
    <2> HIDE DEF U
    <2>1. days \in SUBSET Nat
      BY <1>2 DEF Written
    <2>2. [i \in U |-> messages[i].created] \in Surjection(U, days)
      BY DEF Surjection
    <2> HIDE DEF days
    <2> QED BY <1>2, <2>1, <2>2, FS_Surjection
  <1>5. published \in SUBSET Nat /\ IsFiniteSet(published)
    <2>1. published = {reports[i].published : i \in I}
      BY DEF ToSet
    <2> HIDE DEF I, published
    <2>2. published \in SUBSET Nat
      BY <1>2, <2>1 DEF Reported
    <2>3. [i \in I |-> reports[i].published] \in Surjection(I, published)
      BY <2>1 DEF Surjection
    <2> QED BY <1>2, <2>2, <2>3, FS_Surjection
  <1> HIDE DEF days, published, U
  <1>6. Latest(days) \in Nat /\ Latest(published) \in Nat
    BY <1>4, <1>5, LatestType
  <1> QED BY <1>3, <1>6 DEF CardOf, CardRow, days, published, U

\* The cards of rows: their type, what they are of, and that two of one number,
\* or of one child, are one.
LEMMA CardsType ==
    ASSUME NEW S, NEW rows \in Seq(S), NEW R, Reported(R), NEW reports \in Seq(R),
           NEW M, Written(M), NEW messages \in Seq(M)
    PROVE  LET cards == BuildOrphanCards(rows, reports, messages)
           IN  /\ cards \in Seq(CardRow(S))
               /\ ToSet(cards) = {CardOf(s, reports, messages) : s \in ToSet(rows) \cap LiveOf(S)}
               /\ (\A i, j \in DOMAIN rows : rows[i].id = rows[j].id => i = j)
                     => \A i, j \in DOMAIN cards : cards[i].s.id = cards[j].s.id => i = j
               /\ (\A i, j \in DOMAIN rows : Live(rows[i]) /\ Live(rows[j]) /\ rows[i].orphan = rows[j].orphan => i = j)
                     => \A i, j \in DOMAIN cards : cards[i].s.orphan = cards[j].s.orphan => i = j
  <1> DEFINE live == Passing(rows, LiveOf(S))
             cards == BuildOrphanCards(rows, reports, messages)
             I == {i \in DOMAIN rows : rows[i] \in LiveOf(S)}
  <1>1. live \in Seq(S) /\ ToSet(live) = ToSet(rows) \cap LiveOf(S)
    BY PassingRows
  <1>2. PICK o : Keeps(o, rows, I)
    <2>1. I \in SUBSET DOMAIN rows
      OBVIOUS
    <2> HIDE DEF I
    <2> QED BY <2>1, Keeping
  <1>3. /\ DOMAIN live = 1..Cardinality(I)
        /\ \A n \in DOMAIN live : live[n] = rows[o[n]] /\ o[n] \in I
        /\ \A m, n \in DOMAIN live : o[m] = o[n] => m = n
    <2>1. live = [n \in 1..Cardinality(I) |-> rows[o[n]]]
      BY <1>2 DEF Keeps, Passing
    <2>2. o \in Bijection(1..Cardinality(I), I)
      BY <1>2 DEF Keeps
    <2> HIDE DEF I, live
    <2> QED BY <2>1, <2>2 DEF Bijection, Injection, IsInjective
  <1>4. cards = [i \in DOMAIN live |-> CardOf(live[i], reports, messages)]
    BY CardsAre
  <1> HIDE DEF live, cards
  <1>5. cards \in Seq(CardRow(S))
    <2>1. \A i \in DOMAIN live : CardOf(live[i], reports, messages) \in CardRow(S)
      BY <1>1, CardType
    <2>2. DOMAIN live = 1..Len(live) /\ Len(live) \in Nat
      BY <1>1
    <2> QED BY <1>4, <2>1, <2>2
  <1>6. ToSet(cards) = {CardOf(s, reports, messages) : s \in ToSet(rows) \cap LiveOf(S)}
    <2>1. ToSet(cards) = {CardOf(live[i], reports, messages) : i \in DOMAIN live}
      BY <1>4 DEF ToSet
    <2>2. ToSet(live) = {live[i] : i \in DOMAIN live}
      BY DEF ToSet
    <2> QED BY <1>1, <2>1, <2>2
  <1>7. DOMAIN cards = DOMAIN live /\ \A i \in DOMAIN cards : cards[i].s = rows[o[i]] /\ o[i] \in DOMAIN rows /\ Live(rows[o[i]])
    BY <1>3, <1>4 DEF CardOf, LiveOf
  <1>8. ASSUME \A i, j \in DOMAIN rows : rows[i].id = rows[j].id => i = j,
               NEW i \in DOMAIN cards, NEW j \in DOMAIN cards, cards[i].s.id = cards[j].s.id
        PROVE  i = j
    BY <1>3, <1>7, <1>8
  <1>9. ASSUME \A i, j \in DOMAIN rows : Live(rows[i]) /\ Live(rows[j]) /\ rows[i].orphan = rows[j].orphan => i = j,
               NEW i \in DOMAIN cards, NEW j \in DOMAIN cards, cards[i].s.orphan = cards[j].s.orphan
        PROVE  i = j
    <2>1. o[i] \in DOMAIN rows /\ o[j] \in DOMAIN rows /\ Live(rows[o[i]]) /\ Live(rows[o[j]])
            /\ rows[o[i]].orphan = rows[o[j]].orphan
      BY <1>7, <1>9
    <2>2. o[i] = o[j]
      BY <1>9, <2>1
    <2> QED BY <1>3, <1>7, <2>2
  <1> QED BY <1>5, <1>6, <1>8, <1>9 DEF cards

\* A card says the same, in whatever order reports and messages came.
LEMMA CardSame ==
    ASSUME NEW s, NEW p, NEW q, ToSet(p) = ToSet(q), NEW M, NEW a \in Seq(M), NEW b \in Seq(M), Shuffled(a, b)
    PROVE  CardOf(s, p, a) = CardOf(s, q, b)
  <1>1. PICK h \in Bijection(DOMAIN a, DOMAIN b) : \A i \in DOMAIN a : a[i] = b[h[i]]
    BY DEF Shuffled
  <1>2. (\A i \in DOMAIN a : h[i] \in DOMAIN b) /\ \A j \in DOMAIN b : \E i \in DOMAIN a : h[i] = j
    BY <1>1 DEF Bijection, Injection, Surjection
  <1> DEFINE U == UnreadOf(s, a)
             V == UnreadOf(s, b)
  <1>3. IsFiniteSet(U) /\ U \in SUBSET DOMAIN a
    <2>1. IsFiniteSet(DOMAIN a)
      BY UpTo
    <2> QED BY <2>1, FS_Subset DEF UnreadOf
  <1>4. V = Image(h, U)
    <2>1. \A j \in V : j \in Image(h, U)
      BY <1>1, <1>2 DEF UnreadOf, Image
    <2>2. \A j \in Image(h, U) : j \in V
      BY <1>1, <1>2 DEF UnreadOf, Image
    <2> QED BY <2>1, <2>2
  <1> HIDE DEF U, V
  <1>5. Cardinality(V) = Cardinality(U)
    BY <1>1, <1>3, <1>4, AsMany
  <1>6. {a[i].created : i \in U} = {b[j].created : j \in V}
    <2>1. \A i \in U : h[i] \in V /\ a[i].created = b[h[i]].created
      BY <1>1, <1>3, <1>4 DEF Image
    <2>2. \A j \in V : \E i \in U : h[i] = j
      BY <1>4 DEF Image
    <2> QED BY <2>1, <2>2
  <1> QED BY <1>5, <1>6 DEF CardOf, U, V

\* The same rows, in whatever order they came, make the same cards.
LEMMA CardsShuffled ==
    ASSUME NEW S, NEW c \in Seq(S), NEW d \in Seq(S), Shuffled(c, d), NEW p, NEW q, ToSet(p) = ToSet(q),
           NEW M, NEW a \in Seq(M), NEW b \in Seq(M), Shuffled(a, b)
    PROVE  Shuffled(BuildOrphanCards(c, p, a), BuildOrphanCards(d, q, b))
  <1> DEFINE C == Passing(c, LiveOf(S))
             D == Passing(d, LiveOf(S))
  <1>1. Shuffled(C, D)
    BY PassingShuffled
  <1>2. /\ BuildOrphanCards(c, p, a) = [i \in DOMAIN C |-> CardOf(C[i], p, a)]
        /\ BuildOrphanCards(d, q, b) = [i \in DOMAIN D |-> CardOf(D[i], q, b)]
    BY CardsAre
  <1>3. \A s : CardOf(s, p, a) = CardOf(s, q, b)
    BY CardSame
  <1> HIDE DEF C, D
  <1>4. PICK h \in Bijection(DOMAIN C, DOMAIN D) : \A i \in DOMAIN C : C[i] = D[h[i]]
    BY <1>1 DEF Shuffled
  <1>5. \A i \in DOMAIN C : h[i] \in DOMAIN D
    BY <1>4 DEF Bijection, Injection
  <1> DEFINE x == [i \in DOMAIN C |-> CardOf(C[i], p, a)]
             y == [i \in DOMAIN D |-> CardOf(D[i], q, b)]
  <1>6. DOMAIN x = DOMAIN C /\ DOMAIN y = DOMAIN D /\ \A i \in DOMAIN C : x[i] = y[h[i]]
    BY <1>3, <1>4, <1>5
  <1> HIDE DEF x, y
  <1>7. Shuffled(x, y)
    BY <1>4, <1>6 DEF Shuffled
  <1> QED BY <1>2, <1>7 DEF x, y

-----------------------------------------------------------------------------
(* Cards sorted and chosen.                                                *)

ByPriority(S) == [c \in CardRow(S) |-> CardKey(c)]
ByName(S) == [c \in CardRow(S) |-> <<c.s.name, c.s.id>>]
ByStart(S) == [c \in CardRow(S) |-> <<Descending(c.s.start), c.s.id>>]
ByDue(S) == [c \in CardRow(S) |-> <<Ascending(c.s.next), c.s.id>>]
ByUnread(S) == [c \in CardRow(S) |-> <<Descending(c.unreadAt), c.s.id>>]

\* Every order ends with the number of the sponsorship: it is total.
LEMMA CardKeys ==
    ASSUME NEW S, Sponsored(S)
    PROVE  /\ ByPriority(S) \in [CardRow(S) -> Keys(4)]
           /\ \A K \in {ByName(S), ByStart(S), ByDue(S), ByUnread(S)} : K \in [CardRow(S) -> Keys(2)]
           /\ \A c \in CardRow(S) : ByPriority(S)[c][4] = c.s.id
           /\ \A K \in {ByName(S), ByStart(S), ByDue(S), ByUnread(S)} : \A c \in CardRow(S) : K[c][2] = c.s.id
  <1>1. ASSUME NEW c \in CardRow(S)
        PROVE  /\ c.s.id \in Int /\ c.s.name \in Int
               /\ \A d \in {c.s.start, c.s.next, c.unreadAt, c.reportAt} : Ascending(d) \in Int /\ Descending(d) \in Int
    BY DEF CardRow, Sponsored, Ascending, Descending, Late
  <1>2. ASSUME NEW c \in CardRow(S)
        PROVE  CardKey(c) \in Keys(4) /\ CardKey(c)[4] = c.s.id
    <2>1. PriorityTier(c) \in {1, 2, 3, 4, 5}
      BY DEF PriorityTier
    <2> DEFINE day == CASE PriorityTier(c) \in {1, 4} -> Ascending(c.s.next)
                        [] PriorityTier(c) = 2 -> Descending(c.unreadAt)
                        [] PriorityTier(c) = 3 -> Descending(c.reportAt)
                        [] PriorityTier(c) = 5 -> Descending(c.s.start)
    <2>2. day \in Int
      BY <1>1, <2>1
    <2>3. CardKey(c) = <<PriorityTier(c), day, c.s.name, c.s.id>>
      BY DEF CardKey
    <2> HIDE DEF day
    <2> QED BY <1>1, <2>1, <2>2, <2>3 DEF Keys
  <1>3. ASSUME NEW c \in CardRow(S), NEW k \in Int
        PROVE  <<k, c.s.id>> \in Keys(2) /\ <<k, c.s.id>>[2] = c.s.id
    BY <1>1 DEF Keys
  <1>4. /\ ByPriority(S) \in [CardRow(S) -> Keys(4)]
        /\ \A c \in CardRow(S) : ByPriority(S)[c][4] = c.s.id
    BY <1>2 DEF ByPriority
  <1>5. ByName(S) \in [CardRow(S) -> Keys(2)] /\ \A c \in CardRow(S) : ByName(S)[c][2] = c.s.id
    BY <1>1, <1>3 DEF ByName
  <1>6. ByStart(S) \in [CardRow(S) -> Keys(2)] /\ \A c \in CardRow(S) : ByStart(S)[c][2] = c.s.id
    BY <1>1, <1>3 DEF ByStart
  <1>7. ByDue(S) \in [CardRow(S) -> Keys(2)] /\ \A c \in CardRow(S) : ByDue(S)[c][2] = c.s.id
    BY <1>1, <1>3 DEF ByDue
  <1>8. ByUnread(S) \in [CardRow(S) -> Keys(2)] /\ \A c \in CardRow(S) : ByUnread(S)[c][2] = c.s.id
    BY <1>1, <1>3 DEF ByUnread
  <1> QED BY <1>4, <1>5, <1>6, <1>7, <1>8

\* The cards under an order are sorted by its key.
LEMMA SortIs ==
    ASSUME NEW S, NEW cards \in Seq(CardRow(S))
    PROVE  /\ SortCards(cards, "priority") = Sorted(cards, ByPriority(S))
           /\ SortCards(cards, "name") = Sorted(cards, ByName(S))
           /\ SortCards(cards, "newest") = Sorted(cards, ByStart(S))
  <1>1. <<>> \o cards = cards /\ \A i \in DOMAIN cards : cards[i] \in CardRow(S)
    BY Nothing
  <1>2. [i \in DOMAIN cards |-> CardKey(cards[i])] = [i \in DOMAIN cards |-> ByPriority(S)[cards[i]]]
    BY <1>1 DEF ByPriority
  <1>3. [i \in DOMAIN cards |-> <<cards[i].s.name, cards[i].s.id>>] = [i \in DOMAIN cards |-> ByName(S)[cards[i]]]
    BY <1>1 DEF ByName
  <1>4. [i \in DOMAIN cards |-> <<Descending(cards[i].s.start), cards[i].s.id>>]
          = [i \in DOMAIN cards |-> ByStart(S)[cards[i]]]
    BY <1>1 DEF ByStart
  <1>5. SortedBy(cards, CardKey) = Listed(cards, DOMAIN cards, ByKey([i \in DOMAIN cards |-> CardKey(cards[i])]))
    BY <1>1 DEF SortedBy
  <1>6. SortedBy(cards, LAMBDA c : <<c.s.name, c.s.id>>)
          = Listed(cards, DOMAIN cards, ByKey([i \in DOMAIN cards |-> <<cards[i].s.name, cards[i].s.id>>]))
    BY <1>1 DEF SortedBy
  <1>7. SortedBy(cards, LAMBDA c : <<Descending(c.s.start), c.s.id>>)
          = Listed(cards, DOMAIN cards, ByKey([i \in DOMAIN cards |-> <<Descending(cards[i].s.start), cards[i].s.id>>]))
    BY <1>1 DEF SortedBy
  <1>8. SortCards(cards, "priority") = SortedBy(cards, CardKey)
    BY DEF SortCards
  <1>9. SortCards(cards, "name") = SortedBy(cards, LAMBDA c : <<c.s.name, c.s.id>>)
    BY DEF SortCards
  <1>10. SortCards(cards, "newest") = SortedBy(cards, LAMBDA c : <<Descending(c.s.start), c.s.id>>)
    BY DEF SortCards
  <1> QED BY <1>2, <1>3, <1>4, <1>5, <1>6, <1>7, <1>8, <1>9, <1>10 DEF Sorted

Unpaid(S) == {c \in CardRow(S) : c.s.status = "overdue"}
WithMail(S) == {c \in CardRow(S) : c.unread > 0 /\ c.s.status # "overdue"}
Attended(S) == {c \in CardRow(S) : NeedsAttention(c)}
UnreadCounts(cards) == [i \in DOMAIN cards |-> cards[i].unread]

\* The attention bar, and the cards under the chip of that name.
LEMMA AttentionIs ==
    ASSUME NEW S, NEW cards \in Seq(CardRow(S))
    PROVE  /\ SummarizeAttention(cards)
                = [overdue |-> Sorted(Passing(cards, Unpaid(S)), ByDue(S)),
                   unread |-> Sorted(Passing(cards, WithMail(S)), ByUnread(S)),
                   unreadTotal |-> Total(UnreadCounts(cards), DOMAIN cards)]
           /\ FilterCards(cards, "attention") = Passing(cards, Attended(S))
  <1>1. ASSUME NEW t \in Seq(CardRow(S))
        PROVE  <<>> \o t = t /\ \A i \in DOMAIN t : t[i] \in CardRow(S)
    BY Nothing
  <1>2. Where(cards, LAMBDA c : c.s.status = "overdue") = Passing(cards, Unpaid(S))
    <2>1. {i \in DOMAIN cards : cards[i].s.status = "overdue"} = {i \in DOMAIN cards : cards[i] \in Unpaid(S)}
      BY <1>1 DEF Unpaid
    <2>2. Where(cards, LAMBDA c : c.s.status = "overdue") = Kept(cards, {i \in DOMAIN cards : cards[i].s.status = "overdue"})
      BY <1>1 DEF Where
    <2> QED BY <2>1, <2>2 DEF Passing
  <1>3. Where(cards, LAMBDA c : c.unread > 0 /\ c.s.status # "overdue") = Passing(cards, WithMail(S))
    <2>1. {i \in DOMAIN cards : cards[i].unread > 0 /\ cards[i].s.status # "overdue"}
            = {i \in DOMAIN cards : cards[i] \in WithMail(S)}
      BY <1>1 DEF WithMail
    <2>2. Where(cards, LAMBDA c : c.unread > 0 /\ c.s.status # "overdue")
            = Kept(cards, {i \in DOMAIN cards : cards[i].unread > 0 /\ cards[i].s.status # "overdue"})
      BY <1>1 DEF Where
    <2> QED BY <2>1, <2>2 DEF Passing
  <1>4. FilterCards(cards, "attention") = Passing(cards, Attended(S))
    <2>1. {i \in DOMAIN cards : NeedsAttention(cards[i])} = {i \in DOMAIN cards : cards[i] \in Attended(S)}
      BY <1>1 DEF Attended
    <2>2. FilterCards(cards, "attention")
            = Kept(cards, {i \in DOMAIN cards : CASE "attention" = "all" -> TRUE
                                                  [] "attention" = "attention" -> NeedsAttention(cards[i])
                                                  [] OTHER -> cards[i].s.status = "attention"})
      BY <1>1 DEF Where, FilterCards
    <2>3. {i \in DOMAIN cards : CASE "attention" = "all" -> TRUE
                                  [] "attention" = "attention" -> NeedsAttention(cards[i])
                                  [] OTHER -> cards[i].s.status = "attention"}
            = {i \in DOMAIN cards : NeedsAttention(cards[i])}
      OBVIOUS
    <2> QED BY <2>1, <2>2, <2>3 DEF Passing
  <1>5. ASSUME NEW t \in Seq(CardRow(S))
        PROVE  /\ SortedBy(t, LAMBDA c : <<Ascending(c.s.next), c.s.id>>) = Sorted(t, ByDue(S))
               /\ SortedBy(t, LAMBDA c : <<Descending(c.unreadAt), c.s.id>>) = Sorted(t, ByUnread(S))
    <2>1. [i \in DOMAIN t |-> <<Ascending(t[i].s.next), t[i].s.id>>] = [i \in DOMAIN t |-> ByDue(S)[t[i]]]
      BY <1>1 DEF ByDue
    <2>2. [i \in DOMAIN t |-> <<Descending(t[i].unreadAt), t[i].s.id>>] = [i \in DOMAIN t |-> ByUnread(S)[t[i]]]
      BY <1>1 DEF ByUnread
    <2>3. SortedBy(t, LAMBDA c : <<Ascending(c.s.next), c.s.id>>)
            = Listed(t, DOMAIN t, ByKey([i \in DOMAIN t |-> <<Ascending(t[i].s.next), t[i].s.id>>]))
      BY <1>1 DEF SortedBy
    <2>4. SortedBy(t, LAMBDA c : <<Descending(c.unreadAt), c.s.id>>)
            = Listed(t, DOMAIN t, ByKey([i \in DOMAIN t |-> <<Descending(t[i].unreadAt), t[i].s.id>>]))
      BY <1>1 DEF SortedBy
    <2> QED BY <2>1, <2>2, <2>3, <2>4 DEF Sorted
  <1>6. /\ Passing(cards, Unpaid(S)) \in Seq(CardRow(S))
        /\ Passing(cards, WithMail(S)) \in Seq(CardRow(S))
    BY PassingType
  <1>7. SummarizeAttention(cards)
          = [overdue |-> SortedBy(Passing(cards, Unpaid(S)), LAMBDA c : <<Ascending(c.s.next), c.s.id>>),
             unread |-> SortedBy(Passing(cards, WithMail(S)), LAMBDA c : <<Descending(c.unreadAt), c.s.id>>),
             unreadTotal |-> Total(UnreadCounts(cards), DOMAIN cards)]
    BY <1>2, <1>3 DEF SummarizeAttention, UnreadCounts
  <1>8. SortedBy(Passing(cards, Unpaid(S)), LAMBDA c : <<Ascending(c.s.next), c.s.id>>)
          = Sorted(Passing(cards, Unpaid(S)), ByDue(S))
    BY <1>5, <1>6
  <1>9. SortedBy(Passing(cards, WithMail(S)), LAMBDA c : <<Descending(c.unreadAt), c.s.id>>)
          = Sorted(Passing(cards, WithMail(S)), ByUnread(S))
    BY <1>5, <1>6
  <1> QED BY <1>4, <1>7, <1>8, <1>9

-----------------------------------------------------------------------------
(* One sequence after another.                                             *)

\* Two sequences, the one behind the other.
LEMMA Behind ==
    ASSUME NEW T, NEW s \in Seq(T), NEW t \in Seq(T)
    PROVE  /\ s \o t \in Seq(T) /\ ToSet(s \o t) = ToSet(s) \cup ToSet(t)
           /\ \A K : /\ Distinct(s, K) /\ Distinct(t, K)
                     /\ \A x \in ToSet(s), y \in ToSet(t) : K[x] # K[y]
                     => Distinct(s \o t, K)
  <1> DEFINE u == s \o t
  <1>1. /\ u \in Seq(T) /\ Len(u) = Len(s) + Len(t) /\ Len(s) \in Nat /\ Len(t) \in Nat
        /\ \A i \in 1..Len(u) : u[i] = IF i <= Len(s) THEN s[i] ELSE t[i - Len(s)]
    OBVIOUS
  <1>2. DOMAIN u = 1..Len(u) /\ DOMAIN s = 1..Len(s) /\ DOMAIN t = 1..Len(t)
    BY <1>1
  <1> HIDE DEF u
  <1>3. ToSet(u) = ToSet(s) \cup ToSet(t)
    <2>1. \A i \in DOMAIN s : i \in DOMAIN u /\ u[i] = s[i]
      BY <1>1, <1>2
    <2>2. \A j \in DOMAIN t : j + Len(s) \in DOMAIN u /\ u[j + Len(s)] = t[j]
      BY <1>1, <1>2
    <2>3. \A i \in DOMAIN u : (i \in DOMAIN s /\ u[i] = s[i]) \/ (i - Len(s) \in DOMAIN t /\ u[i] = t[i - Len(s)])
      BY <1>1, <1>2
    <2>4. \A x \in ToSet(s) \cup ToSet(t) : x \in ToSet(u)
      BY <2>1, <2>2 DEF ToSet
    <2>5. \A x \in ToSet(u) : x \in ToSet(s) \cup ToSet(t)
      BY <2>3 DEF ToSet
    <2> QED BY <2>4, <2>5
  <1>4. ASSUME NEW K, Distinct(s, K), Distinct(t, K), \A x \in ToSet(s), y \in ToSet(t) : K[x] # K[y]
        PROVE  Distinct(u, K)
    <2> SUFFICES ASSUME NEW i \in DOMAIN u, NEW j \in DOMAIN u, K[u[i]] = K[u[j]] PROVE i = j
      BY DEF Distinct
    <2>0. \A k \in DOMAIN u : k \in Int
      BY <1>1, <1>2
    <2>1. \A k \in DOMAIN u : \/ k \in DOMAIN s /\ u[k] = s[k] /\ u[k] \in ToSet(s)
                              \/ k - Len(s) \in DOMAIN t /\ u[k] = t[k - Len(s)] /\ u[k] \in ToSet(t)
      BY <1>1, <1>2 DEF ToSet
    <2>2. CASE i \in DOMAIN s /\ u[i] = s[i] /\ u[i] \in ToSet(s)
      <3>1. j \in DOMAIN s /\ u[j] = s[j]
        BY <1>4, <2>1, <2>2
      <3> QED BY <1>4, <2>2, <3>1 DEF Distinct
    <2>3. CASE i - Len(s) \in DOMAIN t /\ u[i] = t[i - Len(s)] /\ u[i] \in ToSet(t)
      <3>1. j - Len(s) \in DOMAIN t /\ u[j] = t[j - Len(s)]
        BY <1>4, <2>1, <2>3
      <3>2. i - Len(s) = j - Len(s)
        BY <1>4, <2>3, <3>1 DEF Distinct
      <3> QED BY <1>1, <2>0, <3>2
    <2> QED BY <2>1, <2>2, <2>3
  <1> QED BY <1>1, <1>3, <1>4 DEF u

\* The recursive function that puts the first sequences one behind the other.
Joins(F, seqs, n) == F = [i \in 1..n |-> IF i = 1 THEN seqs[i] ELSE F[i - 1] \o seqs[i]]

\* There is one, for however many.
LEMMA JoinsExists ==
    ASSUME NEW seqs, NEW n \in Nat
    PROVE  \E F : Joins(F, seqs, n)
  <1> DEFINE T == {m \in Nat : ~\E F : Joins(F, seqs, m)}
  <1>1. SUFFICES ASSUME T # {} PROVE FALSE
    OBVIOUS
  <1>2. PICK m \in T : \A k \in T : m <= k
    <2>1. T \subseteq Nat
      OBVIOUS
    <2> HIDE DEF T
    <2> QED BY <1>1, <2>1, Least
  <1>3. m # 0
    <2>1. Joins([i \in 1..0 |-> 0], seqs, 0)
      BY DEF Joins
    <2> QED BY <1>2, <2>1
  <1>4. PICK G : Joins(G, seqs, m - 1)
    <2>1. m - 1 \in Nat /\ m - 1 \notin T
      BY <1>2, <1>3
    <2> QED BY <2>1
  <1> DEFINE F == [i \in 1..m |-> IF i = 1 THEN seqs[i] ELSE G[i - 1] \o seqs[i]]
  <1>5. ASSUME NEW i \in 1..m - 1 PROVE i \in 1..m /\ G[i] = F[i]
    <2>1. m \in Nat /\ i \in 1..m
      BY <1>2
    <2> QED BY <1>4, <2>1 DEF Joins
  <1>6. \A i \in 1..m : F[i] = IF i = 1 THEN seqs[i] ELSE F[i - 1] \o seqs[i]
    <2> SUFFICES ASSUME NEW i \in 1..m PROVE F[i] = IF i = 1 THEN seqs[i] ELSE F[i - 1] \o seqs[i]
      OBVIOUS
    <2>1. i # 1 => i - 1 \in 1..m - 1
      BY <1>2
    <2> QED BY <1>5, <2>1
  <1>7. F = [i \in 1..m |-> F[i]]
    OBVIOUS
  <1> HIDE DEF F
  <1>8. Joins(F, seqs, m)
    BY <1>6, <1>7 DEF Joins
  <1> QED BY <1>8

\* What is flattened is all there was in the sequences, each once.
LEMMA Flattened ==
    ASSUME NEW T, NEW seqs \in Seq(Seq(T)), NEW K,
           \A i \in DOMAIN seqs : Distinct(seqs[i], K),
           \A i, j \in DOMAIN seqs : \A x \in ToSet(seqs[i]), y \in ToSet(seqs[j]) : K[x] = K[y] => i = j
    PROVE  /\ FlattenSeq(seqs) \in Seq(T)
           /\ ToSet(FlattenSeq(seqs)) = UNION {ToSet(seqs[i]) : i \in DOMAIN seqs}
           /\ Distinct(FlattenSeq(seqs), K)
  <1> DEFINE N == Len(seqs)
  <1>0. N \in Nat /\ DOMAIN seqs = 1..N
    OBVIOUS
  <1>1. CASE N = 0
    <2>1. FlattenSeq(seqs) = <<>> /\ DOMAIN seqs = {}
      BY <1>1 DEF FlattenSeq
    <2>2. ToSet(<<>>) = {}
      BY DEF ToSet
    <2>3. Distinct(<<>>, K)
      BY DEF Distinct
    <2> QED BY <2>1, <2>2, <2>3
  <1>2. CASE N # 0
    <2>1. \E F : Joins(F, seqs, N)
      BY <1>0, JoinsExists
    <2> DEFINE F == CHOOSE flatten :
                      flatten = [i \in 1..N |-> IF i = 1 THEN seqs[i] ELSE flatten[i - 1] \o seqs[i]]
    <2>2. FlattenSeq(seqs) = F[N]
      BY <1>2 DEF FlattenSeq
    <2>3. F = CHOOSE flatten : Joins(flatten, seqs, N)
      BY DEF Joins
    <2> HIDE DEF F
    <2>4. Joins(F, seqs, N)
      BY <2>1, <2>3
    <2> HIDE DEF N
    <2> DEFINE Good(i) == /\ F[i] \in Seq(T)
                          /\ ToSet(F[i]) = UNION {ToSet(seqs[j]) : j \in 1..i}
                          /\ Distinct(F[i], K)
               Bad == {i \in 1..N : ~Good(i)}
    <2>5. SUFFICES ASSUME ~Good(N) PROVE FALSE
      BY <1>0, <2>2
    <2>6. PICK i \in Bad : \A j \in Bad : i <= j
      <3>1. N \in Bad /\ Bad \subseteq Nat
        BY <1>0, <1>2, <2>5
      <3> HIDE DEF Bad
      <3> QED BY <3>1, Least
    <2>7. seqs[i] \in Seq(T) /\ F[i] = IF i = 1 THEN seqs[i] ELSE F[i - 1] \o seqs[i]
      <3>1. i \in 1..N
        BY <2>6
      <3>2. seqs[i] \in Seq(T)
        BY <1>0, <3>1
      <3> HIDE DEF Good, Bad
      <3>3. F[i] = IF i = 1 THEN seqs[i] ELSE F[i - 1] \o seqs[i]
        BY <2>4, <3>1 DEF Joins
      <3> QED BY <3>2, <3>3
    <2>8. CASE i = 1
      <3>1. 1..i = {1}
        BY <2>8
      <3>2. UNION {ToSet(seqs[j]) : j \in {1}} = ToSet(seqs[1])
        OBVIOUS
      <3>3. Distinct(seqs[i], K)
        BY <1>0, <2>6
      <3> QED BY <2>6, <2>7, <2>8, <3>1, <3>2, <3>3
    <2>9. CASE i # 1
      <3>1. i - 1 \in 1..N /\ i - 1 \notin Bad
        <4>1. i \in 1..N
          BY <2>6
        <4>2. i - 1 \in 1..N /\ ~(i <= i - 1)
          BY <1>0, <2>9, <4>1
        <4> HIDE DEF Bad
        <4> QED BY <2>6, <4>2
      <3>2. Good(i - 1)
        BY <3>1
      <3> DEFINE p == F[i - 1]
                 q == seqs[i]
      <3>3. p \in Seq(T) /\ q \in Seq(T) /\ F[i] = p \o q
        BY <2>7, <2>9, <3>2
      <3>4. \A x \in ToSet(p), y \in ToSet(q) : K[x] # K[y]
        <4> SUFFICES ASSUME NEW x \in ToSet(p), NEW y \in ToSet(q), K[x] = K[y] PROVE FALSE
          OBVIOUS
        <4>1. PICK j \in 1..i - 1 : x \in ToSet(seqs[j])
          BY <3>2
        <4>2. j \in DOMAIN seqs /\ i \in DOMAIN seqs
          BY <1>0, <2>6
        <4>3. j = i
          BY <4>1, <4>2
        <4> QED BY <1>0, <2>6, <4>1, <4>3
      <3>5. Distinct(p, K) /\ Distinct(q, K)
        BY <1>0, <2>6, <3>2
      <3> HIDE DEF p, q
      <3>6. F[i] \in Seq(T) /\ ToSet(F[i]) = ToSet(p) \cup ToSet(q) /\ Distinct(F[i], K)
        BY <3>3, <3>4, <3>5, Behind
      <3>7. ToSet(F[i]) = UNION {ToSet(seqs[j]) : j \in 1..i}
        <4>1. 1..i = (1..i - 1) \cup {i}
          BY <1>0, <2>6
        <4>2. ToSet(p) = UNION {ToSet(seqs[j]) : j \in 1..i - 1}
          BY <3>2 DEF p
        <4> QED BY <3>6, <4>1, <4>2 DEF q
      <3> QED BY <2>6, <3>6, <3>7
    <2> QED BY <2>8, <2>9
  <1> QED BY <1>1, <1>2

-----------------------------------------------------------------------------
(* The news.                                                               *)

NewsRow == [at : Nat, child : Nat, kind : {0, 1}]
ByNews == [n \in NewsRow |-> <<Descending(n.at), n.child, n.kind>>]
Whose == [n \in NewsRow |-> <<n.child, n.kind>>]
NewsOf(c) ==
    (IF c.unread > 0 THEN <<[at |-> c.unreadAt, child |-> c.s.orphan, kind |-> 0]>> ELSE <<>>)
    \o (IF Recent(c.reportAt, SignalWindow)
        THEN <<[at |-> c.reportAt, child |-> c.s.orphan, kind |-> 1]>> ELSE <<>>)
News(cards) == FlattenSeq([i \in DOMAIN cards |-> NewsOf(cards[i])])

\* The order of the news is one of three numbers.
LEMMA NewsKeys == ByNews \in [NewsRow -> Keys(3)]
  <1> SUFFICES ASSUME NEW n \in NewsRow PROVE <<Descending(n.at), n.child, n.kind>> \in Keys(3)
    BY DEF ByNews
  <1>1. Descending(n.at) \in Int /\ n.child \in Int /\ n.kind \in Int
    BY DEF NewsRow, Descending, Ascending, Late
  <1> QED BY <1>1 DEF Keys

\* A card makes at most one piece of news of each kind, all of its own child.
LEMMA NewsOfCard ==
    ASSUME NEW S, Sponsored(S), NEW c \in CardRow(S)
    PROVE  /\ NewsOf(c) \in Seq(NewsRow) /\ Distinct(NewsOf(c), Whose)
           /\ \A n \in ToSet(NewsOf(c)) : n.child = c.s.orphan
  <1> DEFINE m == [at |-> c.unreadAt, child |-> c.s.orphan, kind |-> 0]
             r == [at |-> c.reportAt, child |-> c.s.orphan, kind |-> 1]
             p == IF c.unread > 0 THEN <<m>> ELSE <<>>
             q == IF Recent(c.reportAt, SignalWindow) THEN <<r>> ELSE <<>>
  <1>1. m \in NewsRow /\ r \in NewsRow
    BY DEF CardRow, NewsRow, Sponsored
  <1>2. m.child = c.s.orphan /\ r.child = c.s.orphan /\ Whose[m] # Whose[r]
    BY <1>1 DEF Whose
  <1>3. NewsOf(c) = p \o q
    BY DEF NewsOf
  <1> HIDE DEF m, r
  <1>4. p \in Seq(NewsRow) /\ q \in Seq(NewsRow) /\ ToSet(p) \subseteq {m} /\ ToSet(q) \subseteq {r}
    BY <1>1 DEF ToSet
  <1>5. Distinct(p, Whose) /\ Distinct(q, Whose)
    BY DEF Distinct
  <1> HIDE DEF p, q
  <1>6. \A x \in ToSet(p), y \in ToSet(q) : Whose[x] # Whose[y]
    BY <1>2, <1>4
  <1>7. p \o q \in Seq(NewsRow) /\ ToSet(p \o q) = ToSet(p) \cup ToSet(q) /\ Distinct(p \o q, Whose)
    BY <1>4, <1>5, <1>6, Behind
  <1> QED BY <1>2, <1>3, <1>4, <1>7

\* The news of cards of different children: each once.
LEMMA NewsOfAll ==
    ASSUME NEW S, Sponsored(S), NEW cards \in Seq(CardRow(S)),
           \A i, j \in DOMAIN cards : cards[i].s.orphan = cards[j].s.orphan => i = j
    PROVE  /\ News(cards) \in Seq(NewsRow) /\ Distinct(News(cards), Whose)
           /\ ToSet(News(cards)) = UNION {ToSet(NewsOf(c)) : c \in ToSet(cards)}
  <1> DEFINE seqs == [i \in DOMAIN cards |-> NewsOf(cards[i])]
  <1>1. DOMAIN cards = 1..Len(cards) /\ Len(cards) \in Nat /\ \A i \in DOMAIN cards : cards[i] \in CardRow(S)
    OBVIOUS
  <1>2. \A i \in DOMAIN cards : /\ seqs[i] \in Seq(NewsRow) /\ Distinct(seqs[i], Whose)
                                /\ \A n \in ToSet(seqs[i]) : n.child = cards[i].s.orphan
    BY <1>1, NewsOfCard
  <1>3. seqs \in Seq(Seq(NewsRow)) /\ DOMAIN seqs = DOMAIN cards
    BY <1>1, <1>2
  <1>4. UNION {ToSet(seqs[i]) : i \in DOMAIN seqs} = UNION {ToSet(NewsOf(c)) : c \in ToSet(cards)}
    BY DEF ToSet
  <1> HIDE DEF seqs
  <1>5. ASSUME NEW i \in DOMAIN seqs, NEW j \in DOMAIN seqs, NEW x \in ToSet(seqs[i]), NEW y \in ToSet(seqs[j]),
               Whose[x] = Whose[y]
        PROVE  i = j
    <2>1. x \in NewsRow /\ y \in NewsRow
      BY <1>2, <1>3 DEF ToSet
    <2>2. x.child = y.child
      BY <1>5, <2>1 DEF Whose
    <2> QED BY <1>2, <1>3, <2>2
  <1>6. /\ FlattenSeq(seqs) \in Seq(NewsRow)
        /\ ToSet(FlattenSeq(seqs)) = UNION {ToSet(seqs[i]) : i \in DOMAIN seqs}
        /\ Distinct(FlattenSeq(seqs), Whose)
    BY <1>2, <1>3, <1>5, Flattened
  <1>7. News(cards) = FlattenSeq(seqs)
    BY DEF News, seqs
  <1> QED BY <1>4, <1>6, <1>7

\* The news that is shown: the latest of it, sorted.
LEMMA FeedIs ==
    ASSUME NEW cards, News(cards) \in Seq(NewsRow)
    PROVE  LET items == Sorted(News(cards), ByNews)
           IN  BuildNewsFeed(cards) = SubSeq(items, 1, IF Len(items) < FeedLimit THEN Len(items) ELSE FeedLimit)
  <1> DEFINE news == News(cards)
  <1>1. <<>> \o news = news /\ \A i \in DOMAIN news : news[i] \in NewsRow
    BY Nothing
  <1>2. [i \in DOMAIN news |-> <<Descending(news[i].at), news[i].child, news[i].kind>>]
          = [i \in DOMAIN news |-> ByNews[news[i]]]
    BY <1>1 DEF ByNews
  <1> HIDE DEF news
  <1>3. SortedBy(news, LAMBDA n : <<Descending(n.at), n.child, n.kind>>)
          = Listed(news, DOMAIN news, ByKey([i \in DOMAIN news |-> <<Descending(news[i].at), news[i].child, news[i].kind>>]))
    BY <1>1 DEF SortedBy
  <1>4. SortedBy(news, LAMBDA n : <<Descending(n.at), n.child, n.kind>>) = Sorted(news, ByNews)
    BY <1>2, <1>3 DEF Sorted
  <1>5. FlattenSeq([i \in DOMAIN cards |-> NewsOf(cards[i])]) = news
    BY DEF news, News
  <1>6. SortedBy(FlattenSeq([i \in DOMAIN cards |-> NewsOf(cards[i])]),
                 LAMBDA n : <<Descending(n.at), n.child, n.kind>>) = Sorted(News(cards), ByNews)
    BY <1>4, <1>5 DEF news
  <1> QED BY <1>6 DEF BuildNewsFeed, NewsOf

\* The same cards make the same news, in whatever order they came.
LEMMA FeedSame ==
    ASSUME NEW S, Sponsored(S), NEW a \in Seq(CardRow(S)), NEW b \in Seq(CardRow(S)), ToSet(a) = ToSet(b),
           \A i, j \in DOMAIN a : a[i].s.orphan = a[j].s.orphan => i = j,
           \A i, j \in DOMAIN b : b[i].s.orphan = b[j].s.orphan => i = j
    PROVE  BuildNewsFeed(a) = BuildNewsFeed(b)
  <1> DEFINE p == News(a)
             q == News(b)
  <1>1. /\ p \in Seq(NewsRow) /\ q \in Seq(NewsRow) /\ ToSet(p) = ToSet(q)
        /\ Distinct(p, Whose) /\ Distinct(q, Whose)
    <2>1. p \in Seq(NewsRow) /\ Distinct(p, Whose) /\ ToSet(p) = UNION {ToSet(NewsOf(c)) : c \in ToSet(a)}
      BY NewsOfAll
    <2>2. q \in Seq(NewsRow) /\ Distinct(q, Whose) /\ ToSet(q) = UNION {ToSet(NewsOf(c)) : c \in ToSet(b)}
      BY NewsOfAll
    <2> QED BY <2>1, <2>2
  <1> HIDE DEF p, q
  <1>2. Shuffled(p, q)
    <2>1. \A i, j \in DOMAIN p : p[i] = p[j] => i = j
      BY <1>1 DEF Distinct
    <2>2. \A i, j \in DOMAIN q : q[i] = q[j] => i = j
      BY <1>1 DEF Distinct
    <2> QED BY <1>1, <2>1, <2>2, SameSetShuffled
  <1>3. Distinct(p, ByNews)
    <2> SUFFICES ASSUME NEW i \in DOMAIN p, NEW j \in DOMAIN p, ByNews[p[i]] = ByNews[p[j]] PROVE i = j
      BY DEF Distinct
    <2>1. p[i] \in NewsRow /\ p[j] \in NewsRow
      BY <1>1
    <2>2. Whose[p[i]] = Whose[p[j]]
      BY <2>1 DEF ByNews, Whose
    <2> QED BY <1>1, <2>2 DEF Distinct
  <1>4. Sorted(p, ByNews) = Sorted(q, ByNews)
    BY <1>1, <1>2, <1>3, NewsKeys, SortedAlike
  <1> QED BY <1>1, <1>4, FeedIs DEF p, q

\* Whoever is in the news has a card.
LEMMA FeedHasCards ==
    ASSUME NEW S, Sponsored(S), NEW cards \in Seq(CardRow(S)),
           \A i, j \in DOMAIN cards : cards[i].s.orphan = cards[j].s.orphan => i = j,
           NEW n \in ToSet(BuildNewsFeed(cards))
    PROVE  \E c \in ToSet(cards) : n.child = c.s.orphan
  <1> DEFINE items == Sorted(News(cards), ByNews)
             k == IF Len(items) < FeedLimit THEN Len(items) ELSE FeedLimit
  <1>1. News(cards) \in Seq(NewsRow) /\ ToSet(News(cards)) = UNION {ToSet(NewsOf(c)) : c \in ToSet(cards)}
    BY NewsOfAll
  <1>2. items \in Seq(NewsRow) /\ ToSet(items) = ToSet(News(cards))
    BY <1>1, NewsKeys, SortedRows
  <1>3. BuildNewsFeed(cards) = SubSeq(items, 1, k)
    BY <1>1, FeedIs
  <1> HIDE DEF items
  <1>4. k \in Nat /\ k <= Len(items)
    BY <1>2 DEF FeedLimit
  <1> HIDE DEF k
  <1>5. \A i \in DOMAIN SubSeq(items, 1, k) : SubSeq(items, 1, k)[i] \in ToSet(items)
    BY <1>2, <1>4 DEF ToSet
  <1>6. n \in ToSet(News(cards))
    BY <1>2, <1>3, <1>5 DEF ToSet
  <1>7. PICK c \in ToSet(cards) : n \in ToSet(NewsOf(c))
    BY <1>1, <1>6
  <1>8. c \in CardRow(S)
    BY DEF ToSet
  <1> QED BY <1>7, <1>8, NewsOfCard

-----------------------------------------------------------------------------
(* The impact bar and the next payment.                                    *)

MoneyRow == [currency : Nat, amount : Nat]
Paid(live) == [i \in DOMAIN live |-> [currency |-> live[i].currency, amount |-> live[i].paid]]
DueOf(S) == {s \in S : Scheduled(s)}
ByNext(S) == [s \in S |-> <<s.next, s.id>>]

\* The rows due on a day, and the child of the first of the soonest.
DueOn(S, day) == {s \in S : Coming(s) /\ s.next = day}
Named(S, rows) ==
    LET due == DaysDue(ToSet(rows) \cap LiveOf(S))
    IN  IF due = {} THEN 0 ELSE Passing(rows, DueOn(S, Min(due)))[1].name

\* Payments due on one day are for children of one name.
TiesAgree(rows) ==
    \A i, j \in DOMAIN rows :
        Coming(rows[i]) /\ Coming(rows[j]) /\ rows[i].next = rows[j].next
            => rows[i].name = rows[j].name

\* What the impact bar takes of the live rows L, with what was given and the
\* child it names.
Since(L) == LET starts == {s.start : s \in L} \ {0} IN IF starts = {} THEN 0 ELSE Min(starts)
Monthly(L, given) ==
    LET active == {s \in L : s.status = "active" /\ s.currency = given.currency}
    IN  Total([s \in active |-> s.monthly], active)
NextDay(L) == LET due == DaysDue(L) IN IF due = {} THEN 0 ELSE Min(due)
Impact(L, given, child) ==
    [children |-> Cardinality({s.orphan : s \in L}), since |-> Since(L), giving |-> given,
     monthly |-> Monthly(L, given), next |-> NextDay(L), child |-> child]

\* The bar but for that child.
Nameless(impact) == [impact EXCEPT !.child = 0]

\* The impact bar adds up what was paid for the live rows.
LEMMA ImpactIs ==
    ASSUME NEW S, Sponsored(S), NEW rows \in Seq(S)
    PROVE  /\ Paid(Passing(rows, LiveOf(S))) \in Seq(MoneyRow)
           /\ SummarizeImpact(rows)
                = Impact(ToSet(rows) \cap LiveOf(S), Given(Paid(Passing(rows, LiveOf(S)))), Named(S, rows))
  <1> DEFINE live == Passing(rows, LiveOf(S))
             money == Paid(live)
  <1>1. <<>> \o rows = rows /\ \A i \in DOMAIN rows : rows[i] \in S
    BY Nothing
  <1>2. {i \in DOMAIN rows : Live(rows[i])} = {i \in DOMAIN rows : rows[i] \in LiveOf(S)}
    BY <1>1 DEF LiveOf
  <1>3. Where(rows, Live) = Kept(rows, {i \in DOMAIN rows : Live(rows[i])})
    BY <1>1 DEF Where
  <1>4. Where(rows, Live) = live
    BY <1>2, <1>3 DEF Passing
  <1>5. live \in Seq(S) /\ ToSet(live) = ToSet(rows) \cap LiveOf(S)
    BY PassingRows
  <1> HIDE DEF live
  <1>6. money \in Seq(MoneyRow)
    <2>1. \A i \in DOMAIN live : [currency |-> live[i].currency, amount |-> live[i].paid] \in MoneyRow
      BY <1>5 DEF MoneyRow, Sponsored
    <2>2. DOMAIN live = 1..Len(live) /\ Len(live) \in Nat
      BY <1>5
    <2> QED BY <2>1, <2>2 DEF Paid
  <1>7. Money(MoneyRow)
    BY DEF Money, MoneyRow
  <1> HIDE DEF money
  <1>8. Giving(money, ImpactRank) = Given(money)
    BY <1>6, <1>7, GivingIs
  <1> DEFINE due == DaysDue(ToSet(live))
  <1>9. ASSUME NEW day PROVE DueThat(day, rows) = Passing(rows, DueOn(S, day))
    <2>1. {i \in DOMAIN rows : Coming(rows[i]) /\ rows[i].next = day}
            = {i \in DOMAIN rows : rows[i] \in DueOn(S, day)}
      BY <1>1 DEF DueOn
    <2>2. DueThat(day, rows)
            = Kept(rows, {i \in DOMAIN rows : Coming(rows[i]) /\ rows[i].next = day})
      BY <1>1 DEF DueThat, Where
    <2> QED BY <2>1, <2>2 DEF Passing
  <1>10. Named(S, rows) = IF due = {} THEN 0 ELSE Passing(rows, DueOn(S, Min(due)))[1].name
    BY <1>5 DEF Named
  <1>11. SummarizeImpact(rows) = Impact(ToSet(live), Given(money), Named(S, rows))
    BY <1>4, <1>8, <1>9, <1>10 DEF SummarizeImpact, Impact, Since, Monthly, NextDay, money, Paid
  <1> QED BY <1>5, <1>6, <1>11 DEF live, money

\* Of rows whose ties agree, the child named is the same in whatever order.
LEMMA NamedSame ==
    ASSUME NEW S, Sponsored(S), NEW a \in Seq(S), NEW b \in Seq(S), ToSet(a) = ToSet(b), TiesAgree(a)
    PROVE  Named(S, a) = Named(S, b)
  <1> DEFINE due == DaysDue(ToSet(a) \cap LiveOf(S))
             p == Passing(a, DueOn(S, Min(due)))
             q == Passing(b, DueOn(S, Min(due)))
  <1>1. CASE due = {}
    BY <1>1 DEF Named
  <1>2. CASE due # {}
    <2>1. \A s \in ToSet(a) : s \in S
      BY DEF ToSet
    <2>2. due \in SUBSET Nat
      BY <2>1 DEF DaysDue, Sponsored
    <2>3. PICK s \in ToSet(a) \cap LiveOf(S) : Coming(s) /\ s.next = Min(due)
      BY <1>2, <2>2, Earliest DEF DaysDue
    <2>4. s \in ToSet(a) \cap DueOn(S, Min(due))
      BY <2>1, <2>3 DEF DueOn
    <2>5. /\ p \in Seq(S) /\ ToSet(p) = ToSet(a) \cap DueOn(S, Min(due))
          /\ q \in Seq(S) /\ ToSet(q) = ToSet(a) \cap DueOn(S, Min(due))
      <3>1. ASSUME NEW X, NEW t \in Seq(S)
            PROVE  Passing(t, X) \in Seq(S) /\ ToSet(Passing(t, X)) = ToSet(t) \cap X
        BY PassingRows
      <3> QED BY <3>1
    <2>6. Named(S, a) = p[1].name /\ Named(S, b) = q[1].name
      BY <1>2 DEF Named
    <2> HIDE DEF due, p, q
    <2>7. 1 \in DOMAIN p /\ 1 \in DOMAIN q
      BY <2>4, <2>5 DEF ToSet
    <2>8. /\ p[1] \in ToSet(a) /\ Coming(p[1]) /\ p[1].next = Min(due)
          /\ q[1] \in ToSet(a) /\ Coming(q[1]) /\ q[1].next = Min(due)
      BY <2>5, <2>7 DEF ToSet, DueOn
    <2>9. p[1].name = q[1].name
      BY <2>8 DEF TiesAgree, ToSet
    <2> QED BY <2>6, <2>9
  <1> QED BY <1>1, <1>2

\* The same rows make the same impact, in whatever order they came, but for the
\* child it names if payments are due on one day.
LEMMA ImpactSame ==
    ASSUME NEW S, Sponsored(S), NEW a \in Seq(S), NEW b \in Seq(S), Shuffled(a, b)
    PROVE  /\ Nameless(SummarizeImpact(a)) = Nameless(SummarizeImpact(b))
           /\ TiesAgree(a) => SummarizeImpact(a) = SummarizeImpact(b)
  <1> DEFINE C == Passing(a, LiveOf(S))
             D == Passing(b, LiveOf(S))
  <1>1. Shuffled(C, D)
    BY PassingShuffled
  <1>2. ToSet(a) = ToSet(b)
    BY ShuffledLength
  <1>3. /\ Paid(C) \in Seq(MoneyRow)
        /\ SummarizeImpact(a) = Impact(ToSet(a) \cap LiveOf(S), Given(Paid(C)), Named(S, a))
        /\ Paid(D) \in Seq(MoneyRow)
        /\ SummarizeImpact(b) = Impact(ToSet(b) \cap LiveOf(S), Given(Paid(D)), Named(S, b))
    BY ImpactIs
  <1> HIDE DEF C, D
  <1>4. Shuffled(Paid(C), Paid(D))
    <2>1. PICK h \in Bijection(DOMAIN C, DOMAIN D) : \A i \in DOMAIN C : C[i] = D[h[i]]
      BY <1>1 DEF Shuffled
    <2>2. \A i \in DOMAIN C : h[i] \in DOMAIN D
      BY <2>1 DEF Bijection, Injection
    <2>3. DOMAIN Paid(C) = DOMAIN C /\ DOMAIN Paid(D) = DOMAIN D
            /\ \A i \in DOMAIN C : Paid(C)[i] = Paid(D)[h[i]]
      BY <2>1, <2>2 DEF Paid
    <2> QED BY <2>1, <2>3 DEF Shuffled
  <1>5. Money(MoneyRow)
    BY DEF Money, MoneyRow
  <1>6. Given(Paid(C)) = Given(Paid(D))
    BY <1>3, <1>4, <1>5, GivenSame
  <1>7. \A L, g, x : [Impact(L, g, x) EXCEPT !.child = 0] = Impact(L, g, 0)
    <2>1. \A c, s, g, m, n, x :
            [[children |-> c, since |-> s, giving |-> g, monthly |-> m, next |-> n, child |-> x]
                EXCEPT !.child = 0]
              = [children |-> c, since |-> s, giving |-> g, monthly |-> m, next |-> n, child |-> 0]
      OBVIOUS
    <2>2. TAKE L, g, x
    <2> DEFINE c == Cardinality({s.orphan : s \in L})
               s == Since(L)
               m == Monthly(L, g)
               n == NextDay(L)
    <2>3. \A y : Impact(L, g, y)
                  = [children |-> c, since |-> s, giving |-> g, monthly |-> m, next |-> n, child |-> y]
      BY DEF Impact
    <2> HIDE DEF c, s, m, n
    <2> QED BY <2>1, <2>3
  <1>8. TiesAgree(a) => Named(S, a) = Named(S, b)
    BY <1>2, NamedSame
  <1>9. Nameless(SummarizeImpact(a)) = Nameless(SummarizeImpact(b))
    <2>1. ASSUME NEW i, NEW L, NEW g, NEW x, i = Impact(L, g, x)
          PROVE  [i EXCEPT !.child = 0] = Impact(L, g, 0)
      BY <1>7, <2>1
    <2> DEFINE i == SummarizeImpact(a)
               j == SummarizeImpact(b)
               L == ToSet(a) \cap LiveOf(S)
               g == Given(Paid(C))
    <2>2. i = Impact(L, g, Named(S, a)) /\ j = Impact(L, g, Named(S, b))
      BY <1>2, <1>3, <1>6
    <2> HIDE DEF i, j, L, g
    <2>3. [i EXCEPT !.child = 0] = Impact(L, g, 0) /\ [j EXCEPT !.child = 0] = Impact(L, g, 0)
      BY <2>1, <2>2
    <2> QED BY <2>3 DEF i, j, Nameless
  <1>10. TiesAgree(a) => SummarizeImpact(a) = SummarizeImpact(b)
    BY <1>2, <1>3, <1>6, <1>8, Zenon
  <1> QED BY <1>9, <1>10

\* The next payment is the soonest, and of those the one with the first number.
LEMMA NextIs ==
    ASSUME NEW S, Sponsored(S), NEW rows \in Seq(S)
    PROVE  /\ NextScheduledPayment(rows)
                = SubSeq(Sorted(Passing(rows, DueOf(S)), ByNext(S)), 1,
                         IF ToSet(rows) \cap DueOf(S) # {} THEN 1 ELSE 0)
           /\ ByNext(S) \in [S -> Keys(2)]
           /\ Sorted(Passing(rows, DueOf(S)), ByNext(S)) \in Seq(S)
           /\ ToSet(Sorted(Passing(rows, DueOf(S)), ByNext(S))) = ToSet(rows) \cap DueOf(S)
  <1> DEFINE due == Passing(rows, DueOf(S))
  <1>1. ASSUME NEW t \in Seq(S)
        PROVE  <<>> \o t = t /\ \A i \in DOMAIN t : t[i] \in S
    BY Nothing
  <1>2. {i \in DOMAIN rows : Scheduled(rows[i])} = {i \in DOMAIN rows : rows[i] \in DueOf(S)}
    BY <1>1 DEF DueOf
  <1>3. Where(rows, Scheduled) = Kept(rows, {i \in DOMAIN rows : Scheduled(rows[i])})
    BY <1>1 DEF Where
  <1>4. Where(rows, Scheduled) = due
    BY <1>2, <1>3 DEF Passing
  <1>5. due \in Seq(S) /\ ToSet(due) = ToSet(rows) \cap DueOf(S)
    BY PassingRows
  <1>6. ByNext(S) \in [S -> Keys(2)]
    <2> SUFFICES ASSUME NEW s \in S PROVE <<s.next, s.id>> \in Keys(2)
      BY DEF ByNext
    <2>1. s.next \in Int /\ s.id \in Int
      BY DEF Sponsored
    <2> QED BY <2>1 DEF Keys
  <1> HIDE DEF due
  <1>7. Sorted(due, ByNext(S)) \in Seq(S) /\ ToSet(Sorted(due, ByNext(S))) = ToSet(due)
    BY <1>5, <1>6, SortedRows
  <1>8. SortedBy(due, LAMBDA s : <<s.next, s.id>>) = Sorted(due, ByNext(S))
    <2>1. [i \in DOMAIN due |-> <<due[i].next, due[i].id>>] = [i \in DOMAIN due |-> ByNext(S)[due[i]]]
      BY <1>1, <1>5 DEF ByNext
    <2>2. SortedBy(due, LAMBDA s : <<s.next, s.id>>)
            = Listed(due, DOMAIN due, ByKey([i \in DOMAIN due |-> <<due[i].next, due[i].id>>]))
      BY <1>1, <1>5 DEF SortedBy
    <2> QED BY <2>1, <2>2 DEF Sorted
  <1>9. (\E i \in DOMAIN rows : Scheduled(rows[i])) <=> ToSet(rows) \cap DueOf(S) # {}
    BY <1>1 DEF ToSet, DueOf
  <1>10. NextScheduledPayment(rows)
           = SubSeq(Sorted(due, ByNext(S)), 1, IF \E i \in DOMAIN rows : Scheduled(rows[i]) THEN 1 ELSE 0)
    BY <1>4, <1>8 DEF NextScheduledPayment
  <1> QED BY <1>5, <1>6, <1>7, <1>9, <1>10 DEF due

\* The sequence of the first element.
LEMMA FirstAlone ==
    ASSUME NEW S, NEW t \in Seq(S), Len(t) >= 1
    PROVE  SubSeq(t, 1, 1) = <<t[1]>>
  <1> DEFINE u == SubSeq(t, 1, 1)
  <1>1. \A i \in 1..1 : t[i] \in S
    OBVIOUS
  <1>2. u \in Seq(S) /\ Len(u) = 1 /\ \A i \in 1..1 - 1 + 1 : u[i] = t[1 + i - 1]
    BY <1>1, SubSeqProperties
  <1> HIDE DEF u
  <1>3. u = <<t[1]>>
    BY <1>2
  <1> QED BY <1>3 DEF u

\* It is the same, in whatever order the rows came.
LEMMA NextSame ==
    ASSUME NEW S, Sponsored(S), NEW a \in Seq(S), NEW b \in Seq(S), Shuffled(a, b),
           \A i, j \in DOMAIN a : a[i].id = a[j].id => i = j
    PROVE  NextScheduledPayment(a) = NextScheduledPayment(b)
  <1> DEFINE C == Passing(a, DueOf(S))
             D == Passing(b, DueOf(S))
  <1>1. Shuffled(C, D)
    BY PassingShuffled, Zenon
  <1> DEFINE K == ByNext(S)
  <1>2. K \in [S -> Keys(2)]
    BY NextIs
  <1>3. Distinct(a, K)
    <2> SUFFICES ASSUME NEW i \in DOMAIN a, NEW j \in DOMAIN a, K[a[i]] = K[a[j]] PROVE i = j
      BY DEF Distinct
    <2>1. a[i].id = a[j].id
      BY DEF ByNext
    <2> QED BY <2>1
  <1> HIDE DEF K
  <1>4. C \in Seq(S) /\ D \in Seq(S) /\ Distinct(C, K)
    BY <1>3, PassingRows
  <1> HIDE DEF C, D
  <1>5. Sorted(C, K) = Sorted(D, K)
    BY <1>1, <1>2, <1>4, SortedAlike
  <1>6. ToSet(a) = ToSet(b)
    BY ShuffledLength
  <1> QED BY <1>5, <1>6, NextIs DEF C, D, K

\* It falls on the day the impact bar names, and is of a live sponsorship.
LEMMA NextFits ==
    ASSUME NEW S, Sponsored(S), NEW rows \in Seq(S)
    PROVE  LET next == NextScheduledPayment(rows)
           IN  /\ SummarizeImpact(rows).next = (IF next = <<>> THEN 0 ELSE next[1].next)
               /\ ToSet(next) \subseteq ToSet(rows) \cap LiveOf(S)
  <1> DEFINE next == NextScheduledPayment(rows)
             L == ToSet(rows) \cap LiveOf(S)
             D == ToSet(rows) \cap DueOf(S)
             due == DaysDue(L)
             p == Passing(rows, DueOf(S))
             t == Sorted(p, ByNext(S))
  <1>0. ToSet(rows) \subseteq S
    BY DEF ToSet
  <1>1. /\ next = SubSeq(t, 1, IF D # {} THEN 1 ELSE 0)
        /\ ByNext(S) \in [S -> Keys(2)] /\ t \in Seq(S) /\ ToSet(t) = D
    BY NextIs
  <1>2. SummarizeImpact(rows).next = IF due = {} THEN 0 ELSE Min(due)
    <2> DEFINE g == Given(Paid(Passing(rows, LiveOf(S))))
    <2>1. SummarizeImpact(rows) = Impact(L, g, Named(S, rows))
      BY ImpactIs
    <2> HIDE DEF g, t, p, next, D
    <2>2. Impact(L, g, Named(S, rows)).next = IF due = {} THEN 0 ELSE Min(due)
      BY DEF Impact, NextDay
    <2> QED BY <2>1, <2>2
  <1>3. {x \in L : Coming(x)} = D /\ D \subseteq L
    BY DEF LiveOf, DueOf, Live, LiveStatuses, Coming, Scheduled
  <1>4. due = {s.next : s \in D}
    BY <1>3 DEF DaysDue
  <1>5. p \in Seq(S) /\ ToSet(p) = D
    BY PassingRows
  <1>6. \A i \in DOMAIN p : ~LexLess(ByNext(S)[p[i]], ByNext(S)[t[1]])
    BY <1>1, <1>5, SortedRows
  <1> HIDE DEF next, t, p, due
  <1>7. CASE D = {}
    <2>1. next = <<>>
      BY <1>1, <1>7
    <2>2. ToSet(<<>>) = {}
      BY DEF ToSet
    <2>3. due = {}
      BY <1>4, <1>7
    <2> QED BY <1>2, <2>1, <2>2, <2>3 DEF next
  <1>8. CASE D # {}
    <2>1. Len(t) >= 1 /\ Len(t) \in Nat
      BY <1>1, <1>8 DEF ToSet
    <2>2. next = <<t[1]>> /\ t[1] \in D
      <3>1. next = SubSeq(t, 1, 1)
        BY <1>1, <1>8
      <3>2. SubSeq(t, 1, 1) = <<t[1]>>
        BY <1>1, <2>1, FirstAlone
      <3>3. 1 \in DOMAIN t
        BY <1>1, <2>1
      <3> QED BY <1>1, <3>1, <3>2, <3>3 DEF ToSet
    <2>3. ToSet(next) = {t[1]} /\ next # <<>> /\ next[1] = t[1]
      BY <2>2 DEF ToSet
    <2>4. \A s \in D : s \in S /\ s.next \in Nat /\ ~(s.next < t[1].next)
      <3> SUFFICES ASSUME NEW s \in D PROVE s \in S /\ s.next \in Nat /\ ~(s.next < t[1].next)
        OBVIOUS
      <3>1. s \in S /\ t[1] \in S
        BY <1>0, <2>2
      <3>2. PICK i \in DOMAIN p : p[i] = s
        BY <1>5 DEF ToSet
      <3>3. ~LexLess(<<s.next, s.id>>, <<t[1].next, t[1].id>>)
        BY <1>6, <3>1, <3>2 DEF ByNext
      <3>4. ~(s.next < t[1].next)
        BY <3>3 DEF LexLess
      <3> QED BY <3>1, <3>4 DEF Sponsored
    <2>5. due \in SUBSET Nat /\ t[1].next \in due /\ due # {}
      BY <1>4, <2>2, <2>4
    <2>6. Min(due) \in due /\ \A d \in due : Min(due) <= d
      BY <2>5, Earliest
    <2>7. Min(due) = t[1].next
      BY <1>4, <2>2, <2>4, <2>5, <2>6
    <2> QED BY <1>2, <1>3, <2>2, <2>3, <2>5, <2>7 DEF next
  <1> QED BY <1>7, <1>8

-----------------------------------------------------------------------------
(* What the dashboard and My Orphans make of the cards.                    *)

\* Rows and cards of one sponsorship are one; live rows and cards of one child.
OneId(rows) == \A i, j \in DOMAIN rows : rows[i].id = rows[j].id => i = j
OneLive(rows) ==
    \A i, j \in DOMAIN rows : Live(rows[i]) /\ Live(rows[j]) /\ rows[i].orphan = rows[j].orphan => i = j
ById(cards) == \A i, j \in DOMAIN cards : cards[i].s.id = cards[j].s.id => i = j
ByChild(cards) == \A i, j \in DOMAIN cards : cards[i].s.orphan = cards[j].s.orphan => i = j

\* The cards of such rows.
LEMMA CardsFit ==
    ASSUME NEW S, NEW rows \in Seq(S), NEW R, Reported(R), NEW reports \in Seq(R),
           NEW M, Written(M), NEW messages \in Seq(M)
    PROVE  /\ BuildOrphanCards(rows, reports, messages) \in Seq(CardRow(S))
           /\ ToSet(BuildOrphanCards(rows, reports, messages))
                = {CardOf(s, reports, messages) : s \in ToSet(rows) \cap LiveOf(S)}
           /\ OneId(rows) => ById(BuildOrphanCards(rows, reports, messages))
           /\ OneLive(rows) => ByChild(BuildOrphanCards(rows, reports, messages))
  BY CardsType, ZenonT(30) DEF OneId, OneLive, ById, ByChild

\* Numbers tell cards apart under every order of the cards.
LEMMA KeysTellApart ==
    ASSUME NEW S, Sponsored(S), NEW cards \in Seq(CardRow(S)), ById(cards)
    PROVE  \A K \in {ByPriority(S), ByName(S), ByStart(S), ByDue(S), ByUnread(S)} : Distinct(cards, K)
  <1>1. \A i \in DOMAIN cards : cards[i] \in CardRow(S)
    OBVIOUS
  <1>2. ASSUME NEW K, NEW n \in Nat, \A c \in CardRow(S) : K[c][n] = c.s.id
        PROVE  Distinct(cards, K)
    <2> SUFFICES ASSUME NEW i \in DOMAIN cards, NEW j \in DOMAIN cards, K[cards[i]] = K[cards[j]] PROVE i = j
      BY DEF Distinct
    <2>1. cards[i].s.id = cards[j].s.id
      BY <1>1, <1>2
    <2> QED BY <2>1 DEF ById
  <1>3. Distinct(cards, ByPriority(S))
    <2>1. \A c \in CardRow(S) : ByPriority(S)[c][4] = c.s.id
      BY CardKeys
    <2> QED BY <1>2, <2>1
  <1>4. ASSUME NEW K \in {ByName(S), ByStart(S), ByDue(S), ByUnread(S)}
        PROVE  Distinct(cards, K)
    <2>1. \A c \in CardRow(S) : K[c][2] = c.s.id
      BY CardKeys
    <2> QED BY <1>2, <2>1
  <1> QED BY <1>3, <1>4

\* The cards under an order do not depend on the order they came in.
LEMMA SortSame ==
    ASSUME NEW S, Sponsored(S), NEW a \in Seq(CardRow(S)), NEW b \in Seq(CardRow(S)), Shuffled(a, b), ById(a)
    PROVE  \A k \in {"priority", "name", "newest"} : SortCards(a, k) = SortCards(b, k)
  <1> DEFINE C == CardRow(S)
             P == ByPriority(S)
             N == ByName(S)
             T == ByStart(S)
  <1>1. Distinct(a, P) /\ Distinct(a, N) /\ Distinct(a, T)
    BY KeysTellApart
  <1>2. P \in [C -> Keys(4)] /\ N \in [C -> Keys(2)] /\ T \in [C -> Keys(2)]
    BY CardKeys
  <1>3. /\ SortCards(a, "priority") = Sorted(a, P) /\ SortCards(b, "priority") = Sorted(b, P)
        /\ SortCards(a, "name") = Sorted(a, N) /\ SortCards(b, "name") = Sorted(b, N)
        /\ SortCards(a, "newest") = Sorted(a, T) /\ SortCards(b, "newest") = Sorted(b, T)
    BY SortIs
  <1> HIDE DEF C, P, N, T
  <1>0. a \in Seq(C) /\ b \in Seq(C)
    BY DEF C
  <1>4. Sorted(a, P) = Sorted(b, P)
    BY <1>0, <1>1, <1>2, SortedAlike
  <1>5. Sorted(a, N) = Sorted(b, N)
    BY <1>0, <1>1, <1>2, SortedAlike
  <1>6. Sorted(a, T) = Sorted(b, T)
    BY <1>0, <1>1, <1>2, SortedAlike
  <1> QED BY <1>3, <1>4, <1>5, <1>6

\* Neither does the attention bar.
LEMMA AttentionSame ==
    ASSUME NEW S, Sponsored(S), NEW a \in Seq(CardRow(S)), NEW b \in Seq(CardRow(S)), Shuffled(a, b), ById(a)
    PROVE  SummarizeAttention(a) = SummarizeAttention(b)
  <1> DEFINE C == CardRow(S)
             U == Unpaid(S)
             W == WithMail(S)
             D == ByDue(S)
             M == ByUnread(S)
  <1>1. Distinct(a, D) /\ Distinct(a, M)
    BY KeysTellApart
  <1>2. D \in [C -> Keys(2)] /\ M \in [C -> Keys(2)]
    BY CardKeys
  <1>3. /\ SummarizeAttention(a)
             = [overdue |-> Sorted(Passing(a, U), D), unread |-> Sorted(Passing(a, W), M),
                unreadTotal |-> Total(UnreadCounts(a), DOMAIN a)]
        /\ SummarizeAttention(b)
             = [overdue |-> Sorted(Passing(b, U), D), unread |-> Sorted(Passing(b, W), M),
                unreadTotal |-> Total(UnreadCounts(b), DOMAIN b)]
    BY AttentionIs
  <1>4. Total(UnreadCounts(a), DOMAIN a) = Total(UnreadCounts(b), DOMAIN b)
    <2>1. PICK h \in Bijection(DOMAIN a, DOMAIN b) : \A i \in DOMAIN a : a[i] = b[h[i]]
      BY DEF Shuffled
    <2>2. UnreadCounts(a) \in [DOMAIN a -> Nat] /\ UnreadCounts(b) \in [DOMAIN b -> Nat]
      <3>1. \A c \in C : c.unread \in Nat
        BY DEF CardRow
      <3>2. (\A i \in DOMAIN a : a[i] \in C) /\ (\A i \in DOMAIN b : b[i] \in C)
        OBVIOUS
      <3> HIDE DEF C
      <3> QED BY <3>1, <3>2 DEF UnreadCounts
    <2>3. \A i \in DOMAIN a : h[i] \in DOMAIN b
      BY <2>1 DEF Bijection, Injection
    <2>4. \A i \in DOMAIN a : UnreadCounts(a)[i] = UnreadCounts(b)[h[i]]
      BY <2>1, <2>3 DEF UnreadCounts
    <2>5. IsFiniteSet(DOMAIN a)
      <3>1. DOMAIN a = 1..Len(a) /\ Len(a) \in Nat
        OBVIOUS
      <3> QED BY <3>1, UpTo
    <2>6. Image(h, DOMAIN a) = DOMAIN b
      BY <2>1, <2>3 DEF Image, Bijection, Surjection
    <2> DEFINE f == UnreadCounts(a)
               g == UnreadCounts(b)
               X == DOMAIN a
               Y == DOMAIN b
    <2>7. f \in [X -> Nat] /\ g \in [Y -> Nat] /\ h \in Bijection(X, Y) /\ IsFiniteSet(X)
            /\ X \in SUBSET X /\ (\A i \in X : f[i] = g[h[i]])
      BY <2>1, <2>2, <2>4, <2>5
    <2>8. Image(h, X) = Y
      BY <2>6
    <2> HIDE DEF f, g, X, Y
    <2>9. Total(f, X) = Total(g, Image(h, X))
      BY <2>7, TotalSame, SMTT(20)
    <2> QED BY <2>8, <2>9 DEF f, g, X, Y
  <1>5. /\ Passing(a, U) \in Seq(C) /\ Passing(b, U) \in Seq(C)
        /\ Passing(a, W) \in Seq(C) /\ Passing(b, W) \in Seq(C)
    BY PassingType
  <1>6. Shuffled(Passing(a, U), Passing(b, U)) /\ Shuffled(Passing(a, W), Passing(b, W))
    BY PassingShuffled
  <1>7. Distinct(Passing(a, U), D) /\ Distinct(Passing(a, W), M)
    BY <1>1, PassingRows
  <1> DEFINE au == Passing(a, U)
             bu == Passing(b, U)
             aw == Passing(a, W)
             bw == Passing(b, W)
  <1> HIDE DEF C, U, W, D, M, au, bu, aw, bw
  <1>8. Sorted(au, D) = Sorted(bu, D)
    BY <1>2, <1>5, <1>6, <1>7, SortedAlike DEF au, bu
  <1>9. Sorted(aw, M) = Sorted(bw, M)
    BY <1>2, <1>5, <1>6, <1>7, SortedAlike DEF aw, bw
  <1> QED BY <1>3, <1>4, <1>8, <1>9 DEF au, bu, aw, bw

\* The bar and the chip name the same cards, each child once.
LEMMA AttentionNames ==
    ASSUME NEW S, Sponsored(S), NEW cards \in Seq(CardRow(S)), ByChild(cards)
    PROVE  LET bar == SummarizeAttention(cards)
               named == bar.overdue \o bar.unread
           IN  /\ ToSet(named) = ToSet(FilterCards(cards, "attention"))
               /\ \A i, j \in DOMAIN named : named[i].s.orphan = named[j].s.orphan => i = j
  <1> DEFINE C == CardRow(S)
             U == Unpaid(S)
             W == WithMail(S)
             D == ByDue(S)
             M == ByUnread(S)
             F == [c \in C |-> c.s.orphan]
             o == Sorted(Passing(cards, U), D)
             u == Sorted(Passing(cards, W), M)
  <1>1. SummarizeAttention(cards)
          = [overdue |-> o, unread |-> u, unreadTotal |-> Total(UnreadCounts(cards), DOMAIN cards)]
    BY AttentionIs
  <1>2. FilterCards(cards, "attention") = Passing(cards, Attended(S))
    BY AttentionIs
  <1>3. D \in [C -> Keys(2)] /\ M \in [C -> Keys(2)]
    BY CardKeys
  <1>4. \A i \in DOMAIN cards : cards[i] \in C
    OBVIOUS
  <1>5. Distinct(cards, F)
    <2>1. \A i, j \in DOMAIN cards : F[cards[i]] = F[cards[j]] => i = j
      BY <1>4 DEF ByChild
    <2> HIDE DEF F, C
    <2> QED BY <2>1 DEF Distinct
  <1>6. ToSet(cards) \subseteq C
    BY <1>4 DEF ToSet
  <1>7. Attended(S) = U \cup W /\ U \cap W = {} /\ U \subseteq C /\ W \subseteq C
    <2>1. \A c \in C : c.unread \in Nat
      BY DEF CardRow
    <2> QED BY <2>1 DEF Attended, Unpaid, WithMail, NeedsAttention
  <1>8. ToSet(Passing(cards, Attended(S))) = ToSet(cards) \cap Attended(S)
    BY PassingRows
  <1>9. \A x \in C : F[x] = x.s.orphan
    OBVIOUS
  <1>10. cards \in Seq(C)
    OBVIOUS
  <1> DEFINE p == Passing(cards, U)
             q == Passing(cards, W)
  <1> HIDE DEF C, U, W, D, M, F
  <1>11. p \in Seq(C) /\ ToSet(p) = ToSet(cards) \cap U /\ Distinct(p, F)
    BY <1>5, <1>10, PassingRows
  <1>12. q \in Seq(C) /\ ToSet(q) = ToSet(cards) \cap W /\ Distinct(q, F)
    BY <1>5, <1>10, PassingRows
  <1> HIDE DEF p, q
  <1>13. Sorted(p, D) \in Seq(C) /\ ToSet(Sorted(p, D)) = ToSet(p) /\ Distinct(Sorted(p, D), F)
    BY <1>3, <1>11, SortedRows
  <1>14. Sorted(q, M) \in Seq(C) /\ ToSet(Sorted(q, M)) = ToSet(q) /\ Distinct(Sorted(q, M), F)
    BY <1>3, <1>12, SortedRows
  <1>15. /\ o \in Seq(C) /\ ToSet(o) = ToSet(cards) \cap U /\ Distinct(o, F)
         /\ u \in Seq(C) /\ ToSet(u) = ToSet(cards) \cap W /\ Distinct(u, F)
    BY <1>11, <1>12, <1>13, <1>14 DEF p, q
  <1> HIDE DEF o, u
  <1>16. ASSUME NEW x \in ToSet(o), NEW y \in ToSet(u)
         PROVE  F[x] # F[y]
    <2>1. x \in ToSet(cards) /\ y \in ToSet(cards) /\ x # y
      BY <1>7, <1>15, <1>16
    <2>2. PICK i \in DOMAIN cards, j \in DOMAIN cards : x = cards[i] /\ y = cards[j]
      BY <2>1 DEF ToSet
    <2> QED BY <1>5, <2>1, <2>2 DEF Distinct
  <1>17. o \o u \in Seq(C) /\ ToSet(o \o u) = ToSet(o) \cup ToSet(u)
    BY <1>15, Behind
  <1>18. Distinct(o \o u, F)
    BY <1>15, <1>16, Behind
  <1>19. ToSet(o \o u) = ToSet(FilterCards(cards, "attention"))
    BY <1>2, <1>7, <1>8, <1>15, <1>17
  <1>20. \A i, j \in DOMAIN (o \o u) : (o \o u)[i].s.orphan = (o \o u)[j].s.orphan => i = j
    <2> DEFINE v == o \o u
    <2>1. v \in Seq(C) /\ Distinct(v, F)
      BY <1>17, <1>18
    <2> HIDE DEF v
    <2>2. \A i \in DOMAIN v : F[v[i]] = v[i].s.orphan
      BY <1>9, <2>1
    <2>3. \A i, j \in DOMAIN v : v[i].s.orphan = v[j].s.orphan => i = j
      BY <2>1, <2>2 DEF Distinct
    <2> QED BY <2>3 DEF v
  <1>21. SummarizeAttention(cards).overdue = o /\ SummarizeAttention(cards).unread = u
    BY <1>1
  <1> QED BY <1>19, <1>20, <1>21

\* The dashboard and My Orphans tell one story of the children: the attention
\* bar and the chip name the same cards, each child once; the next payment falls
\* on the same day on both; whoever is in the news or next to be paid for has a card.
Story(rows, reports, messages) ==
    LET cards == BuildOrphanCards(rows, reports, messages)
        bar == SummarizeAttention(cards)
        named == bar.overdue \o bar.unread
        next == NextScheduledPayment(rows)
        children == {cards[i].s.orphan : i \in DOMAIN cards}
    IN  /\ ToSet(named) = ToSet(FilterCards(cards, "attention"))
        /\ \A i, j \in DOMAIN named : named[i].s.orphan = named[j].s.orphan => i = j
        /\ SummarizeImpact(rows).next = (IF next = <<>> THEN 0 ELSE next[1].next)
        /\ {n.orphan : n \in ToSet(next)} \cup {n.child : n \in ToSet(BuildNewsFeed(cards))}
             \subseteq children

\* So they do when the rows have one live sponsorship of a child.
THEOREM OneStory ==
    ASSUME NEW S, Sponsored(S), NEW rows \in Seq(S), NEW R, Reported(R), NEW reports \in Seq(R),
           NEW M, Written(M), NEW messages \in Seq(M), OneLive(rows)
    PROVE  Story(rows, reports, messages)
  <1> DEFINE cards == BuildOrphanCards(rows, reports, messages)
             next == NextScheduledPayment(rows)
             children == {cards[i].s.orphan : i \in DOMAIN cards}
             L == ToSet(rows) \cap LiveOf(S)
  <1>1. /\ cards \in Seq(CardRow(S))
        /\ ToSet(cards) = {CardOf(s, reports, messages) : s \in L}
        /\ ByChild(cards)
    BY CardsFit
  <1>2. /\ SummarizeImpact(rows).next = (IF next = <<>> THEN 0 ELSE next[1].next)
        /\ ToSet(next) \subseteq L
    BY NextFits
  <1> HIDE DEF cards, next, L
  <1>3. children = {c.s.orphan : c \in ToSet(cards)}
    BY DEF ToSet
  <1>4. ASSUME NEW n \in ToSet(next)
        PROVE  n.orphan \in children
    <2>1. n \in L
      BY <1>2
    <2>2. CardOf(n, reports, messages) \in ToSet(cards)
      BY <1>1, <2>1
    <2>3. CardOf(n, reports, messages).s = n
      BY DEF CardOf
    <2> QED BY <1>3, <2>2, <2>3
  <1>5. ASSUME NEW n \in ToSet(BuildNewsFeed(cards))
        PROVE  n.child \in children
    <2>1. \A i, j \in DOMAIN cards : cards[i].s.orphan = cards[j].s.orphan => i = j
      BY <1>1 DEF ByChild
    <2> HIDE DEF children
    <2>2. PICK c \in ToSet(cards) : n.child = c.s.orphan
      BY <1>1, <1>5, <2>1, FeedHasCards
    <2> QED BY <1>3, <2>2
  <1>6. /\ ToSet(SummarizeAttention(cards).overdue \o SummarizeAttention(cards).unread)
             = ToSet(FilterCards(cards, "attention"))
        /\ \A i, j \in DOMAIN (SummarizeAttention(cards).overdue \o SummarizeAttention(cards).unread) :
              (SummarizeAttention(cards).overdue \o SummarizeAttention(cards).unread)[i].s.orphan
                = (SummarizeAttention(cards).overdue \o SummarizeAttention(cards).unread)[j].s.orphan => i = j
    BY <1>1, AttentionNames
  <1> HIDE DEF children
  <1>7. {n.orphan : n \in ToSet(next)} \cup {n.child : n \in ToSet(BuildNewsFeed(cards))} \subseteq children
    BY <1>4, <1>5
  <1> QED BY <1>2, <1>6, <1>7 DEF Story, cards, next, children

\* The order the rows come in decides nothing of what is shown of the children,
\* when the rows have one live sponsorship of a child and ids are unique, but the
\* child the impact bar names: of several payments due on one day it takes the
\* first (donorOrphans.ts:324), so that the whole bar is the same only if those
\* are for children of one name, or of none.
THEOREM OrderDecidesNothing ==
    ASSUME NEW S, Sponsored(S), NEW a \in Seq(S), NEW b \in Seq(S), Shuffled(a, b),
           NEW R, Reported(R), NEW p \in Seq(R), NEW q \in Seq(R), ToSet(p) = ToSet(q),
           NEW M, Written(M), NEW m \in Seq(M), NEW n \in Seq(M), Shuffled(m, n),
           OneId(a), OneLive(a), OneLive(b)
    PROVE  LET c == BuildOrphanCards(a, p, m)
               d == BuildOrphanCards(b, q, n)
           IN  /\ \A k \in {"priority", "name", "newest"} : SortCards(c, k) = SortCards(d, k)
               /\ SummarizeAttention(c) = SummarizeAttention(d)
               /\ BuildNewsFeed(c) = BuildNewsFeed(d)
               /\ Nameless(SummarizeImpact(a)) = Nameless(SummarizeImpact(b))
               /\ TiesAgree(a) => SummarizeImpact(a) = SummarizeImpact(b)
               /\ NextScheduledPayment(a) = NextScheduledPayment(b)
  <1> DEFINE c == BuildOrphanCards(a, p, m)
             d == BuildOrphanCards(b, q, n)
  <1>1. c \in Seq(CardRow(S)) /\ ById(c) /\ ByChild(c)
    BY CardsFit
  <1>2. d \in Seq(CardRow(S)) /\ ByChild(d)
    BY CardsFit
  <1>3. Shuffled(c, d)
    BY CardsShuffled
  <1> HIDE DEF c, d
  <1>4. ToSet(c) = ToSet(d)
    BY <1>1, <1>2, <1>3, ShuffledLength
  <1>5. \A k \in {"priority", "name", "newest"} : SortCards(c, k) = SortCards(d, k)
    BY <1>1, <1>2, <1>3, SortSame
  <1>6. SummarizeAttention(c) = SummarizeAttention(d)
    BY <1>1, <1>2, <1>3, AttentionSame
  <1>7. BuildNewsFeed(c) = BuildNewsFeed(d)
    BY <1>1, <1>2, <1>4, FeedSame DEF ByChild
  <1>8. /\ Nameless(SummarizeImpact(a)) = Nameless(SummarizeImpact(b))
        /\ TiesAgree(a) => SummarizeImpact(a) = SummarizeImpact(b)
    BY ImpactSame
  <1>9. NextScheduledPayment(a) = NextScheduledPayment(b)
    BY NextSame DEF OneId
  <1> QED BY <1>5, <1>6, <1>7, <1>8, <1>9 DEF c, d
=============================================================================
