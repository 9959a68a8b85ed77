-------------------------------- MODULE Sums --------------------------------
(***************************************************************************)
(* Sums over finite sets, for the proofs about amounts of money and bytes. *)
(* The models add with the folds of the community modules, which take the  *)
(* elements in the order CHOOSE gives them; the facts the proofs need are  *)
(* that the order does not matter and what one element more or less does.  *)
(* Induction over a finite set is the minimal element that a family of its *)
(* subsets has (FS_StrictSubsetOrderingWellFounded).                       *)
(***************************************************************************)
EXTENDS Naturals, FiniteSets, FiniteSetsExt, FiniteSetTheorems, TLAPS

(* A family of subsets of a finite set that holds every set all of whose   *)
(* elements can be taken away within the family holds them all.            *)
LEMMA SubsetInduction ==
    ASSUME NEW S, IsFiniteSet(S), NEW F,
           {} \in F, \A s \in SUBSET S : \A x \in s : s \ {x} \in F => s \in F
    PROVE  SUBSET S \subseteq F
<1> DEFINE Bad == (SUBSET S) \ F
<1> SUFFICES ASSUME Bad # {} PROVE FALSE OBVIOUS
<1>1. IsWellFoundedOn(StrictSubsetOrdering(S), SUBSET S)
    BY FS_StrictSubsetOrderingWellFounded, FS_FiniteSubsetsOfFinite
<1>2. PICK s \in Bad : \A t \in Bad : ~(<<t, s>> \in StrictSubsetOrdering(S))
    <2>1. Bad \subseteq SUBSET S OBVIOUS
    <2> HIDE DEF Bad
    <2> QED BY <1>1, <2>1, WFMin
<1>3. PICK x \in s : TRUE OBVIOUS
<1>4. s \ {x} \in SUBSET S /\ s \in SUBSET S /\ s \ {x} # s /\ s \ {x} \subseteq s BY <1>3
<1>5. <<s \ {x}, s>> \in StrictSubsetOrdering(S) BY <1>4 DEF StrictSubsetOrdering
<1> QED BY <1>2, <1>3, <1>4, <1>5

(* The same along 0..n: what holds of 0, and of k if of k - 1.              *)
LEMMA IntervalInduction ==
    ASSUME NEW n \in Nat, NEW F, 0 \in F, \A k \in 1..n : k - 1 \in F => k \in F
    PROVE  0..n \subseteq F
<1> DEFINE G == {s \in SUBSET (1..n) : Cardinality(s) \in F}
<1>1. IsFiniteSet(1..n) /\ Cardinality(1..n) = n BY FS_Interval
<1>2. {} \in G BY FS_EmptySet
<1>3. ASSUME NEW s \in SUBSET (1..n), NEW x \in s, s \ {x} \in G PROVE s \in G
    <2>1. IsFiniteSet(s) /\ Cardinality(s) <= n BY <1>1, FS_Subset
    <2>2. Cardinality(s \ {x}) = Cardinality(s) - 1 BY <2>1, FS_RemoveElement
    <2>3. Cardinality(s) \in Nat BY <2>1, FS_CardinalityType
    <2>4. Cardinality(s) # 0 BY <2>1, FS_EmptySet
    <2>5. Cardinality(s) - 1 \in F BY <1>3, <2>2
    <2> QED BY <2>1, <2>3, <2>4, <2>5
<1>4. SUBSET (1..n) \subseteq G
    <2> DEFINE S == 1..n
    <2>1. {} \in G /\ \A s \in SUBSET S : \A x \in s : s \ {x} \in G => s \in G BY <1>2, <1>3
    <2>2. IsFiniteSet(S) BY <1>1
    <2>3. SUBSET S \subseteq G
        <3> HIDE DEF G, S
        <3> QED BY <2>1, <2>2, SubsetInduction
    <2> QED BY <2>3
<1>5. ASSUME NEW k \in 0..n PROVE k \in F
    <2>1. Cardinality(1..k) = k BY FS_Interval
    <2>2. 1..k \in SUBSET (1..n) OBVIOUS
    <2> QED BY <1>4, <2>1, <2>2
<1> QED BY <1>5

(* g adds up the weights w over every subset of S. *)
Adds(g, w, S) ==
    /\ g \in [SUBSET S -> Nat]
    /\ g[{}] = 0
    /\ \A s \in SUBSET S : \A x \in s : g[s] = g[s \ {x}] + w[x]

Agrees(h, g, S) == \A s \in SUBSET S : h[s] = g[s]

LEMMA AddsOne ==
    ASSUME NEW w, NEW S, NEW y, y \notin S, \A x \in S \cup {y} : w[x] \in Nat, NEW g, Adds(g, w, S)
    PROVE  \E h : Adds(h, w, S \cup {y}) /\ Agrees(h, g, S)
<1> DEFINE T == S \cup {y}
           h == [s \in SUBSET T |-> IF y \in s THEN g[s \ {y}] + w[y] ELSE g[s]]
<1>1. \A s \in SUBSET T : s \ {y} \in SUBSET S /\ (y \notin s => s \in SUBSET S) OBVIOUS
<1>2. h \in [SUBSET T -> Nat] BY <1>1 DEF Adds
<1>3. \A s \in SUBSET S : h[s] = g[s] OBVIOUS
<1>4. h[{}] = 0 BY DEF Adds
<1>5. ASSUME NEW s \in SUBSET T, NEW x \in s PROVE h[s] = h[s \ {x}] + w[x]
    <2>1. CASE x = y
        <3>1. h[s] = g[s \ {y}] + w[y] BY <2>1
        <3>2. h[s \ {x}] = g[s \ {y}] BY <2>1, <1>1
        <3> QED BY <3>1, <3>2, <2>1
    <2>2. CASE x # y /\ y \in s
        <3>1. h[s] = g[s \ {y}] + w[y] /\ h[s \ {x}] = g[(s \ {x}) \ {y}] + w[y] BY <2>2
        <3>2. (s \ {x}) \ {y} = (s \ {y}) \ {x} /\ x \in s \ {y} BY <2>2
        <3>3. g[s \ {y}] = g[(s \ {y}) \ {x}] + w[x] BY <1>1, <3>2 DEF Adds
        <3>4. g[(s \ {y}) \ {x}] \in Nat /\ g[s \ {y}] \in Nat BY <1>1, <3>2 DEF Adds
        <3>5. w[x] \in Nat /\ w[y] \in Nat OBVIOUS
        <3> HIDE DEF h
        <3> QED BY <3>1, <3>2, <3>3, <3>4, <3>5
    <2>3. CASE y \notin s
        <3>1. h[s] = g[s] /\ h[s \ {x}] = g[s \ {x}] BY <2>3
        <3>2. s \in SUBSET S BY <2>3
        <3> QED BY <3>1, <3>2 DEF Adds
    <2> QED BY <2>1, <2>2, <2>3
<1> HIDE DEF h
<1> QED BY <1>2, <1>3, <1>4, <1>5 DEF Adds, Agrees

LEMMA AddsExists ==
    ASSUME NEW w, NEW S, IsFiniteSet(S), \A x \in S : w[x] \in Nat
    PROVE  \E g : Adds(g, w, S)
<1> DEFINE F == {s \in SUBSET S : \E g : Adds(g, w, s)}
<1>1. {} \in F
    <2> DEFINE g == [s \in {{}} |-> 0]
    <2>1. Adds(g, w, {})
      <3>1. SUBSET {} = {{}} OBVIOUS
      <3>2. g \in [SUBSET {} -> Nat] BY <3>1
      <3>3. g[{}] = 0 OBVIOUS
      <3>4. \A s \in SUBSET {} : \A x \in s : g[s] = g[s \ {x}] + w[x] BY <3>1
      <3> HIDE DEF g
      <3> QED BY <3>2, <3>3, <3>4 DEF Adds
    <2> QED BY <2>1
<1>2. ASSUME NEW s \in SUBSET S, NEW x \in s, s \ {x} \in F PROVE s \in F
    <2>1. PICK g : Adds(g, w, s \ {x}) BY <1>2
    <2>2. (s \ {x}) \cup {x} = s OBVIOUS
    <2>3. /\ x \notin s \ {x} /\ \A y \in (s \ {x}) \cup {x} : w[y] \in Nat
        OBVIOUS
    <2>4. \E h : Adds(h, w, (s \ {x}) \cup {x}) BY <2>1, <2>3, AddsOne
    <2>5. \E h : Adds(h, w, s) BY <2>2, <2>4
    <2> QED BY <2>5
<1> HIDE DEF F
<1>3. SUBSET S \subseteq F BY <1>1, <1>2, SubsetInduction
<1> QED BY <1>3 DEF F


(* h takes the elements of a set in some order.  Then it adds up.          *)
Takes(h, w, S) ==
    /\ h[{}] = 0
    /\ \A s \in SUBSET S : s # {} => \E x \in s : h[s] = w[x] + h[s \ {x}]

LEMMA AddsUnique ==
    ASSUME NEW w, NEW S, IsFiniteSet(S), NEW g, NEW h, Adds(g, w, S),
           Takes(h, w, S), \A x \in S : w[x] \in Nat
    PROVE  \A s \in SUBSET S : h[s] = g[s]
<1> DEFINE F == {s \in SUBSET S : h[s] = g[s]}
           Bad == (SUBSET S) \ F
<1> SUFFICES ASSUME Bad # {} PROVE FALSE OBVIOUS
<1>1. IsWellFoundedOn(StrictSubsetOrdering(S), SUBSET S)
    BY FS_StrictSubsetOrderingWellFounded, FS_FiniteSubsetsOfFinite
<1>2. PICK s \in Bad : \A t \in Bad : ~(<<t, s>> \in StrictSubsetOrdering(S))
    <2>1. Bad \subseteq SUBSET S OBVIOUS
    <2> HIDE DEF Bad
    <2> QED BY <1>1, <2>1, WFMin
<1>3. s # {} BY DEF Adds, Takes
<1>4. PICK x \in s : h[s] = w[x] + h[s \ {x}] BY <1>3 DEF Takes
<1>5. s \ {x} \in SUBSET S /\ s \in SUBSET S /\ s \ {x} # s /\ s \ {x} \subseteq s BY <1>4
<1>6. <<s \ {x}, s>> \in StrictSubsetOrdering(S) BY <1>5 DEF StrictSubsetOrdering
<1>7. h[s \ {x}] = g[s \ {x}] BY <1>2, <1>5, <1>6
<1>8. g[s] = g[s \ {x}] + w[x] /\ g[s \ {x}] \in Nat /\ w[x] \in Nat BY <1>5 DEF Adds
<1>9. h[s] = g[s] BY <1>4, <1>7, <1>8
<1> QED BY <1>5, <1>9

-----------------------------------------------------------------------------
(* The sum of the weights w of the elements of S.                          *)
Total(w, S) == (CHOOSE g : Adds(g, w, S))[S]

(* Whatever adds up agrees with Total.                                     *)
LEMMA TotalIs ==
    ASSUME NEW w, NEW S, IsFiniteSet(S), \A x \in S : w[x] \in Nat, NEW g, Adds(g, w, S)
    PROVE  Total(w, S) = g[S] /\ g[S] \in Nat
<1> DEFINE h == CHOOSE h : Adds(h, w, S)
<1>1. Adds(h, w, S) OBVIOUS
<1> HIDE DEF h
<1>2. h[{}] = 0 BY <1>1 DEF Adds
<1>3. ASSUME NEW s \in SUBSET S, s # {} PROVE \E x \in s : h[s] = w[x] + h[s \ {x}]
    <2>1. PICK x \in s : TRUE BY <1>3
    <2>2. h[s] = h[s \ {x}] + w[x] /\ h[s \ {x}] \in Nat /\ w[x] \in Nat BY <1>1, <2>1 DEF Adds
    <2>3. h[s] = w[x] + h[s \ {x}] BY <2>2
    <2> QED BY <2>1, <2>3
<1>4. S \in SUBSET S OBVIOUS
<1>5. h[S] = g[S]
    <2>1. Takes(h, w, S) BY <1>2, <1>3 DEF Takes
    <2>2. \A s \in SUBSET S : h[s] = g[s] BY <2>1, AddsUnique
    <2> QED BY <1>4, <2>2
<1>6. g[S] \in Nat BY <1>4 DEF Adds
<1> QED BY <1>5, <1>6 DEF Total, h

LEMMA TotalType ==
    ASSUME NEW w, NEW S, IsFiniteSet(S), \A x \in S : w[x] \in Nat
    PROVE  Total(w, S) \in Nat
BY AddsExists, TotalIs

LEMMA TotalEmpty == ASSUME NEW w PROVE Total(w, {}) = 0
<1>1. IsFiniteSet({}) BY FS_EmptySet
<1>2. PICK g : Adds(g, w, {}) BY <1>1, AddsExists
<1>3. g[{}] = 0 BY <1>2 DEF Adds
<1> QED BY <1>1, <1>2, <1>3, TotalIs

(* One element more.                                                       *)
LEMMA TotalAdd ==
    ASSUME NEW w, NEW S, IsFiniteSet(S), NEW y, y \notin S, \A x \in S \cup {y} : w[x] \in Nat
    PROVE  Total(w, S \cup {y}) = Total(w, S) + w[y]
<1>1. PICK g : Adds(g, w, S) BY AddsExists
<1>2. PICK h : Adds(h, w, S \cup {y}) /\ Agrees(h, g, S) BY <1>1, AddsOne
<1>3. IsFiniteSet(S \cup {y}) BY FS_AddElement
<1>4. Total(w, S) = g[S] BY <1>1, TotalIs
<1>5. Total(w, S \cup {y}) = h[S \cup {y}] BY <1>2, <1>3, TotalIs
<1>6. (S \cup {y}) \ {y} = S /\ S \in SUBSET S /\ y \in S \cup {y} /\ S \cup {y} \in SUBSET (S \cup {y}) OBVIOUS
<1>7. h[S \cup {y}] = h[S] + w[y] /\ h[S] = g[S] BY <1>2, <1>6 DEF Adds, Agrees
<1> QED BY <1>4, <1>5, <1>7

(* Only the weights of the elements count.                                 *)
LEMMA TotalSame ==
    ASSUME NEW v, NEW w, NEW S, IsFiniteSet(S), \A x \in S : w[x] \in Nat /\ v[x] = w[x]
    PROVE  Total(v, S) = Total(w, S)
<1>1. PICK g : Adds(g, w, S) BY AddsExists
<1>2. Adds(g, v, S) BY <1>1 DEF Adds
<1> QED BY <1>1, <1>2, TotalIs

(* Two sets that share no element.                                         *)
LEMMA TotalUnion ==
    ASSUME NEW w, NEW S, NEW T, IsFiniteSet(S), IsFiniteSet(T), S \cap T = {},
           \A x \in S \cup T : w[x] \in Nat
    PROVE  Total(w, S \cup T) = Total(w, S) + Total(w, T)
<1> DEFINE F == {t \in SUBSET T : Total(w, S \cup t) = Total(w, S) + Total(w, t)}
<1>1. {} \in F
    <2>1. Total(w, S) \in Nat /\ S \cup {} = S BY TotalType
    <2> QED BY <2>1, TotalEmpty
<1>2. ASSUME NEW t \in SUBSET T, NEW y \in t, t \ {y} \in F PROVE t \in F
    <2> DEFINE r == t \ {y}
    <2>1. IsFiniteSet(r) /\ IsFiniteSet(S \cup r)
        <3>1. IsFiniteSet(r) BY FS_Subset
        <3> QED BY <3>1, FS_Union
    <2>2. r \cup {y} = t /\ (S \cup r) \cup {y} = S \cup t /\ y \notin r /\ y \notin S \cup r OBVIOUS
    <2>3. \A x \in (S \cup r) \cup {y} : w[x] \in Nat OBVIOUS
    <2>4. Total(w, r \cup {y}) = Total(w, r) + w[y] BY <2>1, <2>2, <2>3, TotalAdd
    <2>5. Total(w, (S \cup r) \cup {y}) = Total(w, S \cup r) + w[y] BY <2>1, <2>2, <2>3, TotalAdd
    <2>6. Total(w, S \cup r) = Total(w, S) + Total(w, r) BY <1>2
    <2>7. Total(w, S) \in Nat /\ Total(w, r) \in Nat /\ w[y] \in Nat
        <3>1. (\A x \in S : w[x] \in Nat) /\ (\A x \in r : w[x] \in Nat) /\ w[y] \in Nat BY <2>3
        <3> HIDE DEF r
        <3> QED BY <2>1, <3>1, TotalType
    <2> HIDE DEF r
    <2>8. Total(w, t) = Total(w, r) + w[y] BY Zenon, <2>2, <2>4
    <2>9. Total(w, S \cup t) = Total(w, S \cup r) + w[y] BY Zenon, <2>2, <2>5
    <2>10. Total(w, S \cup t) = Total(w, S) + Total(w, t) BY <2>6, <2>7, <2>8, <2>9
    <2> QED BY <2>10
<1>3. SUBSET T \subseteq F
    <2> HIDE DEF F
    <2> QED BY <1>1, <1>2, SubsetInduction
<1> QED BY <1>3

(* A part of a set.                                                        *)
LEMMA TotalMonotone ==
    ASSUME NEW w, NEW S, IsFiniteSet(S), \A x \in S : w[x] \in Nat, NEW T, T \subseteq S
    PROVE  Total(w, T) \in Nat /\ Total(w, T) <= Total(w, S)
<1> DEFINE U == S \ T
<1>1. IsFiniteSet(T) /\ IsFiniteSet(U) BY FS_Subset
<1>2. (\A x \in T : w[x] \in Nat) /\ (\A x \in U : w[x] \in Nat) OBVIOUS
<1>3. Total(w, T) \in Nat /\ Total(w, U) \in Nat
    <2> HIDE DEF U
    <2> QED BY <1>1, <1>2, TotalType
<1>4. T \cup U = S /\ T \cap U = {} OBVIOUS
<1>5. Total(w, T \cup U) = Total(w, T) + Total(w, U)
    <2> HIDE DEF U
    <2> QED BY <1>1, <1>2, <1>4, TotalUnion
<1>6. Total(w, S) = Total(w, T) + Total(w, U) BY Zenon, <1>4, <1>5
<1> HIDE DEF U
<1> QED BY <1>3, <1>6

(* What a fold computes: it satisfies this equation, with any one choice.  *)
Folds(it, w, S) ==
    it = [s \in SUBSET S |-> IF s = {} THEN 0
                             ELSE w[CHOOSE x \in s : TRUE] + it[s \ {CHOOSE x \in s : TRUE}]]

LEMMA FoldsExist ==
    ASSUME NEW w, NEW S, IsFiniteSet(S), \A x \in S : w[x] \in Nat
    PROVE  \E it : Folds(it, w, S)
<1>1. PICK g : Adds(g, w, S) BY AddsExists
<1>2. ASSUME NEW s \in SUBSET S
      PROVE  g[s] = IF s = {} THEN 0
                    ELSE w[CHOOSE x \in s : TRUE] + g[s \ {CHOOSE x \in s : TRUE}]
    <2>1. CASE s = {} BY <1>1, <2>1 DEF Adds
    <2>2. CASE s # {}
        <3> DEFINE x == CHOOSE x \in s : TRUE
        <3>1. x \in s BY <2>2
        <3> HIDE DEF x
        <3>2. g[s] = g[s \ {x}] + w[x] /\ g[s \ {x}] \in Nat /\ w[x] \in Nat BY <1>1, <3>1 DEF Adds
        <3>3. g[s] = w[x] + g[s \ {x}] BY <3>2
        <3> QED BY <2>2, <3>3 DEF x
    <2> QED BY <2>1, <2>2
<1>3. Folds(g, w, S) BY <1>1, <1>2 DEF Adds, Folds
<1> QED BY <1>3

LEMMA FoldsTotal ==
    ASSUME NEW w, NEW S, IsFiniteSet(S), \A x \in S : w[x] \in Nat, NEW it, Folds(it, w, S)
    PROVE  it[S] = Total(w, S)
<1>1. PICK g : Adds(g, w, S) BY AddsExists
<1>2. it[{}] = 0 BY DEF Folds
<1>3. ASSUME NEW s \in SUBSET S, s # {} PROVE \E x \in s : it[s] = w[x] + it[s \ {x}]
    <2> DEFINE x == CHOOSE x \in s : TRUE
    <2>1. x \in s BY <1>3
    <2>2. it[s] = w[x] + it[s \ {x}] BY <1>3 DEF Folds
    <2> HIDE DEF x
    <2> QED BY <2>1, <2>2
<1>4. Takes(it, w, S) BY <1>2, <1>3 DEF Takes
<1>5. \A s \in SUBSET S : it[s] = g[s] BY <1>1, <1>4, AddsUnique
<1>6. it[S] = g[S] BY <1>5
<1> QED BY <1>1, <1>6, TotalIs
=============================================================================
