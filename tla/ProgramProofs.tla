--------------------------- MODULE ProgramProofs ---------------------------
(***************************************************************************)
(* What an affiliate program keeps for any number of owners, orders,       *)
(* top-ups and reports handled at a time, whatever the amounts.            *)
(*                                                                         *)
(* The amounts are sums, and the settlement's are recursive functions.     *)
(* What is said of them for every length is proved by induction, which     *)
(* the first part derives from the well-foundedness of the naturals.  The  *)
(* last part says of the same arithmetic, and of the split of a pool, what *)
(* Settlement asks.                                                        *)
(***************************************************************************)
EXTENDS ProgramProperties, Settlement, FiniteSetTheorems, WellFoundedInduction, TLAPS

-----------------------------------------------------------------------------
\* Induction and sums.

\* Every set of naturals that is not empty has a least element.
LEMMA LeastOf ==
    ASSUME NEW S, S \subseteq Nat, S # {}
    PROVE  \E x \in S : \A y \in S : x <= y
<1>1. PICK x \in S : \A y \in S : ~(<<y, x>> \in OpToRel(<, Nat))
  BY NatLessThanWellFounded, WFMin
<1>2. \A y \in S : x <= y
  <2> TAKE y \in S
  <2>1. x \in Nat /\ y \in Nat
    OBVIOUS
  <2>2. ~(y < x)
    <3> SUFFICES ASSUME y < x PROVE <<y, x>> \in OpToRel(<, Nat)
      BY <1>1
    <3> DEFINE pair == <<y, x>>
    <3>1. pair \in Nat \X Nat /\ pair[1] < pair[2]
      BY <2>1
    <3> HIDE DEF pair
    <3>2. pair \in OpToRel(<, Nat)
      BY <3>1 DEF OpToRel
    <3> QED
      BY <3>2 DEF pair
  <2> QED
    BY <2>1, <2>2
<1> QED
  BY <1>2

\* Induction, for a set of naturals.
LEMMA Induct ==
    ASSUME NEW T, 0 \in T, \A n \in Nat : n \in T => n + 1 \in T
    PROVE  Nat \subseteq T
<1> SUFFICES ASSUME Nat \ T # {} PROVE FALSE
  OBVIOUS
<1>1. PICK x \in Nat \ T : \A y \in Nat \ T : x <= y
  BY LeastOf
<1>2. x # 0 /\ x - 1 \in Nat
  BY <1>1
<1>3. x - 1 \in T
  BY <1>1, <1>2
<1> QED
  BY <1>1, <1>2, <1>3

-----------------------------------------------------------------------------
\* MapThenSumSet takes its elements in the order of this choice.
Pick(s) == CHOOSE x \in s : TRUE
\* iter sums f over each part of S.
Sums(f, S, iter) ==
    iter = [s \in SUBSET S |-> IF s = {} THEN 0 ELSE f[Pick(s)] + iter[s \ {Pick(s)}]]
SumOver(f, S) == (CHOOSE iter : Sums(f, S, iter))[S]

LEMMA PickIn == ASSUME NEW s, s # {} PROVE Pick(s) \in s
BY DEF Pick

Upto(n, S) == {s \in SUBSET S : Cardinality(s) <= n}
\* The iteration that sums exists, by induction on the size of the parts.
LEMMA SumsExist ==
    ASSUME NEW f, NEW S, IsFiniteSet(S), f \in [S -> Nat]
    PROVE  \E iter : Sums(f, S, iter)
<1> DEFINE Part(n, g) ==
       \A s \in Upto(n, S) : s # {} => g[s] = f[Pick(s)] + g[s \ {Pick(s)}]
    T == {n \in Nat : \E g \in [SUBSET S -> Nat] : g[{}] = 0 /\ Part(n, g)}
<1>0. /\ Cardinality({}) = 0
      /\ \A s \in SUBSET S : Cardinality(s) \in Nat /\ (Cardinality(s) = 0 <=> s = {})
  BY FS_EmptySet, FS_Subset, FS_CardinalityType
<1>1. \A s \in SUBSET S : /\ IsFiniteSet(s) /\ Cardinality(s) \in Nat
                          /\ s # {} => /\ Pick(s) \in s /\ Cardinality(s) # 0
                                       /\ Cardinality(s \ {Pick(s)}) = Cardinality(s) - 1
  BY <1>0, FS_Subset, FS_CardinalityType, FS_RemoveElement, PickIn
<1>2. 0 \in T
  <2> DEFINE g == [s \in SUBSET S |-> 0]
  <2>1. Upto(0, S) \subseteq {{}}
    BY <1>0 DEF Upto
  <2>2. g \in [SUBSET S -> Nat] /\ g[{}] = 0 /\ Part(0, g)
    BY <2>1
  <2> QED
    BY <2>2
<1>3. ASSUME NEW n \in Nat, n \in T PROVE n + 1 \in T
  <2>1. PICK g \in [SUBSET S -> Nat] : g[{}] = 0 /\ Part(n, g)
    BY <1>3
  <2> DEFINE h == [s \in SUBSET S |->
                     IF Cardinality(s) = n + 1 THEN f[Pick(s)] + g[s \ {Pick(s)}] ELSE g[s]]
  <2>2. h \in [SUBSET S -> Nat]
    <3>1. ASSUME NEW s \in SUBSET S, Cardinality(s) = n + 1
          PROVE  f[Pick(s)] \in Nat /\ g[s \ {Pick(s)}] \in Nat
      <4>1. s # {}
        BY <1>0, n + 1 # 0, <3>1
      <4> QED
        BY <1>1, <4>1
    <3> QED
      BY <3>1
  <2>3. h[{}] = 0
    BY <1>0, <2>1
  <2>4. ASSUME NEW s \in Upto(n + 1, S), s # {}
        PROVE  h[s] = f[Pick(s)] + h[s \ {Pick(s)}]
    <3>1. s \in SUBSET S /\ s \ {Pick(s)} \in SUBSET S
          /\ Cardinality(s \ {Pick(s)}) = Cardinality(s) - 1 /\ Cardinality(s) \in Nat
          /\ Cardinality(s) <= n + 1
      BY <1>1, <2>4 DEF Upto
    <3>2. h[s \ {Pick(s)}] = g[s \ {Pick(s)}]
      <4> DEFINE r == s \ {Pick(s)}
      <4>1. r \in SUBSET S /\ Cardinality(r) # n + 1
        BY <3>1
      <4>2. \A t \in SUBSET S : Cardinality(t) # n + 1 => h[t] = g[t]
        OBVIOUS
      <4> HIDE DEF r, h
      <4>3. h[r] = g[r]
        BY <4>1, <4>2
      <4> QED
        BY <4>3 DEF r
    <3>3. CASE Cardinality(s) = n + 1
      BY <3>1, <3>2, <3>3
    <3>4. CASE Cardinality(s) # n + 1
      <4>1. s \in Upto(n, S)
        BY <3>1, <3>4 DEF Upto
      <4> QED
        BY <2>1, <2>4, <3>1, <3>2, <3>4, <4>1
    <3> QED
      BY <3>3, <3>4
  <2> HIDE DEF h
  <2>5. Part(n + 1, h)
    BY <2>4
  <2> HIDE DEF Part
  <2> QED
    BY <2>2, <2>3, <2>5
<1>4. Cardinality(S) \in T
  <2> HIDE DEF T
  <2> QED
    BY <1>2, <1>3, Induct, FS_CardinalityType
<1>5. PICK g \in [SUBSET S -> Nat] : g[{}] = 0 /\ Part(Cardinality(S), g)
  BY <1>4
<1>6. \A s \in SUBSET S : s \in Upto(Cardinality(S), S)
  BY FS_Subset DEF Upto
<1>7. \A s \in SUBSET S : g[s] = IF s = {} THEN 0 ELSE f[Pick(s)] + g[s \ {Pick(s)}]
  BY <1>5, <1>6
<1> QED
  BY <1>5, <1>7 DEF Sums

\* What holds of a set as soon as it holds of the set less any of its elements.
LEMMA SetInduct ==
    ASSUME NEW S, IsFiniteSet(S), NEW P,
           \A s \in SUBSET S : (\A x \in s : s \ {x} \in P) => s \in P
    PROVE  S \in P
<1>1. \A s \in SUBSET S : IsFiniteSet(s) /\ Cardinality(s) \in Nat
  BY FS_Subset, FS_CardinalityType
<1> SUFFICES ASSUME S \notin P PROVE FALSE
  OBVIOUS
<1> DEFINE Sizes == {n \in Nat : \E s \in SUBSET S : s \notin P /\ Cardinality(s) = n}
<1>2. Sizes # {} /\ Sizes \subseteq Nat
  BY <1>1
<1>3. PICK n \in Sizes : \A m \in Sizes : n <= m
  <2> HIDE DEF Sizes
  <2> QED
    BY <1>2, LeastOf
<1>4. PICK s \in SUBSET S : s \notin P /\ Cardinality(s) = n
  BY <1>3
<1>5. ASSUME NEW x \in s PROVE s \ {x} \in P
  <2>1. s \ {x} \in SUBSET S /\ Cardinality(s \ {x}) = n - 1
    BY <1>1, <1>4, FS_RemoveElement
  <2>2. SUFFICES ASSUME s \ {x} \notin P PROVE FALSE
    OBVIOUS
  <2>3. n - 1 \in Nat
    BY <1>1, <2>1
  <2>4. n - 1 \in Sizes
    BY <2>1, <2>2, <2>3
  <2> QED
    BY <1>3, <2>4
<1> QED
  BY <1>4, <1>5

\* Two sums of the same amounts agree on what they have in common.
LEMMA SumsAgree ==
    ASSUME NEW f, NEW S, NEW g, Sums(f, S, g), NEW k, NEW T, NEW h, Sums(k, T, h),
           NEW s \in SUBSET (S \cap T), IsFiniteSet(s), \A x \in s : f[x] = k[x]
    PROVE  g[s] = h[s]
<1> DEFINE P == {r \in SUBSET s : g[r] = h[r]}
<1>1. ASSUME NEW r \in SUBSET s, \A x \in r : r \ {x} \in P PROVE r \in P
  <2>1. r \in SUBSET S /\ r \in SUBSET T
    OBVIOUS
  <2>2. g[r] = IF r = {} THEN 0 ELSE f[Pick(r)] + g[r \ {Pick(r)}]
    BY <2>1 DEF Sums
  <2>3. h[r] = IF r = {} THEN 0 ELSE k[Pick(r)] + h[r \ {Pick(r)}]
    BY <2>1 DEF Sums
  <2>4. r # {} => Pick(r) \in r
    BY PickIn
  <2> QED
    BY <1>1, <2>2, <2>3, <2>4
<1> HIDE DEF P
<1>2. s \in P
  BY <1>1, SetInduct
<1> QED
  BY <1>2 DEF P

\* The sum is determined.
LEMMA SumsAreOne ==
    ASSUME NEW f, NEW S, IsFiniteSet(S), \A x \in S : f[x] \in Nat
    PROVE  /\ \E iter : Sums(f, S, iter)
           /\ \A iter : Sums(f, S, iter) => iter[S] = SumOver(f, S)
<1>1. \E iter : Sums(f, S, iter)
  <2> DEFINE k == [x \in S |-> f[x]]
  <2>1. k \in [S -> Nat] /\ \A x \in S : k[x] = f[x]
    OBVIOUS
  <2> HIDE DEF k
  <2>2. PICK iter : Sums(k, S, iter)
    BY <2>1, SumsExist
  <2>3. \A s \in SUBSET S : s # {} => k[Pick(s)] = f[Pick(s)]
    BY <2>1, PickIn
  <2>4. [s \in SUBSET S |-> IF s = {} THEN 0 ELSE k[Pick(s)] + iter[s \ {Pick(s)}]]
        = [s \in SUBSET S |-> IF s = {} THEN 0 ELSE f[Pick(s)] + iter[s \ {Pick(s)}]]
    BY <2>3
  <2> QED
    BY <2>2, <2>4 DEF Sums
<1> DEFINE I == CHOOSE iter : Sums(f, S, iter)
<1>2. Sums(f, S, I) /\ SumOver(f, S) = I[S]
  BY <1>1 DEF SumOver
<1> HIDE DEF I
<1>3. ASSUME NEW iter, Sums(f, S, iter) PROVE iter[S] = I[S]
  BY <1>2, <1>3, SumsAgree
<1> QED
  BY <1>1, <1>2, <1>3

LEMMA SumOverIs ==
    ASSUME NEW f, NEW S, IsFiniteSet(S), \A x \in S : f[x] \in Nat
    PROVE  /\ SumOver(f, {}) = 0
           /\ S # {} => SumOver(f, S) = f[Pick(S)] + SumOver(f, S \ {Pick(S)})
<1>1. \A T \in SUBSET S : \E iter : Sums(f, T, iter)
  BY FS_Subset, SumsAreOne
<1> DEFINE Iter(T) == CHOOSE iter : Sums(f, T, iter)
<1>2. \A T \in SUBSET S : Sums(f, T, Iter(T)) /\ SumOver(f, T) = Iter(T)[T]
  BY <1>1 DEF SumOver
<1> HIDE DEF Iter
<1>3. \A T \in SUBSET S : Iter(T)[T] = IF T = {} THEN 0 ELSE f[Pick(T)] + Iter(T)[T \ {Pick(T)}]
  BY <1>2 DEF Sums
<1>4. SumOver(f, {}) = 0
  BY <1>2, <1>3
<1>5. ASSUME S # {} PROVE SumOver(f, S) = f[Pick(S)] + SumOver(f, S \ {Pick(S)})
  <2> DEFINE R == S \ {Pick(S)}
  <2>1. R \in SUBSET S /\ S \in SUBSET S /\ R \in SUBSET (S \cap R) /\ IsFiniteSet(R)
    BY FS_Subset
  <2>2. Sums(f, S, Iter(S)) /\ Sums(f, R, Iter(R))
    BY <1>2, <2>1
  <2> HIDE DEF R
  <2>3. Iter(S)[R] = Iter(R)[R]
    BY <2>1, <2>2, SumsAgree
  <2> QED
    BY <1>2, <1>3, <1>5, <2>1, <2>3 DEF R
<1> QED
  BY <1>4, <1>5

LEMMA SumIsNat ==
    ASSUME NEW f, NEW S, IsFiniteSet(S), \A x \in S : f[x] \in Nat
    PROVE  SumOver(f, S) \in Nat
<1> DEFINE P == {s \in SUBSET S : SumOver(f, s) \in Nat}
<1>1. ASSUME NEW s \in SUBSET S, \A x \in s : s \ {x} \in P PROVE s \in P
  <2>1. IsFiniteSet(s)
    BY FS_Subset
  <2>2. SumOver(f, {}) = 0 /\ (s # {} => SumOver(f, s) = f[Pick(s)] + SumOver(f, s \ {Pick(s)}))
    BY <2>1, SumOverIs
  <2>3. s # {} => Pick(s) \in s
    BY PickIn
  <2>4. s # {} => f[Pick(s)] \in Nat /\ SumOver(f, s \ {Pick(s)}) \in Nat
    BY <1>1, <2>3
  <2> QED
    BY <2>2, <2>4
<1> HIDE DEF P
<1>2. S \in P
  BY <1>1, SetInduct
<1> QED
  BY <1>2 DEF P

\* The sum does not depend on which element comes first.
LEMMA SumStep ==
    ASSUME NEW f, NEW S, IsFiniteSet(S), \A x \in S : f[x] \in Nat, NEW x \in S
    PROVE  SumOver(f, S) = f[x] + SumOver(f, S \ {x})
<1> DEFINE P == {s \in SUBSET S : \A y \in s : SumOver(f, s) = f[y] + SumOver(f, s \ {y})}
<1>1. ASSUME NEW s \in SUBSET S, \A y \in s : s \ {y} \in P PROVE s \in P
  <2> SUFFICES ASSUME NEW y \in s PROVE SumOver(f, s) = f[y] + SumOver(f, s \ {y})
    OBVIOUS
  <2> DEFINE p == Pick(s)
             R == (s \ {p}) \ {y}
  <2>1. IsFiniteSet(s) /\ p \in s
    BY FS_Subset, PickIn
  <2>2. SumOver(f, s) = f[p] + SumOver(f, s \ {p})
    BY <2>1, SumOverIs
  <2>3. CASE y = p
    BY <2>2, <2>3
  <2>4. CASE y # p
    <3>1. SumOver(f, s \ {p}) = f[y] + SumOver(f, R)
      BY <1>1, <2>1, <2>4
    <3>2. (s \ {y}) \ {p} = R
      OBVIOUS
    <3>3. SumOver(f, s \ {y}) = f[p] + SumOver(f, (s \ {y}) \ {p})
      BY <1>1, <2>1, <2>4
    <3>4. SumOver(f, R) \in Nat
      <4>1. R \in SUBSET S /\ IsFiniteSet(R)
        BY FS_Subset
      <4> HIDE DEF R
      <4> QED
        BY <4>1, SumIsNat
    <3>5. f[p] \in Nat /\ f[y] \in Nat
      BY <2>1
    <3> HIDE DEF R, p
    <3> QED
      BY <2>2, <3>1, <3>2, <3>3, <3>4, <3>5
  <2> QED
    BY <2>3, <2>4
<1> HIDE DEF P
<1>2. S \in P
  BY <1>1, SetInduct
<1> QED
  BY <1>2 DEF P

\* More elements come to at least as much.
LEMMA SumGrows ==
    ASSUME NEW f, NEW T, IsFiniteSet(T), \A x \in T : f[x] \in Nat, NEW S \in SUBSET T
    PROVE  SumOver(f, S) <= SumOver(f, T)
<1> DEFINE P == {t \in SUBSET T : S \subseteq t => SumOver(f, S) <= SumOver(f, t)}
<1>1. ASSUME NEW t \in SUBSET T, \A x \in t : t \ {x} \in P PROVE t \in P
  <2> SUFFICES ASSUME S \subseteq t, S # t PROVE SumOver(f, S) <= SumOver(f, t)
    <3>1. IsFiniteSet(S)
      BY FS_Subset
    <3> QED
      BY <3>1, SumIsNat
  <2>1. PICK x \in t : x \notin S
    OBVIOUS
  <2>2. IsFiniteSet(t) /\ IsFiniteSet(t \ {x}) /\ IsFiniteSet(S)
    BY FS_Subset
  <2>3. SumOver(f, t) = f[x] + SumOver(f, t \ {x})
    BY <2>2, SumStep
  <2>4. SumOver(f, t \ {x}) \in Nat /\ SumOver(f, S) \in Nat
    BY <2>2, SumIsNat
  <2>5. SumOver(f, S) <= SumOver(f, t \ {x})
    BY <1>1, <2>1
  <2> QED
    BY <2>3, <2>4, <2>5
<1> HIDE DEF P
<1>2. T \in P
  BY <1>1, SetInduct
<1> QED
  BY <1>2 DEF P

LEMMA SumSame ==
    ASSUME NEW f, NEW k, NEW S, IsFiniteSet(S), \A x \in S : f[x] \in Nat /\ k[x] = f[x]
    PROVE  SumOver(f, S) = SumOver(k, S)
<1> DEFINE P == {s \in SUBSET S : SumOver(f, s) = SumOver(k, s)}
<1>1. ASSUME NEW s \in SUBSET S, \A x \in s : s \ {x} \in P PROVE s \in P
  <2>1. IsFiniteSet(s)
    BY FS_Subset
  <2>2. SumOver(f, {}) = 0 /\ (s # {} => SumOver(f, s) = f[Pick(s)] + SumOver(f, s \ {Pick(s)}))
    BY <2>1, SumOverIs
  <2>3. SumOver(k, {}) = 0 /\ (s # {} => SumOver(k, s) = k[Pick(s)] + SumOver(k, s \ {Pick(s)}))
    BY <2>1, SumOverIs
  <2>4. s # {} => Pick(s) \in s
    BY PickIn
  <2> QED
    BY <1>1, <2>2, <2>3, <2>4
<1> HIDE DEF P
<1>2. S \in P
  BY <1>1, SetInduct
<1> QED
  BY <1>2 DEF P

\* The same amounts under other names come to the same.
LEMMA SumMoved ==
    ASSUME NEW k, NEW T, IsFiniteSet(T), \A x \in T : k[x] \in Nat,
           NEW f, NEW g, \A x \in T : f[g[x]] = k[x],
           \A x, y \in T : g[x] = g[y] => x = y
    PROVE  SumOver(k, T) = SumOver(f, {g[x] : x \in T})
<1> DEFINE P == {t \in SUBSET T : SumOver(k, t) = SumOver(f, {g[x] : x \in t})}
<1>1. ASSUME NEW t \in SUBSET T, \A x \in t : t \ {x} \in P PROVE t \in P
  <2> DEFINE G == {g[x] : x \in t}
  <2>1. IsFiniteSet(t)
    BY FS_Subset
  <2>2. IsFiniteSet(G) /\ \A v \in G : f[v] \in Nat
    <3> DEFINE h == [x \in t |-> g[x]]
    <3>1. h \in Surjection(t, G)
      BY DEF Surjection
    <3>2. \A v \in G : f[v] \in Nat
      OBVIOUS
    <3> HIDE DEF h, G
    <3> QED
      BY <2>1, <3>1, <3>2, FS_Surjection
  <2>3. CASE t = {}
    <3>1. G = {}
      BY <2>3
    <3>2. SumOver(k, {}) = 0 /\ SumOver(f, {}) = 0
      BY FS_EmptySet, SumOverIs
    <3> QED
      BY <2>3, <3>1, <3>2
  <2>4. CASE t # {}
    <3>1. PICK y \in t : TRUE
      BY <2>4
    <3>2. SumOver(k, t) = k[y] + SumOver(k, t \ {y})
      BY <2>1, SumStep
    <3>3. SumOver(f, G) = f[g[y]] + SumOver(f, G \ {g[y]})
      <4>1. g[y] \in G
        OBVIOUS
      <4> HIDE DEF G
      <4> QED
        BY <2>2, <4>1, SumStep
    <3>4. G \ {g[y]} = {g[x] : x \in t \ {y}}
      OBVIOUS
    <3>5. SumOver(k, t \ {y}) = SumOver(f, {g[x] : x \in t \ {y}})
      BY <1>1
    <3>6. k[y] = f[g[y]]
      OBVIOUS
    <3>7. SumOver(k, t) = SumOver(f, G)
      BY <3>2, <3>3, <3>4, <3>5, <3>6
    <3> QED
      BY <3>7
  <2> QED
    BY <2>3, <2>4
<1> HIDE DEF P
<1>2. T \in P
  BY <1>1, SetInduct
<1> QED
  BY <1>2 DEF P

-----------------------------------------------------------------------------
\* The fees and the settlement of money.py.

\* A recursive function on 0..N: it exists, and its values are of the type.
LEMMA RecursionExists ==
    ASSUME NEW N \in Nat, NEW v0 \in Nat, NEW F \in [(1..N) \X Nat -> Nat]
    PROVE  \E e \in [0..N -> Nat] : e[0] = v0 /\ \A n \in 1..N : e[n] = F[<<n, e[n-1]>>]
<1> DEFINE Good(m, e) == e[0] = v0 /\ \A n \in 1..N : n <= m => e[n] = F[<<n, e[n-1]>>]
           T == {m \in Nat : \E e \in [0..N -> Nat] : Good(m, e)}
<1>1. 0 \in T
  <2> DEFINE e == [n \in 0..N |-> v0]
  <2>1. e \in [0..N -> Nat] /\ Good(0, e)
    OBVIOUS
  <2> QED
    BY <2>1
<1>2. ASSUME NEW m \in Nat, m \in T PROVE m + 1 \in T
  <2>1. PICK e \in [0..N -> Nat] : Good(m, e)
    BY <1>2
  <2>2. CASE m + 1 \notin 1..N
    <3>1. Good(m + 1, e)
      BY <2>1, <2>2
    <3> QED
      BY <3>1
  <2>3. CASE m + 1 \in 1..N
    <3> DEFINE g == [e EXCEPT ![m+1] = F[<<m+1, e[m]>>]]
    <3>1. m \in 0..N /\ e[m] \in Nat /\ F[<<m+1, e[m]>>] \in Nat
      BY <2>3
    <3>2. g \in [0..N -> Nat] /\ g[m+1] = F[<<m+1, e[m]>>] /\ \A n \in 0..N : n # m + 1 => g[n] = e[n]
      BY <2>3, <3>1
    <3> HIDE DEF g
    <3>3. Good(m + 1, g)
      <4>1. g[0] = v0
        BY <2>1, <3>2
      <4>2. ASSUME NEW n \in 1..N, n <= m + 1 PROVE g[n] = F[<<n, g[n-1]>>]
        <5>1. n - 1 \in 0..N /\ n - 1 # m + 1 /\ g[n-1] = e[n-1]
          BY <3>2, <4>2
        <5>2. CASE n = m + 1
          BY <3>2, <5>1, <5>2
        <5>3. CASE n # m + 1
          BY <2>1, <3>2, <4>2, <5>1, <5>3
        <5> QED
          BY <5>2, <5>3
      <4> QED
        BY <4>1, <4>2
    <3> HIDE DEF Good
    <3> QED
      BY <3>2, <3>3
  <2> QED
    BY <2>2, <2>3
<1> HIDE DEF T
<1>3. N \in T
  BY <1>1, <1>2, Induct
<1> QED
  BY <1>3 DEF T

\* The pence of money.py's fees.
BuyerFee(x, f) == (x * f) \div 100
ChargeOf(x, f) == x + BuyerFee(x, f)
NetOf(x, s) == x - (x * s) \div 100

LEMMA DealMoneyIs ==
    ASSUME NEW x, NEW s, NEW f
    PROVE  /\ DealMoney(x, s, f).charge_amount = ChargeOf(x, f)
           /\ DealMoney(x, s, f).net_to_owner = NetOf(x, s)
BY DEF DealMoney, ChargeOf, BuyerFee, NetOf

LEMMA FeeFits ==
    ASSUME NEW x \in Nat, NEW pct \in 0..100
    PROVE  (x * pct) \div 100 \in 0..x
<1>1. x * pct \in Nat /\ x * pct <= x * 100
  OBVIOUS
<1> DEFINE y == x * pct
<1>2. y \div 100 \in Nat /\ 100 * (y \div 100) <= y
  <2>1. y \in Nat
    BY <1>1
  <2> HIDE DEF y
  <2> QED
    BY <2>1
<1> QED
  BY <1>1, <1>2

LEMMA NetFits ==
    ASSUME NEW x \in Nat, NEW pct \in 0..100
    PROVE  NetOf(x, pct) \in 0..x
<1> DEFINE fee == (x * pct) \div 100
<1>1. fee \in 0..x
  BY FeeFits
<1> HIDE DEF fee
<1>2. x - fee \in 0..x
  BY <1>1
<1> QED
  BY <1>2 DEF NetOf, fee

LEMMA ShareFits ==
    ASSUME NEW x \in Nat, NEW capped \in Nat, NEW total \in Nat, capped <= total, total # 0
    PROVE  (x * capped) \div total \in 0..x
<1> DEFINE y == x * capped
           q == y \div total
<1>1. y \in Nat /\ y <= x * total
  OBVIOUS
<1>2. q \in Nat /\ total * q <= y
  <2>1. y \in Nat
    BY <1>1
  <2> HIDE DEF y
  <2> QED
    BY <2>1
<1>3. q <= x
  <2> SUFFICES ASSUME q >= x + 1 PROVE FALSE
    BY <1>2
  <2> HIDE DEF y, q
  <2>1. total * q >= total * (x + 1)
    BY <1>2
  <2>2. total * (x + 1) = total * x + total /\ total * x = x * total
    OBVIOUS
  <2> QED
    BY <1>1, <1>2, <2>1, <2>2
<1> QED
  BY <1>2, <1>3

-----------------------------------------------------------------------------
\* The settlement's two recursive functions and what they are for.
EarnedFn(c) == CHOOSE e : e = [n \in 0..Len(c) |-> IF n = 0 THEN 0 ELSE e[n - 1] + c[n]]
Total(c) == EarnedFn(c)[Len(c)]
Capped(p, c) == Lesser(Total(c), p.pool_max_budget)
Share(p, c, n) == IF Total(c) = 0 THEN 0 ELSE (c[n] * Capped(p, c)) \div Total(c)
Taken(p, c, n, rest) ==
    Greater(0, Lesser(DealMoney(Share(p, c, n), p.payout_fee_percent, 0).net_to_owner, rest))
UsedMoney(p, c) == DealMoney(Capped(p, c), p.payout_fee_percent, p.funding_fee_percent)
LeftFn(p, c) ==
    CHOOSE l : l = [n \in 0..Len(c) |-> IF n = 0 THEN UsedMoney(p, c).net_to_owner
                                        ELSE l[n - 1] - Taken(p, c, n, l[n - 1])]

LEMMA SettlementIs ==
    ASSUME NEW p, NEW c
    PROVE  AffiliateSettlementFor(p, c) =
              [ total_commission_capped |-> Capped(p, c),
                refund_to_business |->
                   Greater(0, DealMoney(p.pool_max_budget, p.payout_fee_percent,
                                        p.funding_fee_percent).charge_amount
                              - UsedMoney(p, c).charge_amount),
                platform_take |-> UsedMoney(p, c).platform_take,
                net_to_owner |-> [n \in DOMAIN c |-> LeftFn(p, c)[n - 1] - LeftFn(p, c)[n]] ]
BY DEF AffiliateSettlementFor, Capped, Total, EarnedFn, UsedMoney, LeftFn, Taken, Share

LEMMA EarnedUnfolds ==
    ASSUME NEW c \in Seq(Nat)
    PROVE  /\ EarnedFn(c)[0] = 0
           /\ \A n \in 1..Len(c) : EarnedFn(c)[n] = EarnedFn(c)[n - 1] + c[n]
           /\ \A n \in 0..Len(c) : EarnedFn(c)[n] \in Nat
<1> DEFINE N == Len(c)
           F == [x \in (1..N) \X Nat |-> x[2] + c[x[1]]]
<1>1. N \in Nat /\ \A n \in 1..N : c[n] \in Nat
  OBVIOUS
<1>2. F \in [(1..N) \X Nat -> Nat]
  BY <1>1
<1>3. \A n \in 1..N, v \in Nat : F[<<n, v>>] = v + c[n]
  OBVIOUS
<1> HIDE DEF F, N
<1>4. PICK e \in [0..N -> Nat] : e[0] = 0 /\ \A n \in 1..N : e[n] = F[<<n, e[n-1]>>]
  <2>1. N \in Nat /\ 0 \in Nat
    BY <1>1
  <2> QED
    BY <2>1, <1>2, RecursionExists
<1>5. \A n \in 0..N : e[n] = IF n = 0 THEN 0 ELSE e[n - 1] + c[n]
  <2> TAKE n \in 0..N
  <2>1. CASE n # 0
    <3>1. n \in 1..N /\ n - 1 \in 0..N
      BY <1>1, <2>1
    <3>2. e[n-1] \in Nat
      BY <3>1
    <3> QED
      BY <1>3, <1>4, <3>1, <3>2, <2>1
  <2> QED
    BY <1>4, <2>1
<1>6. e = [n \in 0..N |-> IF n = 0 THEN 0 ELSE e[n - 1] + c[n]]
  BY <1>5
<1> DEFINE E == EarnedFn(c)
<1>7. E = [n \in 0..N |-> IF n = 0 THEN 0 ELSE E[n - 1] + c[n]]
  BY <1>6 DEF EarnedFn, N
<1> HIDE DEF E
<1> DEFINE T == {n \in Nat : n <= N => E[n] \in Nat}
<1>8. 0 \in T
  BY <1>1, <1>7
<1>9. ASSUME NEW n \in Nat, n \in T PROVE n + 1 \in T
  <2> SUFFICES ASSUME n + 1 <= N PROVE E[n + 1] \in Nat
    OBVIOUS
  <2>1. E[n + 1] = E[n] + c[n + 1] /\ n + 1 \in 1..N
    BY <1>1, <1>7
  <2> QED
    BY <1>1, <1>9, <2>1
<1> HIDE DEF T
<1>10. \A n \in 0..N : E[n] \in Nat
  <2>1. Nat \subseteq T
    BY <1>8, <1>9, Induct
  <2> QED
    BY <1>1, <2>1 DEF T
<1>11. E[0] = 0 /\ \A n \in 1..N : E[n] = E[n - 1] + c[n]
  BY <1>1, <1>7
<1> QED
  BY <1>10, <1>11 DEF E, N

LEMMA TotalIsNat ==
    ASSUME NEW c \in Seq(Nat)
    PROVE  Total(c) \in Nat
<1>1. Len(c) \in 0..Len(c)
  OBVIOUS
<1> QED
  BY <1>1, EarnedUnfolds DEF Total

\* What is left of the net after each owner, who gets what is deserved or, if
\* that is less, what is left.
LEMMA LeftUnfolds ==
    ASSUME NEW c \in Seq(Nat), NEW p, p.pool_max_budget \in Nat,
           p.payout_fee_percent \in 0..100, p.funding_fee_percent \in 0..100
    PROVE  /\ LeftFn(p, c)[0] = NetOf(Capped(p, c), p.payout_fee_percent)
           /\ \A n \in 0..Len(c) : LeftFn(p, c)[n] \in Nat
           /\ \A n \in 1..Len(c) :
                 /\ LeftFn(p, c)[n] = LeftFn(p, c)[n - 1]
                      - Lesser(NetOf(Share(p, c, n), p.payout_fee_percent), LeftFn(p, c)[n - 1])
                 /\ LeftFn(p, c)[n - 1] - LeftFn(p, c)[n] \in 0..c[n]
<1> DEFINE N == Len(c)
           capped == Capped(p, c)
           kept == NetOf(capped, p.payout_fee_percent)
           L == LeftFn(p, c)
           take(n, rest) == Taken(p, c, n, rest)
<1>1. N \in Nat /\ (\A n \in 1..N : c[n] \in Nat) /\ DOMAIN c = 1..N
  OBVIOUS
<1>2. Total(c) \in Nat
  BY TotalIsNat
<1>3. capped \in 0..p.pool_max_budget /\ capped <= Total(c) /\ capped \in Nat
  BY <1>2 DEF Capped, Lesser
<1>4. kept \in Nat /\ UsedMoney(p, c).net_to_owner = kept
      /\ UsedMoney(p, c).charge_amount = ChargeOf(capped, p.funding_fee_percent)
  <2> HIDE DEF capped
  <2>1. NetOf(capped, p.payout_fee_percent) \in 0..capped
    BY <1>3, NetFits
  <2>2. kept \in Nat
    BY <1>3, <2>1
  <2>3. UsedMoney(p, c) = DealMoney(capped, p.payout_fee_percent, p.funding_fee_percent)
    BY DEF UsedMoney, capped
  <2> QED
    BY <2>2, <2>3, DealMoneyIs
<1>5. ASSUME NEW n \in 1..N, NEW rest \in Nat
      PROVE  /\ take(n, rest) \in 0..c[n] /\ take(n, rest) <= rest
             /\ take(n, rest) = Lesser(NetOf(Share(p, c, n), p.payout_fee_percent), rest)
  <2> DEFINE share == Share(p, c, n)
             deserved == NetOf(share, p.payout_fee_percent)
  <2>1. share \in 0..c[n]
    <3>1. c[n] \in Nat
      BY <1>1
    <3>2. Total(c) # 0 => (c[n] * capped) \div Total(c) \in 0..c[n]
      <4> HIDE DEF capped
      <4> QED
        BY <1>2, <1>3, <3>1, ShareFits
    <3> QED
      BY <3>1, <3>2 DEF Share
  <2>2. share \in Nat
    BY <1>1, <2>1
  <2>3. deserved \in 0..share
    BY <2>2, NetFits
  <2>4. take(n, rest) = Greater(0, Lesser(deserved, rest))
    BY DealMoneyIs DEF Taken
  <2> HIDE DEF share, deserved, take
  <2>5. Lesser(deserved, rest) \in 0..share /\ Lesser(deserved, rest) <= rest
    BY <2>2, <2>3 DEF Lesser
  <2>6. take(n, rest) = Lesser(deserved, rest)
    BY <2>2, <2>4, <2>5 DEF Greater
  <2> QED
    BY <1>1, <2>1, <2>5, <2>6 DEF share, deserved
<1> HIDE DEF take
<1>6. L = [n \in 0..N |-> IF n = 0 THEN kept ELSE L[n - 1] - take(n, L[n - 1])]
  <2> DEFINE F == [x \in (1..N) \X Nat |-> x[2] - take(x[1], x[2])]
  <2>1. \A n \in 1..N, v \in Nat : F[<<n, v>>] = v - take(n, v)
    OBVIOUS
  <2>2. F \in [(1..N) \X Nat -> Nat]
    <3>1. ASSUME NEW x \in (1..N) \X Nat PROVE x[2] - take(x[1], x[2]) \in Nat
      <4>1. x[1] \in 1..N /\ x[2] \in Nat
        OBVIOUS
      <4>2. take(x[1], x[2]) \in 0..c[x[1]] /\ take(x[1], x[2]) <= x[2] /\ c[x[1]] \in Nat
        BY <1>1, <1>5, <4>1
      <4> QED
        BY <4>1, <4>2
    <3> QED
      BY <3>1
  <2> HIDE DEF F, N, kept
  <2>3. PICK e \in [0..N -> Nat] : e[0] = kept /\ \A n \in 1..N : e[n] = F[<<n, e[n-1]>>]
    <3>1. N \in Nat /\ kept \in Nat
      BY <1>1, <1>4
    <3> QED
      BY <3>1, <2>2, RecursionExists
  <2>4. \A n \in 0..N : e[n] = IF n = 0 THEN kept ELSE e[n - 1] - take(n, e[n - 1])
    <3> TAKE n \in 0..N
    <3>1. CASE n # 0
      <4>1. n \in 1..N /\ n - 1 \in 0..N
        BY <1>1, <3>1
      <4>2. e[n-1] \in Nat
        BY <4>1
      <4> QED
        BY <2>1, <2>3, <4>1, <4>2, <3>1
    <3> QED
      BY <2>3, <3>1
  <2>5. e = [n \in 0..N |-> IF n = 0 THEN kept ELSE e[n - 1] - take(n, e[n - 1])]
    BY <2>4
  <2> QED
    BY <1>4, <2>5 DEF LeftFn, N, take
<1> HIDE DEF L, N, kept, capped
<1> DEFINE T == {n \in Nat : n <= N => L[n] \in Nat}
<1>8. 0 \in T
  BY <1>1, <1>4, <1>6
<1>9. ASSUME NEW n \in Nat, n \in T PROVE n + 1 \in T
  <2> SUFFICES ASSUME n + 1 <= N PROVE L[n + 1] \in Nat
    OBVIOUS
  <2>1. L[n + 1] = L[n] - take(n + 1, L[n]) /\ n + 1 \in 1..N /\ L[n] \in Nat
    BY <1>1, <1>6, <1>9
  <2>2. take(n + 1, L[n]) \in Nat /\ take(n + 1, L[n]) <= L[n]
    <3>1. take(n + 1, L[n]) \in 0..c[n + 1] /\ take(n + 1, L[n]) <= L[n]
      BY <1>5, <2>1
    <3>2. c[n + 1] \in Nat
      BY <1>1, <2>1
    <3> QED
      BY <3>1, <3>2
  <2> QED
    BY <2>1, <2>2
<1>10. \A n \in 0..N : L[n] \in Nat
  <2> HIDE DEF T
  <2>1. Nat \subseteq T
    BY <1>8, <1>9, Induct
  <2> QED
    BY <1>1, <2>1 DEF T
<1>11. ASSUME NEW n \in 1..N
      PROVE  /\ L[n] = L[n - 1] - Lesser(NetOf(Share(p, c, n), p.payout_fee_percent), L[n - 1])
             /\ L[n - 1] - L[n] \in 0..c[n]
  <2>1. n - 1 \in 0..N /\ n \in 0..N /\ n # 0
    BY <1>1
  <2>2. L[n - 1] \in Nat /\ L[n] \in Nat /\ L[n] = L[n - 1] - take(n, L[n - 1])
    BY <1>6, <1>10, <2>1
  <2>3. take(n, L[n - 1]) \in 0..c[n] /\ c[n] \in Nat
    BY <1>1, <1>5, <2>2
  <2>4. take(n, L[n - 1]) = Lesser(NetOf(Share(p, c, n), p.payout_fee_percent), L[n - 1])
    BY <1>5, <2>2
  <2> QED
    BY <2>2, <2>3, <2>4
<1>12. L[0] = kept
  BY <1>1, <1>6
<1> QED
  BY <1>10, <1>11, <1>12 DEF L, N, kept, capped

\* What the owners get together is what has been taken from the net.
LEMMA SettlementAddsUp ==
    ASSUME NEW c \in Seq(Nat), NEW p, p.pool_max_budget \in Nat,
           p.payout_fee_percent \in 0..100, p.funding_fee_percent \in 0..100,
           NEW r, r = AffiliateSettlementFor(p, c)
    PROVE  /\ r.total_commission_capped \in 0..p.pool_max_budget
           /\ r.refund_to_business = Greater(0, ChargeOf(p.pool_max_budget, p.funding_fee_percent)
                                   - ChargeOf(r.total_commission_capped, p.funding_fee_percent))
           /\ DOMAIN r.net_to_owner = DOMAIN c
           /\ \A n \in DOMAIN c : r.net_to_owner[n] \in 0..c[n]
           /\ SumOver(r.net_to_owner, DOMAIN c)
                 <= NetOf(r.total_commission_capped, p.payout_fee_percent)
           /\ SumOver(r.net_to_owner, DOMAIN c)
                 = NetOf(r.total_commission_capped, p.payout_fee_percent) - LeftFn(p, c)[Len(c)]
           /\ r.total_commission_capped = Capped(p, c)
<1> DEFINE N == Len(c)
           capped == Capped(p, c)
           kept == NetOf(capped, p.payout_fee_percent)
           L == LeftFn(p, c)
<1>1. N \in Nat /\ (\A n \in 1..N : c[n] \in Nat) /\ DOMAIN c = 1..N
  OBVIOUS
<1>2. Total(c) \in Nat
  BY TotalIsNat
<1>3. capped \in 0..p.pool_max_budget /\ capped <= Total(c) /\ capped \in Nat
  BY <1>2 DEF Capped, Lesser
<1>4. kept \in Nat /\ UsedMoney(p, c).net_to_owner = kept
      /\ UsedMoney(p, c).charge_amount = ChargeOf(capped, p.funding_fee_percent)
  <2> HIDE DEF capped
  <2>1. NetOf(capped, p.payout_fee_percent) \in 0..capped
    BY <1>3, NetFits
  <2>2. kept \in Nat
    BY <1>3, <2>1
  <2>3. UsedMoney(p, c) = DealMoney(capped, p.payout_fee_percent, p.funding_fee_percent)
    BY DEF UsedMoney, capped
  <2> QED
    BY <2>2, <2>3, DealMoneyIs
<1>6. L[0] = kept /\ \A n \in 1..N : L[n - 1] - L[n] \in 0..c[n]
  BY LeftUnfolds
<1>7. r = [ total_commission_capped |-> capped,
            refund_to_business |->
               Greater(0, ChargeOf(p.pool_max_budget, p.funding_fee_percent)
                          - ChargeOf(capped, p.funding_fee_percent)),
            platform_take |-> UsedMoney(p, c).platform_take,
            net_to_owner |-> [n \in 1..N |-> L[n - 1] - L[n]] ]
  BY <1>1, <1>4, SettlementIs, DealMoneyIs
<1>10. \A n \in 0..N : L[n] \in Nat
  BY LeftUnfolds
<1> HIDE DEF L, N, kept, capped
<1> DEFINE net == [n \in 1..N |-> L[n - 1] - L[n]]
<1>11. ASSUME NEW n \in 1..N PROVE net[n] \in 0..c[n]
  BY <1>6, <1>11
<1> DEFINE U == {n \in Nat : n <= N => SumOver(net, 1..n) = L[0] - L[n]}
<1>12. \A n \in 0..N : IsFiniteSet(1..n) /\ \A x \in 1..n : net[x] \in Nat
  <2> HIDE DEF net
  <2> TAKE n \in 0..N
  <2>1. IsFiniteSet(1..n)
    BY <1>1, FS_Interval
  <2>2. ASSUME NEW x \in 1..n PROVE net[x] \in Nat
    <3>1. x \in 1..N
      BY <1>1, <2>2
    <3>2. net[x] \in 0..c[x] /\ c[x] \in Nat
      BY <1>1, <1>11, <3>1
    <3> QED
      BY <3>2
  <2> QED
    BY <2>1, <2>2
<1>13. 0 \in U
  <2>1. SumOver(net, 1..0) = 0
    <3>1. 1..0 = {}
      OBVIOUS
    <3>2. SumOver(net, {}) = 0
      BY FS_EmptySet, SumOverIs
    <3> QED
      BY <3>1, <3>2
  <2>2. L[0] \in Nat
    BY <1>1, <1>10
  <2> QED
    BY <2>1, <2>2
<1>14. ASSUME NEW n \in Nat, n \in U PROVE n + 1 \in U
  <2> SUFFICES ASSUME n + 1 <= N PROVE SumOver(net, 1..(n + 1)) = L[0] - L[n + 1]
    OBVIOUS
  <2>1. IsFiniteSet(1..(n + 1)) /\ \A x \in 1..(n + 1) : net[x] \in Nat
    <3>1. n + 1 \in 0..N
      BY <1>1
    <3> HIDE DEF net
    <3> QED
      BY <1>12, <3>1
  <2> DEFINE I == 1..(n + 1)
  <2>2. SumOver(net, I) = net[n + 1] + SumOver(net, I \ {n + 1})
    <3>1. n + 1 \in I
      OBVIOUS
    <3> HIDE DEF net, U, I
    <3>2. IsFiniteSet(I) /\ \A x \in I : net[x] \in Nat
      BY <2>1 DEF I
    <3> QED
      BY <3>1, <3>2, SumStep
  <2>3. I \ {n + 1} = 1..n
    OBVIOUS
  <2>4. net[n + 1] = L[n] - L[n + 1] /\ L[n] \in Nat /\ L[n + 1] \in Nat /\ L[0] \in Nat
    BY <1>1, <1>10
  <2>5. SumOver(net, 1..n) = L[0] - L[n]
    <3>1. n <= N
      BY <1>1
    <3> HIDE DEF net
    <3> QED
      BY <1>14, <3>1
  <2>6. SumOver(net, I) = L[0] - L[n + 1]
    <3> HIDE DEF net, U, I
    <3>1. SumOver(net, I \ {n + 1}) = L[0] - L[n]
      BY <2>3, <2>5, Zenon
    <3> QED
      BY <2>2, <2>4, <3>1
  <2> QED
    BY <2>6
<1>15. SumOver(net, 1..N) <= kept /\ SumOver(net, 1..N) = kept - L[N]
  <2>1. L[0] = kept /\ L[N] \in Nat
    BY <1>1, <1>6, <1>10
  <2> HIDE DEF U
  <2>2. N \in U
    BY <1>1, <1>13, <1>14, Induct
  <2>3. SumOver(net, 1..N) = L[0] - L[N]
    BY <1>1, <2>2 DEF U
  <2> HIDE DEF net
  <2> QED
    BY <1>4, <2>1, <2>3
<1>16. r.net_to_owner = net /\ r.total_commission_capped = capped
  BY <1>7
<1> QED
  BY <1>1, <1>3, <1>7, <1>11, <1>15, <1>16 DEF kept, capped, L, N

\* What a settlement comes to: nobody gets more than was earned, the payees
\* together no more than the net of the pool that is used.
LEMMA SettlementFacts ==
    ASSUME NEW c \in Seq(Nat), NEW p, p.pool_max_budget \in Nat,
           p.payout_fee_percent \in 0..100, p.funding_fee_percent \in 0..100,
           NEW r, r = AffiliateSettlementFor(p, c)
    PROVE  /\ r.total_commission_capped \in 0..p.pool_max_budget
           /\ r.refund_to_business = Greater(0, ChargeOf(p.pool_max_budget, p.funding_fee_percent)
                                   - ChargeOf(r.total_commission_capped, p.funding_fee_percent))
           /\ DOMAIN r.net_to_owner = DOMAIN c
           /\ \A n \in DOMAIN c : r.net_to_owner[n] \in 0..c[n]
           /\ SumOver(r.net_to_owner, DOMAIN c)
                 <= NetOf(r.total_commission_capped, p.payout_fee_percent)
BY SettlementAddsUp

-----------------------------------------------------------------------------
\* The arithmetic of the fee that is charged on top.

LEMMA FeeIsNat ==
    ASSUME NEW x \in Nat, NEW f \in 0..100
    PROVE  BuyerFee(x, f) \in Nat /\ BuyerFee(x, f) <= x
<1>1. (x * f) \div 100 \in 0..x
  BY FeeFits
<1> QED
  BY <1>1 DEF BuyerFee

\* Rounding down loses at most a penny when two fees are charged for one.
LEMMA FeesAdd ==
    ASSUME NEW x \in Nat, NEW y \in Nat, NEW f \in 0..100
    PROVE  /\ BuyerFee(x, f) + BuyerFee(y, f) <= BuyerFee(x + y, f)
           /\ BuyerFee(x + y, f) <= BuyerFee(x, f) + BuyerFee(y, f) + 1
<1> DEFINE a == x * f
           b == y * f
<1>1. a \in Nat /\ b \in Nat /\ (x + y) * f = a + b
  OBVIOUS
<1>2. BuyerFee(x, f) = a \div 100 /\ BuyerFee(y, f) = b \div 100
      /\ BuyerFee(x + y, f) = (a + b) \div 100
  BY <1>1 DEF BuyerFee
<1> HIDE DEF a, b
<1> QED
  BY <1>1, <1>2

LEMMA FeeGrows ==
    ASSUME NEW x \in Nat, NEW y \in Nat, x <= y, NEW f \in 0..100
    PROVE  BuyerFee(x, f) <= BuyerFee(y, f)
<1>1. y - x \in Nat /\ x + (y - x) = y
  OBVIOUS
<1>2. BuyerFee(x, f) + BuyerFee(y - x, f) <= BuyerFee(y, f)
  BY <1>1, FeesAdd
<1>3. BuyerFee(x, f) \in Nat /\ BuyerFee(y - x, f) \in Nat /\ BuyerFee(y, f) \in Nat
  BY <1>1, FeeIsNat
<1> QED
  BY <1>2, <1>3

\* k equal parts.
LEMMA FeesOfParts ==
    ASSUME NEW P \in Nat, NEW t \in Nat, NEW k \in Nat, NEW f \in 0..100
    PROVE  /\ k * t \in Nat
           /\ BuyerFee(P, f) + k * BuyerFee(t, f) <= BuyerFee(P + k * t, f)
           /\ BuyerFee(P + k * t, f) <= BuyerFee(P, f) + k * BuyerFee(t, f) + k
<1> DEFINE B(n) == BuyerFee(P + n * t, f)
           T == {n \in Nat : /\ BuyerFee(P, f) + n * BuyerFee(t, f) <= B(n)
                             /\ B(n) <= BuyerFee(P, f) + n * BuyerFee(t, f) + n}
<1>1. BuyerFee(P, f) \in Nat /\ BuyerFee(t, f) \in Nat
  BY FeeIsNat
<1>2. 0 \in T
  <2>1. P + 0 * t = P /\ 0 * BuyerFee(t, f) = 0
    BY <1>1
  <2> QED
    BY <1>1, <2>1
<1>3. ASSUME NEW n \in Nat, n \in T PROVE n + 1 \in T
  <2>1. n * t \in Nat /\ P + n * t \in Nat /\ P + (n + 1) * t = (P + n * t) + t
        /\ n * BuyerFee(t, f) \in Nat
        /\ (n + 1) * BuyerFee(t, f) = n * BuyerFee(t, f) + BuyerFee(t, f)
    BY <1>1
  <2>2. B(n) \in Nat /\ B(n + 1) \in Nat
        /\ B(n) + BuyerFee(t, f) <= B(n + 1) /\ B(n + 1) <= B(n) + BuyerFee(t, f) + 1
    <3> DEFINE x == P + n * t
    <3>1. x \in Nat /\ P + (n + 1) * t = x + t /\ x + t \in Nat
      BY <2>1
    <3> HIDE DEF x
    <3>2. BuyerFee(x, f) \in Nat /\ BuyerFee(x + t, f) \in Nat
      BY <3>1, FeeIsNat
    <3>3. /\ BuyerFee(x, f) + BuyerFee(t, f) <= BuyerFee(x + t, f)
          /\ BuyerFee(x + t, f) <= BuyerFee(x, f) + BuyerFee(t, f) + 1
      BY <3>1, FeesAdd
    <3> QED
      BY <3>1, <3>2, <3>3 DEF x
  <2> DEFINE b == BuyerFee(t, f)
             nb == n * BuyerFee(t, f)
             mb == (n + 1) * BuyerFee(t, f)
             u == B(n)
             v == B(n + 1)
             p == BuyerFee(P, f)
  <2>3. p + nb <= u /\ u <= p + nb + n
    BY <1>3
  <2>4. mb = nb + b /\ nb \in Nat /\ b \in Nat /\ u \in Nat /\ v \in Nat /\ p \in Nat
        /\ u + b <= v /\ v <= u + b + 1
    BY <1>1, <2>1, <2>2
  <2>5. p + mb <= v /\ v <= p + mb + (n + 1)
    <3> HIDE DEF b, nb, mb, u, v, p
    <3> QED
      BY <2>3, <2>4
  <2> QED
    BY <2>5
<1> HIDE DEF T
<1>4. k \in T
  BY <1>2, <1>3, Induct
<1> QED
  BY <1>4 DEF T

\* What is refunded of a pool with k top-ups and what was used of it were paid
\* for, where the fee of a top-up comes to a penny at least.
LEMMA RefundIsPaidFor ==
    ASSUME NEW P \in Nat, NEW t \in Nat, NEW k \in Nat, NEW f \in 0..100,
           f = 0 \/ t * f >= 100,
           NEW c \in Nat, c <= P + k * t,
           NEW refund, refund = Greater(0, ChargeOf(P + k * t, f) - ChargeOf(c, f)),
           refund <= ChargeOf(P, f)
    PROVE  c + refund <= ChargeOf(P, f) + k * ChargeOf(t, f)
<1> DEFINE B == P + k * t
           bP == BuyerFee(P, f)
           bt == BuyerFee(t, f)
           bB == BuyerFee(B, f)
           bc == BuyerFee(c, f)
           kt == k * t
           kb == k * bt
<1>1. kt \in Nat /\ kb \in Nat /\ bP \in Nat /\ bt \in Nat /\ bB \in Nat /\ bc \in Nat
      /\ B = P + kt /\ c <= P + kt
  <2>1. kt \in Nat /\ B \in Nat
    OBVIOUS
  <2>2. bP \in Nat /\ bt \in Nat /\ bB \in Nat /\ bc \in Nat
    BY <2>1, FeeIsNat
  <2>3. kb \in Nat
    BY <2>2
  <2> QED
    BY <2>1, <2>2, <2>3
<1>2. bP + kb <= bB /\ bB <= bP + kb + k
  BY FeesOfParts
<1>3. k * ChargeOf(t, f) = kt + kb
  BY <1>1 DEF ChargeOf
<1>4. ChargeOf(P, f) = P + bP /\ ChargeOf(P + k * t, f) = P + kt + bB /\ ChargeOf(c, f) = c + bc
  BY DEF ChargeOf
<1>5. ASSUME f # 0, refund # 0 PROVE bc >= k
  <2>1. t * f >= 100
    BY <1>5
  <2>2. bt >= 1
    <3> DEFINE y == t * f
    <3>1. y \in Nat /\ y >= 100
      BY <2>1
    <3> HIDE DEF y
    <3>2. y \div 100 >= 1
      BY <3>1
    <3> QED
      BY <3>2 DEF BuyerFee, y
  <2>3. kb >= k
    BY <1>1, <2>2
  <2>4. refund = P + kt + bB - c - bc
    BY <1>1, <1>4, <1>5 DEF Greater
  <2>5. c + bc >= kt + kb
    <3> HIDE DEF bP, bt, bB, bc, kt, kb, B
    <3> QED
      BY <1>1, <1>2, <1>4, <2>4
  <2>6. CASE c <= kt
    <3> HIDE DEF bP, bt, bB, bc, kt, kb, B
    <3> QED
      BY <1>1, <2>3, <2>5, <2>6
  <2>7. CASE kt <= c
    <3>1. BuyerFee(kt, f) <= bc /\ BuyerFee(kt, f) \in Nat
      BY <1>1, <2>7, FeeGrows, FeeIsNat
    <3>2. BuyerFee(0, f) + kb <= BuyerFee(kt, f) /\ BuyerFee(0, f) \in Nat
      <4>1. BuyerFee(0, f) + k * BuyerFee(t, f) <= BuyerFee(0 + k * t, f)
        BY FeesOfParts
      <4>2. BuyerFee(0, f) \in Nat
        BY FeeIsNat
      <4>3. 0 + k * t = kt
        BY <1>1
      <4> QED
        BY <4>1, <4>2, <4>3
    <3> HIDE DEF bP, bt, bB, bc, kt, kb, B
    <3> QED
      BY <1>1, <2>3, <3>1, <3>2
  <2> QED
    BY <1>1, <2>6, <2>7
<1>6. ASSUME f = 0 PROVE bP = 0 /\ bB = 0 /\ bc = 0 /\ kb = 0
  <2>1. \A x \in Nat : BuyerFee(x, f) = 0
    BY <1>6 DEF BuyerFee
  <2> QED
    BY <1>1, <2>1
<1>7. refund = 0 \/ refund = P + kt + bB - (c + bc)
  BY <1>1, <1>4 DEF Greater
<1>8. c + refund <= P + bP + kt + kb
  <2> HIDE DEF bP, bt, bB, bc, kt, kb, B
  <2>1. CASE refund = 0
    BY <1>1, <2>1
  <2>2. CASE refund # 0 /\ f # 0
    BY <1>1, <1>2, <1>5, <1>7, <2>2
  <2>3. CASE refund # 0 /\ f = 0
    BY <1>1, <1>6, <1>7, <2>3
  <2> QED
    BY <2>1, <2>2, <2>3
<1> QED
  BY <1>1, <1>3, <1>4, <1>8

-----------------------------------------------------------------------------
\* The control: rows, reports and the time money may leave in.

\* The part of the row that decides what may happen.
RowOK ==
    /\ {"terms", "pool_max_budget", "pool_committed_amount", "host", "status"}
          \subseteq DOMAIN program
    /\ program.terms \in Programs
    /\ program.host \in {None} \cup Hosts
    /\ program.status \in {"draft", "awaiting_funding", "funded", "live", "settled"}
\* The host is chosen when the program goes live, and not again, unless the
\* funding was committed twice.
HostIsChosenOnce ==
    "funding" \notin recounted =>
       (program.host = None <=> program.status \in {"draft", "awaiting_funding", "funded"})
\* Once the time is over no confirmation of the funding is in hand or to come.
FundingIsOver ==
    /\ DOMAIN confirming = Confirmers
    /\ \A c \in Confirmers : confirming[c] # None => "payment" \in DOMAIN confirming[c]
    /\ program.status = "settled" => holding_over
    /\ holding_over =>
         /\ program.status \in {"live", "settled"}
         /\ \A c \in Confirmers : confirming[c] # None => confirming[c].payment # "funding"

SalesOK == sales \in Seq(Sale)
\* Reports are handled once there is a host, and what was checked is a sale or
\* the reversal of one.
ReportsOK ==
    /\ DOMAIN tracking = Handlers
    /\ \A h \in Handlers : tracking[h] # None =>
          /\ program.host # None
          /\ tracking[h].sale \in {None} \cup Sale
          /\ Checked(h) /\ tracking[h].sale = None => tracking[h].reverses \in DOMAIN sales
AboutToAdd(h) == Checked(h) /\ tracking[h].sale # None
\* The order a handler is about to add is still a new one and nobody else's,
\* unless two handlers had found it unknown.
IsNew(h) ==
    /\ ~Known(tracking[h].sale.ref)
    /\ \A i \in Handlers : AboutToAdd(i) /\ tracking[i].sale.ref = tracking[h].sale.ref => i = h
ChecksAreNew ==
    \A h \in Handlers : AboutToAdd(h) =>
       \/ tracking[h].sale.ref \in {None} \cup raced
       \/ IsNew(h)
\* While a settlement is in progress the program is live and its time is over.
SettlesInTime ==
    /\ {"at", "due", "destinations", "loaded", "refund", "released", "refund_made"}
          \subseteq DOMAIN settlement
    /\ settlement.at # "idle" => program.status = "live" /\ holding_over

IInv == /\ RowOK /\ HostIsChosenOnce /\ FundingIsOver /\ SalesOK /\ ReportsOK
        /\ ChecksAreNew /\ SettlesInTime /\ EachOrderCountsOnce

\* The bodies of the two action properties.
SalesMove ==
    \A n \in DOMAIN sales :
       sales[n].status # "pending" /\ n \notin ReadAsPending => sales'[n] = sales[n]
MoneyMove ==
    <<transfers, refunded>>' # <<transfers, refunded>> =>
       program.status = "live" /\ holding_over

-----------------------------------------------------------------------------
\* The effects.

LEMMA CommissionIsNat ==
  ASSUME RowOK, NEW amount \in SaleAmounts
  PROVE  CommissionFor(amount) \in Nat
<1>1. program.terms.commission_rate \in Nat /\ amount \in Nat
  BY ProgramAssumption DEF RowOK, Terms
<1>2. amount * program.terms.commission_rate \in Nat
  BY <1>1
<1>3. \A x \in Nat : x \div 10000 \in Nat
  OBVIOUS
<1> QED
  BY <1>1, <1>2, <1>3 DEF CommissionFor

LEMMA NewSaleType ==
  ASSUME RowOK, NEW ref \in Orders \cup {None}, NEW o \in Owners, NEW amount \in SaleAmounts
  PROVE  NewSale(ref, o, amount) \in Sale
BY CommissionIsNat DEF NewSale, Sale

\* Adding a sale keeps the rows that are there; one order more is a new one,
\* or one that was raced for.
LEMMA AddKeeps ==
  ASSUME SalesOK, NEW sale \in Sale, sales' = Append(sales, sale), raced' = raced
  PROVE  /\ SalesOK'
         /\ SalesMove
         /\ TwiceOnlyIfRaced /\ (Known(sale.ref) => sale.ref \in raced) => TwiceOnlyIfRaced'
         /\ \A ref : Known(ref)' => Known(ref) \/ ref = sale.ref
<1>1. /\ Len(sales') = Len(sales) + 1 /\ Len(sales) \in Nat
      /\ DOMAIN sales = 1..Len(sales) /\ DOMAIN sales' = 1..Len(sales')
      /\ \A n \in DOMAIN sales : sales'[n] = sales[n]
      /\ sales'[Len(sales')] = sale
      /\ SalesOK'
  BY DEF SalesOK
<1>2. SalesMove
  BY <1>1 DEF SalesMove
<1>3. ASSUME TwiceOnlyIfRaced, Known(sale.ref) => sale.ref \in raced,
             NEW m \in DOMAIN sales', NEW n \in DOMAIN sales',
             m # n, sales'[m].ref # None, sales'[m].ref = sales'[n].ref
      PROVE  sales'[m].ref \in raced
  <2>1. CASE m \in DOMAIN sales /\ n \in DOMAIN sales
    BY <1>1, <1>3, <2>1 DEF TwiceOnlyIfRaced
  <2>2. CASE m \in DOMAIN sales /\ n = Len(sales')
    BY <1>1, <1>3, <2>2 DEF Known
  <2>3. CASE n \in DOMAIN sales /\ m = Len(sales')
    BY <1>1, <1>3, <2>3 DEF Known
  <2> QED
    BY <1>1, <1>3, <2>1, <2>2, <2>3
<1>4. \A ref : Known(ref)' => Known(ref) \/ ref = sale.ref
  BY <1>1 DEF Known
<1> QED
  BY <1>1, <1>2, <1>3, <1>4 DEF TwiceOnlyIfRaced

\* A step that replaces rows by rows of the same order, and only pending or
\* loaded ones.
LEMMA ReplacingKeeps ==
  ASSUME SalesOK, DOMAIN sales' = DOMAIN sales,
         sales' = [m \in DOMAIN sales |-> sales'[m]],
         \A m \in DOMAIN sales :
            /\ sales'[m] \in Sale /\ sales'[m].ref = sales[m].ref
            /\ sales[m].status # "pending" /\ m \notin ReadAsPending => sales'[m] = sales[m]
  PROVE  /\ SalesOK' /\ SalesMove /\ DOMAIN sales' = DOMAIN sales
         /\ TwiceOnlyIfRaced /\ raced' = raced => TwiceOnlyIfRaced'
         /\ \A ref : Known(ref)' => Known(ref)
<1>1. DOMAIN sales = 1..Len(sales) /\ Len(sales) \in Nat
  BY DEF SalesOK
<1>2. sales' \in [1..Len(sales) -> Sale]
  BY <1>1
<1>3. SalesOK'
  BY <1>1, <1>2 DEF SalesOK
<1> QED
  BY <1>3 DEF SalesMove, TwiceOnlyIfRaced, Known

LEMMA SalesAreRows ==
  ASSUME SalesOK
  PROVE  \A m \in DOMAIN sales :
            /\ sales[m] \in Sale
            /\ \A s \in {"reversed", "settled"} :
                  /\ [sales[m] EXCEPT !.status = s] \in Sale
                  /\ [sales[m] EXCEPT !.status = s].ref = sales[m].ref
<1>1. \A m \in DOMAIN sales : sales[m] \in Sale
  BY DEF SalesOK
<1>2. ASSUME NEW row \in Sale, NEW s \in {"reversed", "settled"}
      PROVE  [row EXCEPT !.status = s] \in Sale /\ [row EXCEPT !.status = s].ref = row.ref
  BY <1>2 DEF Sale
<1> QED
  BY <1>1, <1>2

LEMMA ReversalKeeps ==
  ASSUME SalesOK, NEW n \in DOMAIN sales, n \in ReadAsPending,
         sales' = [sales EXCEPT ![n].status = "reversed"]
  PROVE  /\ SalesOK' /\ SalesMove /\ DOMAIN sales' = DOMAIN sales
         /\ TwiceOnlyIfRaced /\ raced' = raced => TwiceOnlyIfRaced'
         /\ \A ref : Known(ref)' => Known(ref)
<1>1. /\ DOMAIN sales' = DOMAIN sales
      /\ sales' = [m \in DOMAIN sales |-> sales'[m]]
      /\ sales'[n] = [sales[n] EXCEPT !.status = "reversed"]
      /\ \A m \in DOMAIN sales : m # n => sales'[m] = sales[m]
  BY DEF SalesOK
<1> QED
  BY <1>1, SalesAreRows, ReplacingKeeps

LEMMA SettlingKeeps ==
  ASSUME SalesOK, NEW o, sales' = SalesSettled(o)
  PROVE  /\ SalesOK' /\ SalesMove /\ DOMAIN sales' = DOMAIN sales
         /\ TwiceOnlyIfRaced /\ raced' = raced => TwiceOnlyIfRaced'
         /\ \A ref : Known(ref)' => Known(ref)
<1>1. /\ DOMAIN sales' = DOMAIN sales
      /\ sales' = [m \in DOMAIN sales |-> sales'[m]]
      /\ \A m \in DOMAIN sales :
            \/ sales'[m] = sales[m]
            \/ m \in settlement.loaded /\ sales'[m] = [sales[m] EXCEPT !.status = "settled"]
  BY DEF SalesSettled
<1>2. settlement.loaded \subseteq ReadAsPending
  BY DEF ReadAsPending
<1> QED
  BY <1>1, <1>2, SalesAreRows, ReplacingKeeps

-----------------------------------------------------------------------------
\* The steps.

\* Whatever else a step does, it keeps what the reports and the sales rest on
\* when it leaves them and a chosen host alone.
LEMMA SalesRest ==
  ASSUME IInv, sales' = sales, tracking' = tracking, raced' = raced,
         recounted \subseteq recounted',
         program.host # None => program'.host # None,
         program.host # None /\ "funding" \notin recounted => program'.host = program.host
  PROVE  SalesOK' /\ ReportsOK' /\ ChecksAreNew' /\ EachOrderCountsOnce' /\ SalesMove
<1>1. SalesOK' /\ SalesMove
  BY DEF IInv, SalesOK, SalesMove
<1>2. ReportsOK'
  BY DEF IInv, ReportsOK, Checked
<1>3. None \notin ThreadedHosts
  BY ProgramAssumption
<1>4. EachOrderCountsOnce'
  BY <1>3 DEF IInv, EachOrderCountsOnce, TwiceOnlyIfRaced, CoroutinesNeverRace
<1>5. ChecksAreNew'
  BY DEF IInv, ChecksAreNew, AboutToAdd, IsNew, Checked, Known
<1> QED
  BY <1>1, <1>2, <1>4, <1>5

\* A step that leaves the row's status and host, the settlement and the time
\* alone keeps the rest.
LEMMA RowRests ==
  ASSUME IInv, UNCHANGED <<settlement, holding_over, confirming, recounted>>,
         DOMAIN program' = DOMAIN program, program'.terms = program.terms,
         program'.host = program.host, program'.status = program.status
  PROVE  RowOK' /\ HostIsChosenOnce' /\ FundingIsOver' /\ SettlesInTime'
<1>1. RowOK' /\ HostIsChosenOnce'
  BY DEF IInv, RowOK, HostIsChosenOnce
<1>2. SettlesInTime' /\ FundingIsOver'
  BY DEF IInv, SettlesInTime, FundingIsOver
<1> QED
  BY <1>1, <1>2

LEMMA BusinessKeeps ==
  ASSUME IInv, Business \/ HoldingPeriodEnds
  PROVE  IInv' /\ SalesMove /\ MoneyMove
<1> USE DEF IInv, confirmVars, trackVars
<1>1. CASE FundProgram
  <2>1. RowOK' /\ HostIsChosenOnce' /\ (program.host # None => program'.host = program.host)
    BY <1>1 DEF FundProgram, RowOK, HostIsChosenOnce
  <2>2. SettlesInTime' /\ FundingIsOver' /\ MoneyMove
    BY <1>1 DEF FundProgram, settlingVars, SettlesInTime, FundingIsOver, MoneyMove
  <2> QED
    BY <1>1, <2>1, <2>2, SalesRest DEF FundProgram
<1>2. ASSUME NEW t \in TopUps, TopUpProgram(t) PROVE IInv' /\ SalesMove /\ MoneyMove
  BY <1>2, RowRests, SalesRest DEF TopUpProgram, settlingVars, MoneyMove
<1>3. ASSUME NEW p \in Payments, CustomerPays(p) PROVE IInv' /\ SalesMove /\ MoneyMove
  BY <1>3, RowRests, SalesRest DEF CustomerPays, settlingVars, MoneyMove
<1>4. ASSUME NEW host \in Hosts, ConfirmTracking(host) PROVE IInv' /\ SalesMove /\ MoneyMove
  <2>1. host # None
    BY ProgramAssumption
  <2>2. /\ program'.host # None
        /\ program.host # None => "funding" \in recounted
        /\ UNCHANGED <<sales, tracking, raced, recounted>>
    BY <1>4, <2>1 DEF ConfirmTracking, RowOK, HostIsChosenOnce, fundingVars
  <2>3. RowOK' /\ HostIsChosenOnce'
    BY <1>4, <2>1 DEF ConfirmTracking, RowOK, HostIsChosenOnce
  <2>4. SettlesInTime' /\ FundingIsOver' /\ MoneyMove
    BY <1>4 DEF ConfirmTracking, settlingVars, fundingVars, SettlesInTime, FundingIsOver, MoneyMove
  <2> QED
    BY <2>2, <2>3, <2>4, SalesRest
<1>5. CASE HoldingPeriodEnds
  <2>1. RowOK' /\ HostIsChosenOnce' /\ SettlesInTime' /\ MoneyMove
    BY <1>5 DEF HoldingPeriodEnds, fundingVars, RowOK, HostIsChosenOnce, SettlesInTime, MoneyMove
  <2>2. FundingIsOver'
    BY <1>5 DEF HoldingPeriodEnds, fundingVars, FundingIsOver
  <2> QED
    BY <1>5, <2>1, <2>2, SalesRest DEF HoldingPeriodEnds, fundingVars
<1> QED
  BY <1>1, <1>2, <1>3, <1>4, <1>5 DEF Business

\* What a confirmation may do to the row.
LEMMA CommitWrites ==
  ASSUME NEW c \in Confirmers, NEW marked, ConfirmCommits(c, marked)
  PROVE  LET p == confirming[c].payment
         IN  \/ /\ p = "funding"
                /\ program' = [program EXCEPT !.status = "funded"]
                /\ UNCHANGED topup
             \/ /\ p \in TopUps /\ p # "funding"
                /\ topup' = [topup EXCEPT ![p] = "funded"]
                /\ program' = [program EXCEPT
                                 !.pool_max_budget = confirming[c].budget + TopUpAmount]
BY ProgramAssumption DEF ConfirmCommits

LEMMA ConfirmationsKeep ==
  ASSUME IInv, Confirmations
  PROVE  IInv' /\ SalesMove /\ MoneyMove
<1> USE DEF IInv, trackVars
<1>1. UNCHANGED <<sales, tracking, raced, settlement, holding_over, transfers, refunded>>
  BY DEF Confirmations, ConfirmBegins, StripeConfirms, ConfirmFails, ConfirmCommits, Acknowledge,
         settlingVars
<1>2. MoneyMove
  BY <1>1 DEF MoneyMove
<1>3. ASSUME UNCHANGED <<program, recounted>>, FundingIsOver' PROVE IInv' /\ SalesMove
  <2>1. RowOK' /\ HostIsChosenOnce'
    BY <1>3 DEF RowOK, HostIsChosenOnce
  <2>2. SettlesInTime'
    BY <1>1, <1>3 DEF SettlesInTime
  <2> QED
    BY <1>1, <1>3, <2>1, <2>2, SalesRest
<1>4. ASSUME NEW c \in Confirmers, NEW p \in Payments, ConfirmBegins(c, p)
      PROVE  IInv' /\ SalesMove
  <2>1. p = "funding" => ~holding_over
    BY <1>4 DEF ConfirmBegins, Awaited, FundingIsOver
  <2>2. FundingIsOver'
    BY <1>1, <1>4, <2>1 DEF ConfirmBegins, FundingIsOver
  <2> QED
    BY <1>3, <1>4, <2>2 DEF ConfirmBegins
<1>5. ASSUME NEW c \in Confirmers, StripeConfirms(c) PROVE IInv' /\ SalesMove
  <2>1. FundingIsOver'
    <3>1. /\ confirming'[c] = [confirming[c] EXCEPT !.budget = program.pool_max_budget]
          /\ confirming[c] # None /\ "payment" \in DOMAIN confirming[c]
          /\ \A d \in Confirmers : d # c => confirming'[d] = confirming[d]
      BY <1>5 DEF StripeConfirms, FundingIsOver
    <3>2. \A d \in Confirmers : confirming'[d] # None =>
             confirming[d] # None /\ confirming'[d].payment = confirming[d].payment
      BY <3>1
    <3> QED
      BY <1>1, <1>5, <3>2 DEF StripeConfirms, FundingIsOver
  <2> QED
    BY <1>3, <1>5, <2>1 DEF StripeConfirms
<1>6. ASSUME NEW c \in Confirmers, ConfirmFails(c) PROVE IInv' /\ SalesMove
  <2>1. FundingIsOver'
    BY <1>1, <1>6 DEF ConfirmFails, FundingIsOver
  <2> QED
    BY <1>3, <1>6, <2>1 DEF ConfirmFails
<1>7. ASSUME NEW c \in Confirmers, NEW marked \in BOOLEAN, ConfirmCommits(c, marked)
      PROVE  IInv' /\ SalesMove
  <2>1. recounted \subseteq recounted' /\ confirming[c] # None
        /\ confirming' = [confirming EXCEPT ![c] = None]
    BY <1>7 DEF ConfirmCommits
  <2>2. CASE confirming[c].payment = "funding"
    <3>1. program' = [program EXCEPT !.status = "funded"]
      BY <1>7, <2>2, CommitWrites
    <3>2. program.status = "awaiting_funding" \/ "funding" \in recounted'
      BY <1>7, <2>2 DEF ConfirmCommits, Awaited
    <3>3. ~holding_over
      BY <2>1, <2>2 DEF FundingIsOver
    <3>4. RowOK' /\ HostIsChosenOnce' /\ program'.host = program.host
      BY <2>1, <3>1, <3>2 DEF RowOK, HostIsChosenOnce
    <3>5. SettlesInTime' /\ FundingIsOver'
      BY <1>1, <2>1, <3>1, <3>3 DEF RowOK, SettlesInTime, FundingIsOver
    <3> QED
      BY <1>1, <2>1, <3>4, <3>5, SalesRest
  <2>3. CASE confirming[c].payment # "funding"
    <3>1. program' = [program EXCEPT !.pool_max_budget = confirming[c].budget + TopUpAmount]
      BY <1>7, <2>3, CommitWrites
    <3>2. /\ program'.terms = program.terms /\ program'.host = program.host
          /\ program'.status = program.status /\ DOMAIN program' = DOMAIN program
      BY <3>1 DEF RowOK
    <3>3. RowOK' /\ HostIsChosenOnce'
      BY <2>1, <3>2 DEF RowOK, HostIsChosenOnce
    <3>4. SettlesInTime' /\ FundingIsOver'
      BY <1>1, <2>1, <3>2 DEF SettlesInTime, FundingIsOver
    <3> QED
      BY <1>1, <2>1, <3>2, <3>3, <3>4, SalesRest
  <2> QED
    BY <2>2, <2>3
<1>8. ASSUME NEW p \in Payments, Acknowledge(p) PROVE IInv' /\ SalesMove
  <2>1. UNCHANGED <<program, confirming, recounted, holding_over>>
    BY <1>1, <1>8 DEF Acknowledge, confirmVars
  <2> QED
    BY <1>3, <2>1 DEF FundingIsOver
<1> QED
  BY <1>2, <1>4, <1>5, <1>6, <1>7, <1>8 DEF Confirmations

LEMMA MembershipKeeps ==
  ASSUME IInv, Membership
  PROVE  IInv' /\ SalesMove /\ MoneyMove
<1>1. PICK o \in Owners, status \in {"pending", "active", "rejected", "removed"} :
         Becomes(o, status)
  BY DEF Membership, Apply, ApproveApplication, RejectApplication, RemovePartner
<1> QED
  BY <1>1, RowRests, SalesRest
     DEF Becomes, settlingVars, fundingVars, confirmVars, trackVars, IInv, MoneyMove

\* A handler that takes up a report or has checked it.
LEMMA ReportHeld ==
  ASSUME IInv, NEW h \in Handlers, NEW at \in {"read", "checked"}, NEW row, NEW sale, NEW n,
         Holds(h, at, row, sale, n), program.host # None,
         sale \in {None} \cup Sale,
         at = "checked" /\ sale = None => n \in DOMAIN sales,
         raced \subseteq raced', raced' = raced \/ program.host \in ThreadedHosts,
         at = "checked" /\ sale # None =>
            ~Known(sale.ref) /\ (sale.ref \in {None} \cup raced' \/ sale.ref \notin ToBeRecorded)
  PROVE  IInv' /\ SalesMove /\ MoneyMove
<1>1. UNCHANGED <<program, sales, settlement, holding_over, transfers, refunded, confirming, recounted>>
  BY DEF Holds, settlingVars, fundingVars, confirmVars
<1>2. RowOK' /\ HostIsChosenOnce' /\ FundingIsOver' /\ SettlesInTime' /\ MoneyMove
  BY <1>1, RowRests DEF MoneyMove
<1>3. SalesOK' /\ EachOrderCountsOnce' /\ SalesMove
  BY <1>1 DEF IInv, SalesOK, EachOrderCountsOnce, TwiceOnlyIfRaced, CoroutinesNeverRace, SalesMove
<1>4. /\ DOMAIN tracking' = Handlers
      /\ tracking'[h].at = at /\ tracking'[h].sale = sale /\ tracking'[h].reverses = n
      /\ \A i \in Handlers : i # h => tracking'[i] = tracking[i]
  BY DEF Holds, IInv, ReportsOK
<1>5. ReportsOK'
  BY <1>1, <1>4 DEF IInv, ReportsOK, Checked
<1>6. ChecksAreNew'
  <2>1. \A i \in Handlers : i # h =>
           /\ AboutToAdd(i)' <=> AboutToAdd(i)
           /\ tracking'[i] = tracking[i]
           /\ AboutToAdd(i) => tracking[i].sale.ref \in ToBeRecorded
    BY <1>4 DEF AboutToAdd, Checked, ToBeRecorded
  <2>2. AboutToAdd(h)' => at = "checked" /\ sale # None /\ tracking'[h].sale = sale
    BY <1>4 DEF AboutToAdd, Checked
  <2>3. \A ref : Known(ref)' <=> Known(ref)
    BY <1>1 DEF Known
  <2>4. ASSUME NEW i \in Handlers, AboutToAdd(i)', i # h
        PROVE  tracking'[i].sale.ref \in {None} \cup raced' \/ IsNew(i)'
    <3>1. tracking[i].sale.ref \in {None} \cup raced \/ IsNew(i)
      BY <2>1, <2>4 DEF IInv, ChecksAreNew
    <3>2. AboutToAdd(h)' /\ sale.ref = tracking[i].sale.ref => sale.ref \in {None} \cup raced'
      BY <2>1, <2>2, <2>4
    <3> QED
      BY <2>1, <2>2, <2>3, <2>4, <3>1, <3>2 DEF IsNew
  <2>5. ASSUME AboutToAdd(h)'
        PROVE  tracking'[h].sale.ref \in {None} \cup raced' \/ IsNew(h)'
    BY <2>1, <2>2, <2>3, <2>5 DEF IsNew
  <2> QED
    BY <2>4, <2>5 DEF ChecksAreNew
<1> QED
  BY <1>2, <1>3, <1>5, <1>6 DEF IInv

\* A handler that lets its report go, having committed or not.
LEMMA ReportLetGo ==
  ASSUME IInv, NEW h \in Handlers, Finishes(h), program'.host = program.host,
         DOMAIN sales \subseteq DOMAIN sales',
         \A ref : Known(ref)' => Known(ref) \/ (AboutToAdd(h) /\ ref = tracking[h].sale.ref)
  PROVE  /\ ReportsOK' /\ ChecksAreNew' /\ CoroutinesNeverRace' /\ MoneyMove
         /\ UNCHANGED <<settlement, holding_over, confirming, recounted, raced>>
<1>1. /\ DOMAIN tracking' = Handlers /\ tracking'[h] = None
      /\ \A i \in Handlers : i # h => tracking'[i] = tracking[i]
  BY DEF Finishes, IInv, ReportsOK
<1>2. ReportsOK'
  BY <1>1 DEF IInv, ReportsOK, Checked
<1>3. UNCHANGED <<settlement, holding_over, transfers, refunded, confirming, recounted, raced>>
  BY DEF Finishes, settlingVars, fundingVars, confirmVars
<1>4. ChecksAreNew'
  <2>1. /\ ~AboutToAdd(h)'
        /\ \A i \in Handlers : i # h => (AboutToAdd(i)' <=> AboutToAdd(i))
    BY <1>1 DEF AboutToAdd, Checked
  <2>2. ASSUME NEW i \in Handlers, AboutToAdd(i)'
        PROVE  tracking'[i].sale.ref \in {None} \cup raced' \/ IsNew(i)'
    <3>1. i # h /\ AboutToAdd(i) /\ tracking'[i] = tracking[i]
      BY <1>1, <2>1, <2>2
    <3>2. tracking[i].sale.ref \in {None} \cup raced \/ IsNew(i)
      BY <3>1 DEF IInv, ChecksAreNew
    <3> QED
      BY <1>1, <1>3, <2>1, <3>1, <3>2 DEF IsNew
  <2> QED
    BY <2>2 DEF ChecksAreNew
<1> QED
  BY <1>2, <1>3, <1>4 DEF IInv, EachOrderCountsOnce, CoroutinesNeverRace, MoneyMove

LEMMA CommitsKeeps ==
  ASSUME IInv, NEW read, NEW sum, Commits(read, sum)
  PROVE  /\ DOMAIN program' = DOMAIN program /\ program'.terms = program.terms
         /\ program'.host = program.host /\ program'.status = program.status
<1>1. program' = [program EXCEPT !.pool_committed_amount =
                                 IF sum = read THEN program.pool_committed_amount ELSE sum]
  BY DEF Commits
<1>2. {"terms", "pool_committed_amount", "host", "status"} \subseteq DOMAIN program
  BY DEF IInv, RowOK
<1> QED
  BY <1>1, <1>2

LEMMA SaleCommitted ==
  ASSUME IInv, NEW h \in Handlers, SaleCommits(h)
  PROVE  IInv' /\ SalesMove /\ MoneyMove
<1>1. Checked(h) /\ tracking[h].sale \in Sale /\ sales' = Append(sales, tracking[h].sale)
  BY DEF SaleCommits, IInv, ReportsOK, Checked
<1>2. /\ DOMAIN program' = DOMAIN program /\ program'.terms = program.terms
      /\ program'.host = program.host /\ program'.status = program.status
  BY CommitsKeeps DEF SaleCommits
<1>3. /\ SalesOK' /\ SalesMove /\ DOMAIN sales \subseteq DOMAIN sales'
      /\ TwiceOnlyIfRaced
            /\ (Known(tracking[h].sale.ref) => tracking[h].sale.ref \in raced) => TwiceOnlyIfRaced'
      /\ \A ref : Known(ref)' => Known(ref) \/ ref = tracking[h].sale.ref
  <2>1. raced' = raced
    BY DEF SaleCommits, Finishes
  <2> QED
    BY <1>1, <2>1, AddKeeps DEF IInv
<1>7. AboutToAdd(h)
  BY DEF SaleCommits, AboutToAdd
<1>4. /\ ReportsOK' /\ ChecksAreNew' /\ CoroutinesNeverRace' /\ MoneyMove
      /\ UNCHANGED <<settlement, holding_over, confirming, recounted>>
  BY <1>1, <1>2, <1>3, <1>7, ReportLetGo DEF SaleCommits
<1>5. RowOK' /\ HostIsChosenOnce' /\ FundingIsOver' /\ SettlesInTime'
  BY <1>2, <1>4, RowRests
<1>6. EachOrderCountsOnce'
  <2>1. Known(tracking[h].sale.ref) => tracking[h].sale.ref \in raced
    BY <1>7 DEF IInv, ChecksAreNew, IsNew, Known
  <2> QED
    BY <1>3, <1>4, <2>1 DEF IInv, EachOrderCountsOnce
<1> QED
  BY <1>3, <1>4, <1>5, <1>6 DEF IInv

LEMMA ReversalCommitted ==
  ASSUME IInv, NEW h \in Handlers, ReversalCommits(h)
  PROVE  IInv' /\ SalesMove /\ MoneyMove
<1> DEFINE n == tracking[h].reverses
<1>1. /\ Checked(h) /\ n \in DOMAIN sales
      /\ sales' = [sales EXCEPT ![n].status = "reversed"]
      /\ Commits(tracking[h].committed, Greater(0, tracking[h].committed - sales[n].commission))
  BY DEF ReversalCommits, IInv, ReportsOK, Checked
<1>2. n \in ReadAsPending
  BY <1>1 DEF ReadAsPending, Checked
<1>3. /\ SalesOK' /\ SalesMove /\ DOMAIN sales' = DOMAIN sales
      /\ TwiceOnlyIfRaced => TwiceOnlyIfRaced'
      /\ \A ref : Known(ref)' => Known(ref)
  <2>1. raced' = raced
    BY DEF ReversalCommits, Finishes
  <2> QED
    BY <1>1, <1>2, <2>1, ReversalKeeps DEF IInv
<1>4. /\ DOMAIN program' = DOMAIN program /\ program'.terms = program.terms
      /\ program'.host = program.host /\ program'.status = program.status
  BY <1>1, CommitsKeeps
<1>5. /\ ReportsOK' /\ ChecksAreNew' /\ CoroutinesNeverRace' /\ MoneyMove
      /\ UNCHANGED <<settlement, holding_over, confirming, recounted>>
  BY <1>1, <1>3, <1>4, ReportLetGo DEF ReversalCommits
<1>6. RowOK' /\ HostIsChosenOnce' /\ FundingIsOver' /\ SettlesInTime' /\ EachOrderCountsOnce'
  BY <1>3, <1>4, <1>5, RowRests DEF IInv, EachOrderCountsOnce
<1> QED
  BY <1>3, <1>5, <1>6 DEF IInv

LEMMA StoreKeeps ==
  ASSUME IInv, Store
  PROVE  IInv' /\ SalesMove /\ MoneyMove
<1>1. None \notin HookHosts \cup ThreadedHosts /\ HookHosts \cap ThreadedHosts = {}
  BY ProgramAssumption DEF HookHosts, ThreadedHosts
<1>2. ASSUME NEW h \in Handlers, AtHand(h)
      PROVE  program.host # None /\ (program.host \notin ThreadedHosts => ToBeRecorded = {})
  BY <1>1, <1>2 DEF AtHand, LoopIsFree, ToBeRecorded
<1>3. ASSUME NEW h \in Handlers, HookArrives(h) PROVE IInv' /\ SalesMove /\ MoneyMove
  BY <1>1, <1>3, ReportHeld DEF HookArrives
<1>4. ASSUME NEW h \in Handlers, HookIgnores(h) PROVE IInv' /\ SalesMove /\ MoneyMove
  <2>1. UNCHANGED <<program, sales>>
    BY <1>4 DEF HookIgnores
  <2>2. /\ ReportsOK' /\ ChecksAreNew' /\ MoneyMove
        /\ UNCHANGED <<settlement, holding_over, confirming, recounted, raced>>
    BY <1>4, <2>1, ReportLetGo DEF HookIgnores, Known
  <2>3. SalesOK' /\ EachOrderCountsOnce' /\ SalesMove
    BY <2>1, <2>2 DEF IInv, SalesOK, EachOrderCountsOnce, TwiceOnlyIfRaced, CoroutinesNeverRace,
                      SalesMove
  <2> QED
    BY <2>1, <2>2, <2>3, RowRests DEF IInv
<1>5. ASSUME NEW h \in Handlers, NEW ref \in Orders \cup {None}, NEW o \in Owners,
             NEW amount \in SaleAmounts, SaleChecked(h, ref, o, amount)
      PROVE  IInv' /\ SalesMove /\ MoneyMove
  <2>1. NewSale(ref, o, amount) \in Sale /\ None \notin Sale
    BY NewSaleType, ProgramAssumption DEF IInv
  <2>2. ~Known(NewSale(ref, o, amount).ref) /\ AtHand(h)
        /\ Holds(h, "checked", Seen(h), NewSale(ref, o, amount), 0)
        /\ raced' = raced \cup ({ref} \cap Orders \cap ToBeRecorded)
        /\ NewSale(ref, o, amount).ref = ref
    BY <1>5 DEF SaleChecked, Records, NewSale
  <2>3. ref \in {None} \cup raced' \/ ref \notin ToBeRecorded
    BY <2>2
  <2>4. raced' = raced \/ program.host \in ThreadedHosts
    BY <1>2, <2>2
  <2> QED
    BY <1>2, <2>1, <2>2, <2>3, <2>4, ReportHeld
<1>6. ASSUME NEW h \in Handlers, NEW ref \in Orders, ReversalChecked(h, ref)
      PROVE  IInv' /\ SalesMove /\ MoneyMove
  <2>1. PICK n \in DOMAIN sales : Holds(h, "checked", Seen(h), None, n)
    BY <1>6 DEF ReversalChecked, Reversible
  <2>2. AtHand(h) /\ raced' = raced
    BY <1>6 DEF ReversalChecked
  <2> QED
    BY <1>2, <2>1, <2>2, ReportHeld
<1> QED
  BY <1>3, <1>4, <1>5, <1>6, SaleCommitted, ReversalCommitted DEF Store

\* A step of the settlement that leaves the row and the reports alone, where
\* the program is live and its time is over.
LEMMA SettlementMoves ==
  ASSUME IInv, UNCHANGED <<program, tracking, raced, holding_over, confirming, recounted>>,
         DOMAIN settlement' = DOMAIN settlement,
         program.status = "live" /\ holding_over,
         UNCHANGED sales \/ (\E o : sales' = SalesSettled(o))
  PROVE  IInv' /\ SalesMove /\ MoneyMove
<1>1. RowOK' /\ HostIsChosenOnce' /\ FundingIsOver' /\ SettlesInTime' /\ MoneyMove
  BY DEF IInv, RowOK, HostIsChosenOnce, FundingIsOver, SettlesInTime, MoneyMove
<1>2. CASE UNCHANGED sales
  BY <1>1, <1>2, SalesRest DEF IInv
<1>3. CASE \E o : sales' = SalesSettled(o)
  <2>1. /\ SalesOK' /\ SalesMove /\ DOMAIN sales' = DOMAIN sales
        /\ TwiceOnlyIfRaced => TwiceOnlyIfRaced'
        /\ \A ref : Known(ref)' => Known(ref)
    BY <1>3, SettlingKeeps DEF IInv
  <2>2. ReportsOK' /\ ChecksAreNew'
    BY <2>1 DEF IInv, ReportsOK, ChecksAreNew, AboutToAdd, IsNew, Checked
  <2> QED
    BY <1>1, <2>1, <2>2 DEF IInv, EachOrderCountsOnce, CoroutinesNeverRace
<1> QED
  BY <1>2, <1>3

LEMMA SettlementKeeps ==
  ASSUME IInv, Settlement
  PROVE  IInv' /\ SalesMove /\ MoneyMove
<1> DEFINE Live == program.status = "live" /\ holding_over
           SameParts == DOMAIN settlement' = DOMAIN settlement
           Rest == UNCHANGED <<program, tracking, raced, holding_over, confirming, recounted>>
<1> USE DEF fundingVars, confirmVars, trackVars
<1>1. settlement.at # "idle" => Live
  BY DEF IInv, SettlesInTime
<1>2. CASE SettleBegins
  <2>1. Live
    BY <1>2 DEF SettleBegins, Settleable, IInv, RowOK
  <2>2. SameParts /\ Rest /\ UNCHANGED sales
    BY <1>2 DEF SettleBegins, restVars
  <2> QED
    BY <2>1, <2>2, SettlementMoves
<1>3. CASE SettleLoads
  <2>1. Live /\ Rest /\ UNCHANGED sales
    BY <1>1, <1>3 DEF SettleLoads, restVars
  <2>2. SameParts
    BY <1>3 DEF SettleLoads
  <2> QED
    BY <2>1, <2>2, SettlementMoves
<1>4. CASE NothingDue
  BY <1>1, <1>4, SettlementMoves DEF NothingDue, Paying, restVars
<1>5. CASE OwnerFails
  BY <1>1, <1>5, SettlementMoves DEF OwnerFails, Paying, restVars
<1>6. CASE TransferToOwner
  BY <1>1, <1>6, SettlementMoves DEF TransferToOwner, Paying, restVars
<1>7. CASE CommitOwner
  BY <1>1, <1>7, SettlementMoves DEF CommitOwner, restVars
<1>8. ASSUME NEW made \in BOOLEAN, RefundUnused(made)
      PROVE  IInv' /\ SalesMove /\ MoneyMove
  BY <1>1, <1>8, SettlementMoves DEF RefundUnused, restVars
<1>9. settlement' = Idle => SettlesInTime'
  BY DEF SettlesInTime, Idle
<1>10. CASE SettleFinishes
  <2>1. Live /\ settlement' = Idle /\ UNCHANGED <<sales, transfers, refunded>>
        /\ UNCHANGED <<tracking, raced, holding_over, confirming, recounted>>
    BY <1>1, <1>10 DEF SettleFinishes, restVars
  <2>2. "funding" \notin recounted => program.host # None
    BY <2>1 DEF IInv, HostIsChosenOnce
  <2>3. /\ DOMAIN program \subseteq DOMAIN program' /\ program'.terms = program.terms
        /\ program'.host = program.host /\ program'.status = "settled"
    BY <1>10 DEF SettleFinishes, IInv, RowOK
  <2>4. RowOK' /\ HostIsChosenOnce' /\ FundingIsOver'
    BY <2>1, <2>2, <2>3 DEF IInv, RowOK, HostIsChosenOnce, FundingIsOver
  <2> QED
    BY <1>9, <2>1, <2>3, <2>4, SalesRest DEF IInv, MoneyMove
<1>11. CASE SettleDies
  <2>1. settlement' = Idle /\ UNCHANGED <<program, sales, transfers, refunded>>
        /\ UNCHANGED <<tracking, raced, holding_over, confirming, recounted>>
    BY <1>11 DEF SettleDies, restVars
  <2>2. RowOK' /\ HostIsChosenOnce' /\ FundingIsOver' /\ MoneyMove
    BY <2>1 DEF IInv, RowOK, HostIsChosenOnce, FundingIsOver, MoneyMove
  <2> QED
    BY <1>9, <2>1, <2>2, SalesRest DEF IInv
<1> QED
  BY <1>2, <1>3, <1>4, <1>5, <1>6, <1>7, <1>8, <1>10, <1>11 DEF Settlement

LEMMA InitHolds == Init => IInv
<1> SUFFICES ASSUME Init PROVE IInv
  OBVIOUS
<1>1. PICK t \in Programs :
         program = [ terms |-> t, pool_max_budget |-> t.pool_max_budget,
                     pool_committed_amount |-> 0, pool_released_amount |-> None,
                     pool_refunded_amount |-> None, host |-> None, status |-> "draft" ]
  BY DEF Init
<1>2. RowOK /\ HostIsChosenOnce
  BY <1>1 DEF RowOK, HostIsChosenOnce
<1>3. SalesOK /\ EachOrderCountsOnce
  BY DEF Init, SalesOK, EachOrderCountsOnce, TwiceOnlyIfRaced, CoroutinesNeverRace
<1>4. ReportsOK /\ ChecksAreNew /\ FundingIsOver
  BY DEF Init, ReportsOK, ChecksAreNew, AboutToAdd, Checked, FundingIsOver
<1>5. SettlesInTime
  BY DEF Init, SettlesInTime, Idle
<1> QED
  BY <1>2, <1>3, <1>4, <1>5 DEF IInv

LEMMA StepKeeps ==
  ASSUME IInv, [Next]_vars
  PROVE  IInv' /\ SalesMove /\ MoneyMove
<1>1. CASE Next
  BY <1>1, BusinessKeeps, ConfirmationsKeep, MembershipKeeps, StoreKeeps, SettlementKeeps DEF Next
<1>2. CASE UNCHANGED vars
  <2>1. UNCHANGED <<program, sales, tracking, raced, settlement, holding_over, transfers, refunded,
                    confirming, recounted>>
    BY <1>2 DEF vars, stripeVars
  <2> QED
    BY <2>1, RowRests, SalesRest DEF IInv, MoneyMove
<1> QED
  BY <1>1, <1>2

-----------------------------------------------------------------------------
\* The theorems.

\* In every state the row, the reports and the settlement fit together, and
\* the sales are rows of the table.
THEOREM ProgramInvariance == Spec => []IInv
<1>1. IInv /\ [Next]_vars => IInv'
  BY StepKeeps
<1> QED
  BY <1>1, InitHolds, PTL DEF Spec

\* However often the store reports an order, it earns one commission, unless
\* two reports of it were both checked before either was committed; those of a
\* hook that is a coroutine never are.
THEOREM EachOrderOnce == Spec => []EachOrderCountsOnce
<1>1. IInv => EachOrderCountsOnce
  BY DEF IInv
<1> QED
  BY <1>1, ProgramInvariance, PTL

\* A sale that was reversed or settled stays that way, but for what a
\* settlement in progress has loaded.
THEOREM DecisionsStay == Spec => DecidedSalesStayDecided
<1>1. IInv /\ [Next]_vars => [SalesMove]_vars
  BY StepKeeps
<1> QED
  BY <1>1, ProgramInvariance, PTL DEF Spec, DecidedSalesStayDecided, SalesMove

\* No Transfer and no refund but in a settlement of a live program whose
\* holding period is over.
THEOREM MoneyInSettlement == Spec => MoneyLeavesInSettlement
<1>1. IInv /\ [Next]_vars => [MoneyMove]_vars
  BY StepKeeps
<1> QED
  BY <1>1, ProgramInvariance, PTL DEF Spec, MoneyLeavesInSettlement, MoneyMove

-----------------------------------------------------------------------------
\* Sums over the rows.

\* The commissions of a set of rows.
CommissionSum(rows, S) == MapThenSumSet(LAMBDA n : rows[n].commission, S)

LEMMA CommissionSumIs ==
    ASSUME NEW rows, NEW S, IsFiniteSet(S), NEW f,
           \A n \in S : f[n] \in Nat /\ rows[n].commission = f[n]
    PROVE  CommissionSum(rows, S) = SumOver(f, S)
<1> DEFINE SumsRows(iter) ==
             iter = [s \in SUBSET S |-> IF s = {} THEN 0
                       ELSE rows[Pick(s)].commission + iter[s \ {Pick(s)}]]
           I == CHOOSE iter : SumsRows(iter)
<1>1. \A iter : SumsRows(iter) <=> Sums(f, S, iter)
  <2> TAKE iter
  <2>1. \A s \in SUBSET S : s # {} => rows[Pick(s)].commission = f[Pick(s)]
    BY PickIn
  <2>2. [s \in SUBSET S |-> IF s = {} THEN 0 ELSE rows[Pick(s)].commission + iter[s \ {Pick(s)}]]
        = [s \in SUBSET S |-> IF s = {} THEN 0 ELSE f[Pick(s)] + iter[s \ {Pick(s)}]]
    BY <2>1
  <2> QED
    BY <2>2 DEF Sums
<1>2. CommissionSum(rows, S) = I[S]
  BY DEF CommissionSum, MapThenSumSet, MapThenFoldSet, Pick
<1> HIDE DEF SumsRows
<1>3. \E iter : SumsRows(iter)
  BY <1>1, SumsAreOne
<1>4. Sums(f, S, I)
  BY <1>1, <1>3
<1> HIDE DEF I
<1> QED
  BY <1>2, <1>4, SumsAreOne

CommissionsOf(rows) == [n \in DOMAIN rows |-> rows[n].commission]
LEMMA RowsSumOf ==
    ASSUME NEW rows \in Seq(Sale), NEW S \in SUBSET DOMAIN rows
    PROVE  /\ IsFiniteSet(S) /\ \A n \in S : CommissionsOf(rows)[n] \in Nat
           /\ CommissionSum(rows, S) = SumOver(CommissionsOf(rows), S)
           /\ CommissionSum(rows, S) \in Nat
<1>1. DOMAIN rows = 1..Len(rows) /\ Len(rows) \in Nat
  OBVIOUS
<1>2. IsFiniteSet(S)
  <2>1. IsFiniteSet(1..Len(rows)) /\ S \in SUBSET (1..Len(rows))
    BY <1>1, FS_Interval
  <2> QED
    BY <2>1, FS_Subset
<1>3. \A n \in S : rows[n] \in Sale
  OBVIOUS
<1>4. \A n \in S : CommissionsOf(rows)[n] \in Nat /\ rows[n].commission = CommissionsOf(rows)[n]
  BY <1>3 DEF CommissionsOf, Sale
<1> QED
  BY <1>2, <1>4, CommissionSumIs, SumIsNat

LEMMA EarnedIs == ASSUME NEW o PROVE Earned(o) = CommissionSum(sales, PendingOf(o))
BY DEF Earned, CommissionSum, MapThenSumSet, MapThenFoldSet

LEMMA DecidedIs ==
    ASSUME NEW o
    PROVE  /\ DecidedFor(o) =
                 CommissionSum(sales, {n \in DOMAIN sales : sales[n].owner = o /\ sales[n].status # "pending"})
           /\ DecidedFor(o)' =
                 CommissionSum(sales', {n \in DOMAIN sales' : sales'[n].owner = o /\ sales'[n].status # "pending"})
BY DEF DecidedFor, CommissionSum, MapThenSumSet, MapThenFoldSet

LEMMA RowsAreFinite ==
    ASSUME SalesOK
    PROVE  /\ IsFiniteSet(DOMAIN sales) /\ DOMAIN sales = 1..Len(sales) /\ Len(sales) \in Nat
           /\ \A S \in SUBSET DOMAIN sales : IsFiniteSet(S)
           /\ \A n \in DOMAIN sales : sales[n] \in Sale /\ sales[n].commission \in Nat
<1>1. DOMAIN sales = 1..Len(sales) /\ Len(sales) \in Nat
  BY DEF SalesOK
<1>2. IsFiniteSet(DOMAIN sales)
  BY <1>1, FS_Interval
<1>3. \A n \in DOMAIN sales : sales[n] \in Sale
  BY DEF SalesOK
<1>4. \A n \in DOMAIN sales : sales[n].commission \in Nat
  BY <1>3 DEF Sale
<1> QED
  BY <1>1, <1>2, <1>3, <1>4, FS_Subset

LEMMA EarnedIsNat ==
    ASSUME SalesOK, NEW o
    PROVE  Earned(o) \in Nat
<1>1. PendingOf(o) \in SUBSET DOMAIN sales
  BY DEF PendingOf
<1> QED
  BY <1>1, EarnedIs, RowsSumOf DEF SalesOK

LEMMA EarnersFinite ==
    ASSUME SalesOK
    PROVE  IsFiniteSet(Earners) /\ Earners \subseteq Owners
<1> DEFINE A == {o \in Owners : PendingOf(o) # {}}
           f == [n \in DOMAIN sales |-> sales[n].owner]
           B == {sales[n].owner : n \in DOMAIN sales}
<1>1. f \in Surjection(DOMAIN sales, B)
  BY DEF Surjection
<1>2. IsFiniteSet(B)
  <2> HIDE DEF f, B
  <2> QED
    BY <1>1, FS_Surjection, RowsAreFinite
<1>3. A \in SUBSET B
  BY DEF PendingOf
<1>4. IsFiniteSet(A)
  <2> HIDE DEF A, B
  <2> QED
    BY <1>2, <1>3, FS_Subset
<1>5. Earners = {} \/ Earners = A
  BY DEF Earners
<1> QED
  BY <1>4, <1>5, FS_EmptySet

LEMMA OrderIs ==
    ASSUME NEW S, IsFiniteSet(S), NEW order \in SetToSeqs(S)
    PROVE  /\ order \in Seq(S) /\ Len(order) \in Nat /\ DOMAIN order = 1..Len(order)
           /\ \A m, n \in DOMAIN order : m # n => order[m] # order[n]
<1>1. Cardinality(S) \in Nat
  BY FS_CardinalityType
<1> DEFINE N == Cardinality(S)
<1> HIDE DEF N
<1>2. order \in [1..N -> S] /\ \A i, j \in 1..N : i # j => order[i] # order[j]
  BY DEF SetToSeqs, N
<1> QED
  BY <1>1, <1>2 DEF N

\* What the row must hold for a settlement to be reckoned.
BudgetOK == program.pool_max_budget \in Nat

LEMMA SettlesIs ==
    ASSUME SalesOK, RowOK, BudgetOK, NEW order \in SetToSeqs(Earners), NEW r, r = Settles(order)
    PROVE  /\ order \in Seq(Owners) /\ Len(order) \in Nat /\ DOMAIN order = 1..Len(order)
           /\ \A m, n \in DOMAIN order : m # n => order[m] # order[n]
           /\ r.total_commission_capped \in 0..program.pool_max_budget
           /\ r.refund_to_business =
                 Greater(0, ChargeOf(program.pool_max_budget, program.terms.funding_fee_percent)
                       - ChargeOf(r.total_commission_capped, program.terms.funding_fee_percent))
           /\ DOMAIN r.net_to_owner = DOMAIN order
           /\ \A n \in DOMAIN order : r.net_to_owner[n] \in 0..Earned(order[n])
           /\ SumOver(r.net_to_owner, DOMAIN order)
                 <= NetOf(r.total_commission_capped, program.terms.payout_fee_percent)
<1> DEFINE p == [ pool_max_budget     |-> program.pool_max_budget,
                  payout_fee_percent  |-> program.terms.payout_fee_percent,
                  funding_fee_percent |-> program.terms.funding_fee_percent ]
           c == [n \in DOMAIN order |-> Earned(order[n])]
<1>1. order \in Seq(Earners) /\ Len(order) \in Nat /\ DOMAIN order = 1..Len(order)
      /\ \A m, n \in DOMAIN order : m # n => order[m] # order[n]
  BY EarnersFinite, OrderIs
<1>2. order \in Seq(Owners)
  BY <1>1, EarnersFinite
<1>3. c \in Seq(Nat) /\ DOMAIN c = DOMAIN order
  BY <1>1, EarnedIsNat
<1>4. /\ p.pool_max_budget = program.pool_max_budget
      /\ p.payout_fee_percent = program.terms.payout_fee_percent
      /\ p.funding_fee_percent = program.terms.funding_fee_percent
  OBVIOUS
<1>5. /\ program.pool_max_budget \in Nat /\ program.terms.payout_fee_percent \in 0..100
      /\ program.terms.funding_fee_percent \in 0..100
  BY ProgramAssumption DEF RowOK, BudgetOK, Terms
<1>6. r = AffiliateSettlementFor(p, c)
  BY DEF Settles
<1>7. \A n \in DOMAIN order : c[n] = Earned(order[n])
  OBVIOUS
<1> HIDE DEF p, c
<1>8. /\ r.total_commission_capped \in 0..p.pool_max_budget
      /\ r.refund_to_business = Greater(0, ChargeOf(p.pool_max_budget, p.funding_fee_percent)
                              - ChargeOf(r.total_commission_capped, p.funding_fee_percent))
      /\ DOMAIN r.net_to_owner = DOMAIN c
      /\ \A n \in DOMAIN c : r.net_to_owner[n] \in 0..c[n]
      /\ SumOver(r.net_to_owner, DOMAIN c)
            <= NetOf(r.total_commission_capped, p.payout_fee_percent)
  BY <1>3, <1>4, <1>5, <1>6, SettlementFacts
<1> QED
  BY <1>1, <1>2, <1>3, <1>4, <1>7, <1>8

\* ChargeOf and the refund are amounts.
LEMMA RefundIsNat ==
    ASSUME NEW x \in Nat, NEW y \in Nat, NEW f \in 0..100
    PROVE  Greater(0, ChargeOf(x, f) - ChargeOf(y, f)) \in Nat /\ ChargeOf(x, f) \in Nat
<1>1. BuyerFee(x, f) \in Nat /\ BuyerFee(y, f) \in Nat
  <2>1. (x * f) \div 100 \in 0..x /\ (y * f) \div 100 \in 0..y
    BY FeeFits
  <2> QED
    BY <2>1 DEF BuyerFee
<1> QED
  BY <1>1 DEF ChargeOf, Greater

-----------------------------------------------------------------------------
\* The types.

\* The sales that are checked and not in the table yet fit into it, and what is
\* sent is sent to somebody.
Adding == {h \in Handlers : Checked(h) /\ tracking[h].sale # None}
RoomOK == IsFiniteSet(Adding) /\ Len(sales) + Cardinality(Adding) <= MaxSales
SentOK == settlement.at = "sent" => settlement.due # <<>>
TInv == TypeOK /\ RoomOK /\ SentOK

LEMMA FundsType ==
    ASSUME TInv, UNCHANGED <<member, paid_net, sales, tracking, raced, settlement, died, transfers,
                             refunded>>,
           confirming' \in [Confirmers -> {None} \cup Confirmation], recounted' \subseteq Payments,
           program' \in ProgramRow, topup' \in [TopUps -> {"none", "pending", "funded"}],
           intent' \in [Payments -> {"none", "offered", "succeeded"}],
           processed' \subseteq Payments, holding_over' \in BOOLEAN
    PROVE  TInv'
<1>1. TypeOK'
  BY DEF TInv, TypeOK
<1>2. RoomOK'
  BY DEF TInv, RoomOK, Adding, Checked
<1>3. SentOK'
  BY DEF TInv, SentOK
<1> QED
  BY <1>1, <1>2, <1>3 DEF TInv

LEMMA BusinessType ==
    ASSUME TInv, Business \/ HoldingPeriodEnds
    PROVE  TInv'
<1> USE DEF confirmVars, trackVars
<1>0. /\ program \in ProgramRow /\ topup \in [TopUps -> {"none", "pending", "funded"}]
      /\ intent \in [Payments -> {"none", "offered", "succeeded"}]
      /\ processed \subseteq Payments /\ holding_over \in BOOLEAN
      /\ confirming \in [Confirmers -> {None} \cup Confirmation] /\ recounted \subseteq Payments
  BY DEF TInv, TypeOK
<1>1. CASE FundProgram
  <2>1. program' \in ProgramRow
    BY <1>0, <1>1 DEF FundProgram, ProgramRow
  <2>2. intent' \in [Payments -> {"none", "offered", "succeeded"}]
    BY <1>0, <1>1 DEF FundProgram, Payments
  <2> QED
    BY <1>0, <1>1, <2>1, <2>2, FundsType DEF FundProgram, settlingVars
<1>2. ASSUME NEW t \in TopUps, TopUpProgram(t) PROVE TInv'
  <2>1. /\ intent' \in [Payments -> {"none", "offered", "succeeded"}]
        /\ topup' \in [TopUps -> {"none", "pending", "funded"}]
    BY <1>0, <1>2 DEF TopUpProgram, Payments
  <2> QED
    BY <1>0, <1>2, <2>1, FundsType DEF TopUpProgram, settlingVars
<1>3. ASSUME NEW p \in Payments, CustomerPays(p) PROVE TInv'
  <2>1. intent' \in [Payments -> {"none", "offered", "succeeded"}]
    BY <1>0, <1>3 DEF CustomerPays
  <2> QED
    BY <1>0, <1>3, <2>1, FundsType DEF CustomerPays, settlingVars
<1>4. ASSUME NEW host \in Hosts, ConfirmTracking(host) PROVE TInv'
  <2>1. program' \in ProgramRow
    BY <1>0, <1>4 DEF ConfirmTracking, ProgramRow
  <2> QED
    BY <1>0, <1>4, <2>1, FundsType DEF ConfirmTracking, settlingVars, fundingVars
<1>5. CASE HoldingPeriodEnds
  BY <1>0, <1>5, FundsType DEF HoldingPeriodEnds, fundingVars
<1> QED
  BY <1>1, <1>2, <1>3, <1>4, <1>5 DEF Business

LEMMA ConfirmationsType ==
    ASSUME TInv, Confirmations
    PROVE  TInv'
<1> USE DEF confirmVars, trackVars, settlingVars
<1>0. /\ program \in ProgramRow /\ topup \in [TopUps -> {"none", "pending", "funded"}]
      /\ intent \in [Payments -> {"none", "offered", "succeeded"}]
      /\ processed \subseteq Payments /\ holding_over \in BOOLEAN
      /\ confirming \in [Confirmers -> {None} \cup Confirmation] /\ recounted \subseteq Payments
      /\ None \notin Confirmation /\ program.pool_max_budget \in Nat
  BY ProgramAssumption DEF TInv, TypeOK, ProgramRow
<1>1. ASSUME NEW c \in Confirmers, NEW p \in Payments, ConfirmBegins(c, p) PROVE TInv'
  <2>1. [payment |-> p, budget |-> None] \in Confirmation
    BY DEF Confirmation
  <2>2. confirming' \in [Confirmers -> {None} \cup Confirmation]
    BY <1>0, <1>1, <2>1 DEF ConfirmBegins
  <2> QED
    BY <1>0, <1>1, <2>2, FundsType DEF ConfirmBegins
<1>2. ASSUME NEW c \in Confirmers, StripeConfirms(c) PROVE TInv'
  <2>1. [confirming[c] EXCEPT !.budget = program.pool_max_budget] \in Confirmation
    BY <1>0, <1>2 DEF StripeConfirms, Confirmation
  <2>2. confirming' \in [Confirmers -> {None} \cup Confirmation]
    BY <1>0, <1>2, <2>1 DEF StripeConfirms
  <2> QED
    BY <1>0, <1>2, <2>2, FundsType DEF StripeConfirms
<1>3. ASSUME NEW c \in Confirmers, ConfirmFails(c) PROVE TInv'
  <2>1. confirming' \in [Confirmers -> {None} \cup Confirmation]
    BY <1>0, <1>3 DEF ConfirmFails
  <2> QED
    BY <1>0, <1>3, <2>1, FundsType DEF ConfirmFails
<1>4. ASSUME NEW c \in Confirmers, NEW marked \in BOOLEAN, ConfirmCommits(c, marked) PROVE TInv'
  <2>1. /\ confirming[c] \in Confirmation /\ confirming[c].payment \in Payments
        /\ confirming[c].budget \in Nat
    BY <1>0, <1>4 DEF ConfirmCommits, Confirmation
  <2>2. confirming' \in [Confirmers -> {None} \cup Confirmation]
    BY <1>0, <1>4 DEF ConfirmCommits
  <2>3. processed' \subseteq Payments /\ recounted' \subseteq Payments
    BY <1>0, <1>4, <2>1 DEF ConfirmCommits
  <2>4. program' \in ProgramRow /\ topup' \in [TopUps -> {"none", "pending", "funded"}]
    <3>1. CASE confirming[c].payment = "funding"
      BY <1>0, <1>4, <3>1, CommitWrites DEF ProgramRow
    <3>2. CASE confirming[c].payment # "funding"
      <4>1. confirming[c].budget + TopUpAmount \in Nat
        BY <2>1, ProgramAssumption
      <4>2. /\ topup' = [topup EXCEPT ![confirming[c].payment] = "funded"]
            /\ program' = [program EXCEPT
                             !.pool_max_budget = confirming[c].budget + TopUpAmount]
        BY <1>4, <3>2, CommitWrites
      <4>3. program' \in ProgramRow
        BY <1>0, <4>1, <4>2 DEF ProgramRow
      <4> QED
        BY <1>0, <4>2, <4>3
    <3> QED
      BY <3>1, <3>2
  <2> QED
    BY <1>0, <1>4, <2>2, <2>3, <2>4, FundsType DEF ConfirmCommits
<1>5. ASSUME NEW p \in Payments, Acknowledge(p) PROVE TInv'
  BY <1>0, <1>5, FundsType DEF Acknowledge
<1> QED
  BY <1>1, <1>2, <1>3, <1>4, <1>5 DEF Confirmations

LEMMA MembershipType ==
    ASSUME TInv, Membership
    PROVE  TInv'
<1>1. PICK o \in Owners, status \in {"pending", "active", "rejected", "removed"} :
         Becomes(o, status)
  BY DEF Membership, Apply, ApproveApplication, RejectApplication, RemovePartner
<1>2. TypeOK'
  BY <1>1 DEF TInv, TypeOK, Becomes, settlingVars, fundingVars, confirmVars, trackVars
<1>3. RoomOK' /\ SentOK'
  BY <1>1 DEF TInv, RoomOK, SentOK, Adding, Checked, Becomes, settlingVars, trackVars
<1> QED
  BY <1>2, <1>3 DEF TInv

-----------------------------------------------------------------------------
\* The store's reports.

LEMMA ReportsType ==
    ASSUME TInv, UNCHANGED <<member, settlingVars, fundingVars>>,
           program' \in ProgramRow, sales' \in Seq(Sale), tracking' \in [Handlers -> {None} \cup Report],
           raced' \subseteq Orders, RoomOK'
    PROVE  TInv'
<1>1. TypeOK'
  BY DEF TInv, TypeOK, settlingVars, fundingVars, confirmVars
<1>2. SentOK'
  BY DEF TInv, SentOK, settlingVars
<1> QED
  BY <1>1, <1>2 DEF TInv

LEMMA RowIsRead ==
    ASSUME TInv, NEW h \in Handlers, NEW row, row = Row \/ (row = tracking[h] /\ tracking[h] # None),
           NEW at \in {"read", "checked"}, NEW sale \in {None} \cup Sale, NEW n \in 0..MaxSales,
           Holds(h, at, row, sale, n)
    PROVE  tracking' \in [Handlers -> {None} \cup Report]
<1>1. tracking \in [Handlers -> {None} \cup Report] /\ program \in ProgramRow
  BY DEF TInv, TypeOK
<1>2. row.live \in BOOLEAN /\ row.committed \in Nat /\ row.budget \in Nat
  <2>1. CASE row = Row
    BY <1>1, <2>1 DEF Row, ProgramRow
  <2>2. CASE row = tracking[h] /\ tracking[h] # None
    <3>1. tracking[h] \in Report
      BY <1>1, <2>2
    <3> QED
      BY <2>2, <3>1 DEF Report
  <2> QED
    BY <2>1, <2>2
<1> DEFINE report == [ at |-> at, sale |-> sale, reverses |-> n, live |-> row.live,
                       committed |-> row.committed, budget |-> row.budget ]
<1>3. report \in Report
  BY <1>2 DEF Report
<1>4. tracking' = [tracking EXCEPT ![h] = report]
  BY DEF Holds
<1> HIDE DEF report
<1> QED
  BY <1>1, <1>3, <1>4

LEMMA SeenIsRead ==
    ASSUME NEW h \in Handlers, AtHand(h)
    PROVE  Seen(h) = Row \/ (Seen(h) = tracking[h] /\ tracking[h] # None)
BY DEF AtHand, Seen

LEMMA AddingIs ==
    ASSUME TInv, NEW h \in Handlers, \A i \in Handlers : i # h => tracking'[i] = tracking[i]
    PROVE  /\ IsFiniteSet(Adding') /\ Cardinality(Adding) \in Nat /\ Cardinality(Adding') \in Nat
           /\ Cardinality(Adding') <= Cardinality(Adding) + 1
           /\ h \notin Adding' => Cardinality(Adding') <= Cardinality(Adding)
           /\ h \in Adding /\ h \notin Adding' => Cardinality(Adding') = Cardinality(Adding) - 1
<1> DEFINE A == Adding
           B == Adding'
<1>1. IsFiniteSet(A) /\ Cardinality(A) \in Nat
  BY FS_CardinalityType DEF TInv, RoomOK
<1>2. h \in B => B = A \cup {h}
  BY DEF Adding, Checked
<1>3. h \notin B => B = A \ {h}
  BY DEF Adding, Checked
<1> HIDE DEF A, B
<1>4. CASE h \in B
  <2>1. IsFiniteSet(B) /\ Cardinality(B) = IF h \in A THEN Cardinality(A) ELSE Cardinality(A) + 1
    BY <1>1, <1>2, <1>4, FS_AddElement
  <2> QED
    BY <1>1, <1>4, <2>1 DEF A, B
<1>5. CASE h \notin B
  <2>1. IsFiniteSet(B) /\ Cardinality(B) = IF h \in A THEN Cardinality(A) - 1 ELSE Cardinality(A)
    BY <1>1, <1>3, <1>5, FS_RemoveElement
  <2>2. Cardinality(B) \in Nat
    BY <2>1, FS_CardinalityType
  <2> QED
    BY <1>1, <1>5, <2>1, <2>2 DEF A, B
<1> QED
  BY <1>4, <1>5

LEMMA CommittedType ==
    ASSUME TInv, NEW read, NEW sum \in Nat, Commits(read, sum)
    PROVE  program' \in ProgramRow
<1>1. program \in ProgramRow
  BY DEF TInv, TypeOK
<1>2. program' = [program EXCEPT !.pool_committed_amount =
                     IF sum = read THEN program.pool_committed_amount ELSE sum]
  BY DEF Commits
<1>3. (IF sum = read THEN program.pool_committed_amount ELSE sum) \in Nat
  BY <1>1 DEF ProgramRow
<1> QED
  BY <1>1, <1>2, <1>3 DEF ProgramRow

LEMMA StoreType ==
    ASSUME TInv, IInv, Store
    PROVE  TInv'
<1>0. /\ program \in ProgramRow /\ sales \in Seq(Sale) /\ None \notin Sale \cup Report
      /\ raced \subseteq Orders
      /\ tracking \in [Handlers -> {None} \cup Report] /\ SalesOK
      /\ Len(sales) \in Nat /\ DOMAIN sales = 1..Len(sales) /\ MaxSales \in Nat
      /\ Len(sales) + Cardinality(Adding) <= MaxSales
  BY ProgramAssumption DEF TInv, TypeOK, SalesOK, RoomOK
<1>1. DOMAIN sales \subseteq 0..MaxSales /\ 0 \in 0..MaxSales
  <2>1. Cardinality(Adding) \in Nat
    BY FS_CardinalityType DEF TInv, RoomOK
  <2> QED
    BY <1>0, <2>1
<1>2. ASSUME NEW h \in Handlers, NEW row, row = Row \/ (row = tracking[h] /\ tracking[h] # None),
             NEW at \in {"read", "checked"}, NEW sale \in {None} \cup Sale, NEW n \in 0..MaxSales,
             Holds(h, at, row, sale, n), HasRoom \/ sale = None, raced' \subseteq Orders
      PROVE  TInv'
  <2>1. tracking' \in [Handlers -> {None} \cup Report]
    BY <1>2, RowIsRead
  <2>2. UNCHANGED <<program, member, sales, settlingVars, fundingVars>>
        /\ (\A i \in Handlers : i # h => tracking'[i] = tracking[i])
        /\ tracking'[h].sale = sale
    BY <1>0, <1>2 DEF Holds
  <2>3. sale = None => h \notin Adding'
    BY <2>2 DEF Adding
  <2>4. HasRoom => Len(sales) + Cardinality(Adding) < MaxSales
    BY DEF HasRoom, Adding
  <2>5. /\ IsFiniteSet(Adding') /\ Cardinality(Adding) \in Nat /\ Cardinality(Adding') \in Nat
        /\ Cardinality(Adding') <= Cardinality(Adding) + 1
        /\ h \notin Adding' => Cardinality(Adding') <= Cardinality(Adding)
    BY <2>2, AddingIs
  <2>6. RoomOK'
    BY <1>0, <1>2, <2>2, <2>3, <2>4, <2>5 DEF RoomOK
  <2> QED
    BY <1>0, <1>2, <2>1, <2>2, <2>6, ReportsType
<1>3. ASSUME NEW h \in Handlers, HookArrives(h) PROVE TInv'
  BY <1>0, <1>1, <1>2, <1>3 DEF HookArrives
<1>4. ASSUME NEW h \in Handlers, NEW ref \in Orders \cup {None}, NEW o \in Owners,
             NEW amount \in SaleAmounts, SaleChecked(h, ref, o, amount)
      PROVE  TInv'
  <2>1. NewSale(ref, o, amount) \in {None} \cup Sale
    BY NewSaleType DEF IInv
  <2>2. Seen(h) = Row \/ (Seen(h) = tracking[h] /\ tracking[h] # None)
    BY <1>4, SeenIsRead DEF SaleChecked
  <2>3. raced' \subseteq Orders
    BY <1>0, <1>4 DEF SaleChecked
  <2> QED
    BY <1>1, <1>2, <1>4, <2>1, <2>2, <2>3 DEF SaleChecked
<1>5. ASSUME NEW h \in Handlers, NEW ref \in Orders, ReversalChecked(h, ref) PROVE TInv'
  <2>1. PICK n \in DOMAIN sales : Holds(h, "checked", Seen(h), None, n)
    BY <1>5 DEF ReversalChecked, Reversible
  <2>2. Seen(h) = Row \/ (Seen(h) = tracking[h] /\ tracking[h] # None)
    BY <1>5, SeenIsRead DEF ReversalChecked
  <2>3. raced' \subseteq Orders
    BY <1>0, <1>5 DEF ReversalChecked
  <2> QED
    BY <1>1, <1>2, <2>1, <2>2, <2>3
<1>6. ASSUME NEW h \in Handlers, Finishes(h)
      PROVE  /\ tracking' \in [Handlers -> {None} \cup Report]
             /\ UNCHANGED <<member, settlingVars, fundingVars>> /\ raced' \subseteq Orders
             /\ IsFiniteSet(Adding') /\ Cardinality(Adding) \in Nat /\ Cardinality(Adding') \in Nat
             /\ Cardinality(Adding') <= Cardinality(Adding)
             /\ h \in Adding => Cardinality(Adding') = Cardinality(Adding) - 1
  <2>1. /\ tracking' = [tracking EXCEPT ![h] = None]
        /\ tracking' \in [Handlers -> {None} \cup Report]
        /\ tracking'[h] = None /\ \A i \in Handlers : i # h => tracking'[i] = tracking[i]
    BY <1>0, <1>6 DEF Finishes
  <2>2. h \notin Adding'
    BY <2>1 DEF Adding, Checked
  <2> QED
    BY <1>0, <1>6, <2>1, <2>2, AddingIs DEF Finishes
<1>7. ASSUME NEW h \in Handlers, HookIgnores(h) PROVE TInv'
  <2>1. RoomOK'
    BY <1>0, <1>6, <1>7 DEF HookIgnores, RoomOK
  <2> QED
    BY <1>0, <1>6, <1>7, <2>1, ReportsType DEF HookIgnores
<1>8. ASSUME NEW h \in Handlers, SaleCommits(h) PROVE TInv'
  <2>1. tracking[h] \in Report /\ tracking[h].sale \in Sale /\ h \in Adding
    BY <1>0, <1>8 DEF SaleCommits, Checked, Report, Adding
  <2>2. tracking[h].committed \in Nat /\ tracking[h].budget \in Nat /\ tracking[h].sale.commission \in Nat
    BY <2>1 DEF Report, Sale
  <2>3. Lesser(tracking[h].budget, tracking[h].committed + tracking[h].sale.commission) \in Nat
    BY <2>2 DEF Lesser
  <2>4. program' \in ProgramRow
    BY <1>8, <2>3, CommittedType DEF SaleCommits
  <2>5. sales' \in Seq(Sale) /\ Len(sales') = Len(sales) + 1
    BY <1>0, <1>8, <2>1 DEF SaleCommits
  <2>6. RoomOK'
    BY <1>0, <1>6, <1>8, <2>1, <2>5 DEF SaleCommits, RoomOK
  <2> QED
    BY <1>6, <1>8, <2>4, <2>5, <2>6, ReportsType DEF SaleCommits
<1>9. ASSUME NEW h \in Handlers, ReversalCommits(h) PROVE TInv'
  <2> DEFINE n == tracking[h].reverses
  <2>1. tracking[h] \in Report /\ n \in DOMAIN sales
    BY <1>0, <1>9 DEF ReversalCommits, Checked, IInv, ReportsOK
  <2>2. tracking[h].committed \in Nat /\ sales[n].commission \in Nat
    BY <1>0, <2>1, RowsAreFinite DEF Report
  <2>3. Greater(0, tracking[h].committed - sales[n].commission) \in Nat
    BY <2>2 DEF Greater
  <2>4. program' \in ProgramRow
    BY <1>9, <2>3, CommittedType DEF ReversalCommits
  <2>5. sales' = [sales EXCEPT ![n].status = "reversed"]
    BY <1>9 DEF ReversalCommits
  <2>6. [sales[n] EXCEPT !.status = "reversed"] \in Sale
    BY <1>0, <2>1, SalesAreRows
  <2>7. sales' \in Seq(Sale) /\ Len(sales') = Len(sales)
    BY <1>0, <2>1, <2>5, <2>6
  <2>8. RoomOK'
    BY <1>0, <1>6, <1>9, <2>7 DEF ReversalCommits, RoomOK
  <2> QED
    BY <1>6, <1>9, <2>4, <2>7, <2>8, ReportsType DEF ReversalCommits
<1> QED
  BY <1>3, <1>4, <1>5, <1>7, <1>8, <1>9 DEF Store
-----------------------------------------------------------------------------
\* The settlement.

LEMMA SettlingType ==
    ASSUME TInv, UNCHANGED restVars,
           program' \in ProgramRow, sales' \in Seq(Sale), Len(sales') = Len(sales),
           paid_net' \in [Owners -> {None} \cup Nat], settlement' \in Settling,
           died' \in BOOLEAN, transfers' \in Seq(Payout), refunded' \in Nat, SentOK'
    PROVE  TInv'
<1>1. TypeOK'
  BY DEF TInv, TypeOK, restVars, fundingVars, confirmVars, trackVars
<1>2. RoomOK'
  BY DEF TInv, RoomOK, Adding, Checked, restVars, trackVars
<1> QED
  BY <1>1, <1>2 DEF TInv

LEMMA SettledRows ==
    ASSUME SalesOK, NEW o, sales' = SalesSettled(o)
    PROVE  sales' \in Seq(Sale) /\ Len(sales') = Len(sales)
<1>1. SalesOK' /\ DOMAIN sales' = DOMAIN sales
  BY SettlingKeeps
<1> QED
  BY <1>1 DEF SalesOK

LEMMA SettlementType ==
    ASSUME TInv, IInv, Settlement
    PROVE  TInv'
<1>0. /\ program \in ProgramRow /\ sales \in Seq(Sale) /\ SalesOK
      /\ paid_net \in [Owners -> {None} \cup Nat] /\ settlement \in Settling
      /\ died \in BOOLEAN /\ transfers \in Seq(Payout) /\ refunded \in Nat
      /\ BudgetOK /\ RowOK /\ DOMAIN sales \subseteq 1..MaxSales
  <2>1. Cardinality(Adding) \in Nat
    BY FS_CardinalityType DEF TInv, RoomOK
  <2>2. Len(sales) \in Nat /\ Len(sales) <= MaxSales /\ DOMAIN sales = 1..Len(sales)
    BY <2>1, ProgramAssumption DEF TInv, TypeOK, RoomOK
  <2> QED
    BY <2>2, ProgramAssumption DEF TInv, TypeOK, SalesOK, IInv, BudgetOK, ProgramRow
<1>1. Idle \in Settling /\ Idle.at = "idle"
  BY DEF Idle, Settling
<1>2. CASE SettleBegins
  <2>1. PICK order \in SetToSeqs(Earners) :
           \E S \in SUBSET DOMAIN order :
              settlement' = [settlement EXCEPT !.at = "checked",
                                !.destinations = {order[n] : n \in S}]
    BY <1>2 DEF SettleBegins
  <2>2. order \in Seq(Owners)
    <3>1. PICK r : r = Settles(order)
      OBVIOUS
    <3> QED
      BY <1>0, <2>1, <3>1, SettlesIs
  <2>3. PICK S \in SUBSET DOMAIN order :
              settlement' = [settlement EXCEPT !.at = "checked",
                                !.destinations = {order[n] : n \in S}]
    BY <2>1
  <2>4. {order[n] : n \in S} \subseteq Owners
    BY <2>2
  <2>5. settlement' \in Settling /\ settlement'.at = "checked"
    BY <1>0, <2>3, <2>4 DEF Settling
  <2> QED
    BY <1>0, <1>2, <2>5, SettlingType DEF SettleBegins, SentOK
<1>3. CASE SettleLoads
  <2>1. PICK order, r :
           /\ order \in SetToSeqs(Earners) /\ r = Settles(order)
           /\ settlement' = [settlement EXCEPT
                 !.at = "paying",
                 !.loaded = {n \in DOMAIN sales : sales[n].status = "pending"},
                 !.due = [n \in DOMAIN order |->
                            [owner |-> order[n], net |-> r.net_to_owner[n]]],
                 !.refund = r.refund_to_business,
                 !.released = r.total_commission_capped]
    BY <1>3 DEF SettleLoads, Unused
  <2>2. /\ order \in Seq(Owners) /\ Len(order) \in Nat /\ DOMAIN order = 1..Len(order)
        /\ r.total_commission_capped \in 0..program.pool_max_budget
        /\ r.refund_to_business =
              Greater(0, ChargeOf(program.pool_max_budget, program.terms.funding_fee_percent)
                    - ChargeOf(r.total_commission_capped, program.terms.funding_fee_percent))
        /\ \A n \in DOMAIN order : r.net_to_owner[n] \in 0..Earned(order[n])
    BY <1>0, <2>1, SettlesIs
  <2>3. r.total_commission_capped \in Nat /\ program.pool_max_budget \in Nat
        /\ program.terms.funding_fee_percent \in 0..100
    BY <1>0, <2>2, ProgramAssumption DEF BudgetOK, RowOK, Terms
  <2>4. r.refund_to_business \in Nat
    BY <2>2, <2>3, RefundIsNat
  <2>5. \A n \in DOMAIN order : r.net_to_owner[n] \in Nat /\ order[n] \in Owners
    BY <1>0, <2>2, EarnedIsNat
  <2> DEFINE due == [n \in DOMAIN order |-> [owner |-> order[n], net |-> r.net_to_owner[n]]]
             loaded == {n \in DOMAIN sales : sales[n].status = "pending"}
  <2>6. due \in Seq(Payout)
    <3>1. \A n \in DOMAIN order : [owner |-> order[n], net |-> r.net_to_owner[n]] \in Payout
      BY <2>5 DEF Payout
    <3> QED
      BY <2>2, <3>1
  <2>7. loaded \in SUBSET (1..MaxSales)
    BY <1>0
  <2>8. settlement' = [settlement EXCEPT !.at = "paying", !.loaded = loaded, !.due = due,
                          !.refund = r.refund_to_business, !.released = r.total_commission_capped]
    BY <2>1
  <2> HIDE DEF due, loaded
  <2>9. settlement' \in Settling /\ settlement'.at = "paying"
    BY <1>0, <2>3, <2>4, <2>6, <2>7, <2>8 DEF Settling
  <2> QED
    BY <1>0, <1>3, <2>9, SettlingType DEF SettleLoads, SentOK
<1>4. ASSUME settlement.due # <<>>
      PROVE  /\ Payee \in Payout /\ Payee.owner \in Owners /\ Payee.net \in Nat
             /\ Tail(settlement.due) \in Seq(Payout)
  <2>1. settlement.due \in Seq(Payout)
    BY <1>0 DEF Settling
  <2>2. Payee \in Payout /\ Tail(settlement.due) \in Seq(Payout)
    BY <1>4, <2>1 DEF Payee
  <2> QED
    BY <2>2 DEF Payout
<1>5. CASE NothingDue
  <2>1. settlement' = [settlement EXCEPT !.due = Tail(settlement.due)] /\ settlement.at = "paying"
        /\ settlement.due # <<>> /\ sales' = SalesSettled(Payee.owner)
    BY <1>5 DEF NothingDue, Paying
  <2>2. settlement' \in Settling /\ settlement'.at = "paying"
    BY <1>0, <1>4, <2>1 DEF Settling
  <2> QED
    BY <1>0, <1>5, <2>1, <2>2, SettledRows, SettlingType DEF NothingDue, SentOK
<1>6. CASE OwnerFails
  <2>1. settlement' = [settlement EXCEPT !.due = Tail(settlement.due)] /\ settlement.at = "paying"
        /\ settlement.due # <<>>
    BY <1>6 DEF OwnerFails, Paying
  <2>2. settlement' \in Settling /\ settlement'.at = "paying"
    BY <1>0, <1>4, <2>1 DEF Settling
  <2> QED
    BY <1>0, <1>6, <2>2, SettlingType DEF OwnerFails, SentOK
<1>7. CASE TransferToOwner
  <2>1. settlement' = [settlement EXCEPT !.at = "sent"] /\ settlement.due # <<>>
        /\ transfers' = Append(transfers, Payee)
    BY <1>7 DEF TransferToOwner, Paying
  <2>2. settlement' \in Settling /\ settlement'.due # <<>>
    BY <1>0, <2>1 DEF Settling
  <2>3. transfers' \in Seq(Payout)
    BY <1>0, <1>4, <2>1
  <2> QED
    BY <1>0, <1>7, <2>2, <2>3, SettlingType DEF TransferToOwner, SentOK
<1>8. CASE CommitOwner
  <2>1. settlement' = [settlement EXCEPT !.at = "paying", !.due = Tail(settlement.due)]
        /\ settlement.due # <<>> /\ sales' = SalesSettled(Payee.owner)
        /\ paid_net' = [paid_net EXCEPT ![Payee.owner] = Payee.net]
    BY <1>8 DEF CommitOwner, TInv, SentOK
  <2>2. settlement' \in Settling /\ settlement'.at = "paying"
    BY <1>0, <1>4, <2>1 DEF Settling
  <2>3. paid_net' \in [Owners -> {None} \cup Nat]
    BY <1>0, <1>4, <2>1
  <2> QED
    BY <1>0, <1>8, <2>1, <2>2, <2>3, SettledRows, SettlingType DEF CommitOwner, SentOK
<1>9. ASSUME NEW made \in BOOLEAN, RefundUnused(made) PROVE TInv'
  <2>1. settlement' = [settlement EXCEPT !.at = "finishing", !.refund_made = made]
        /\ refunded' = IF made THEN refunded + settlement.refund ELSE refunded
    BY <1>9 DEF RefundUnused
  <2>2. settlement' \in Settling /\ settlement'.at = "finishing"
    BY <1>0, <2>1 DEF Settling
  <2>3. refunded' \in Nat
    <3>1. settlement.refund \in Nat
      BY <1>0 DEF Settling
    <3> QED
      BY <1>0, <2>1, <3>1
  <2> QED
    BY <1>0, <1>9, <2>2, <2>3, SettlingType DEF RefundUnused, SentOK
<1>10. CASE SettleFinishes
  <2>1. settlement.released \in Nat /\ settlement.refund \in Nat
    BY <1>0 DEF Settling
  <2>2. program' = [program EXCEPT
          !.pool_released_amount = settlement.released,
          !.pool_refunded_amount = IF settlement.refund_made THEN settlement.refund ELSE 0,
          !.status = "settled"]
    BY <1>10 DEF SettleFinishes
  <2>3. (IF settlement.refund_made THEN settlement.refund ELSE 0) \in Nat
    BY <2>1
  <2>4. program' \in ProgramRow
    BY <1>0, <2>1, <2>2, <2>3 DEF ProgramRow
  <2> QED
    BY <1>0, <1>1, <1>10, <2>4, SettlingType DEF SettleFinishes, SentOK
<1>11. CASE SettleDies
  BY <1>0, <1>1, <1>11, SettlingType DEF SettleDies, SentOK
<1> QED
  BY <1>2, <1>3, <1>5, <1>6, <1>7, <1>8, <1>9, <1>10, <1>11 DEF Settlement

LEMMA InitTypes == Init => TInv
<1> SUFFICES ASSUME Init PROVE TInv
  OBVIOUS
<1>1. program \in ProgramRow
  <2>1. PICK t \in Programs :
           program = [ terms |-> t, pool_max_budget |-> t.pool_max_budget,
                       pool_committed_amount |-> 0, pool_released_amount |-> None,
                       pool_refunded_amount |-> None, host |-> None, status |-> "draft" ]
    BY DEF Init
  <2>2. t.pool_max_budget \in Nat
    BY ProgramAssumption DEF Terms
  <2> QED
    BY <2>1, <2>2 DEF ProgramRow
<1>2. settlement \in Settling /\ SentOK
  BY DEF Init, Idle, Settling, SentOK
<1>3. sales \in Seq(Sale) /\ transfers \in Seq(Payout) /\ Len(sales) = 0
  BY DEF Init
<1>4. TypeOK
  BY <1>1, <1>2, <1>3 DEF Init, TypeOK, Payments
<1>5. RoomOK
  <2>1. Adding = {}
    BY DEF Init, Adding, Checked
  <2> QED
    BY <1>3, <2>1, FS_EmptySet, ProgramAssumption DEF RoomOK
<1> QED
  BY <1>2, <1>4, <1>5 DEF TInv

LEMMA StepTypes == ASSUME IInv, TInv, [Next]_vars PROVE TInv'
<1>1. CASE Next
  BY <1>1, BusinessType, ConfirmationsType, MembershipType, StoreType, SettlementType DEF Next
<1>2. CASE UNCHANGED vars
  <2>1. TypeOK'
    BY <1>2 DEF vars, stripeVars, TInv, TypeOK
  <2>2. RoomOK' /\ SentOK'
    BY <1>2 DEF vars, TInv, RoomOK, SentOK, Adding, Checked
  <2> QED
    BY <2>1, <2>2 DEF TInv
<1> QED
  BY <1>1, <1>2

\* The row, the table, the reports in hand, the settlement in progress and the
\* money at Stripe have their types in every state; every amount is a whole
\* number of pence, and the table never outgrows its bound.
THEOREM ProgramTypes == Spec => []TypeOK
<1>1. TInv => TypeOK
  BY DEF TInv
<1>2. IInv /\ TInv /\ [Next]_vars => TInv'
  BY StepTypes
<1> QED
  BY <1>1, <1>2, InitTypes, ProgramInvariance, PTL DEF Spec

-----------------------------------------------------------------------------
NetSum(rows, S) == MapThenSumSet(LAMBDA n : rows[n].net, S)
LEMMA NetSumIs ==
    ASSUME NEW rows, NEW S, IsFiniteSet(S), NEW f,
           \A n \in S : f[n] \in Nat /\ rows[n].net = f[n]
    PROVE  NetSum(rows, S) = SumOver(f, S)
<1> DEFINE SumsRows(iter) ==
             iter = [s \in SUBSET S |-> IF s = {} THEN 0
                       ELSE rows[Pick(s)].net + iter[s \ {Pick(s)}]]
           I == CHOOSE iter : SumsRows(iter)
<1>1. \A iter : SumsRows(iter) <=> Sums(f, S, iter)
  <2> TAKE iter
  <2>1. \A s \in SUBSET S : s # {} => rows[Pick(s)].net = f[Pick(s)]
    BY PickIn
  <2>2. [s \in SUBSET S |-> IF s = {} THEN 0 ELSE rows[Pick(s)].net + iter[s \ {Pick(s)}]]
        = [s \in SUBSET S |-> IF s = {} THEN 0 ELSE f[Pick(s)] + iter[s \ {Pick(s)}]]
    BY <2>1
  <2> QED
    BY <2>2 DEF Sums
<1>2. NetSum(rows, S) = I[S]
  BY DEF NetSum, MapThenSumSet, MapThenFoldSet, Pick
<1> HIDE DEF SumsRows
<1>3. \E iter : SumsRows(iter)
  BY <1>1, SumsAreOne
<1>4. Sums(f, S, I)
  BY <1>1, <1>3
<1> HIDE DEF I
<1> QED
  BY <1>2, <1>4, SumsAreOne

\* Payouts in a row.

Nets(rows) == [n \in DOMAIN rows |-> rows[n].net]
LEMMA NetsSum ==
    ASSUME NEW rows \in Seq(Payout), NEW S \in SUBSET DOMAIN rows
    PROVE  /\ IsFiniteSet(S) /\ \A n \in S : Nets(rows)[n] \in Nat
           /\ NetSum(rows, S) = SumOver(Nets(rows), S) /\ NetSum(rows, S) \in Nat
<1>1. DOMAIN rows = 1..Len(rows) /\ Len(rows) \in Nat
  OBVIOUS
<1>2. IsFiniteSet(S)
  <2>1. IsFiniteSet(1..Len(rows)) /\ S \in SUBSET (1..Len(rows))
    BY <1>1, FS_Interval
  <2> QED
    BY <2>1, FS_Subset
<1>3. \A n \in S : rows[n] \in Payout
  OBVIOUS
<1>4. \A n \in S : Nets(rows)[n] \in Nat /\ rows[n].net = Nets(rows)[n]
  BY <1>3 DEF Nets, Payout
<1> QED
  BY <1>2, <1>4, NetSumIs, SumIsNat

LEMMA DrawnIs ==
    /\ Drawn = NetSum(transfers, DOMAIN transfers)
    /\ Drawn' = NetSum(transfers', DOMAIN transfers')
BY DEF Drawn, NetSum, MapThenSumSet, MapThenFoldSet

LEMMA AppendSum ==
    ASSUME NEW rows \in Seq(Payout), NEW p \in Payout, NEW more, more = Append(rows, p)
    PROVE  NetSum(more, DOMAIN more) = NetSum(rows, DOMAIN rows) + p.net
<1>1. /\ more \in Seq(Payout) /\ Len(rows) \in Nat /\ Len(rows) + 1 \in DOMAIN more
      /\ DOMAIN more \ {Len(rows) + 1} = DOMAIN rows /\ more[Len(rows) + 1] = p
      /\ \A n \in DOMAIN rows : more[n] = rows[n]
  <2>1. /\ more \in Seq(Payout) /\ Len(rows) \in Nat /\ Len(more) = Len(rows) + 1
        /\ DOMAIN more = 1..Len(more) /\ DOMAIN rows = 1..Len(rows)
    OBVIOUS
  <2>2. more[Len(rows) + 1] = p /\ \A n \in DOMAIN rows : more[n] = rows[n]
    OBVIOUS
  <2> QED
    BY <2>1, <2>2
<1> DEFINE last == Len(rows) + 1
           D == DOMAIN more
           f == Nets(more)
<1>2. IsFiniteSet(D) /\ (\A n \in D : f[n] \in Nat) /\ NetSum(more, D) = SumOver(f, D)
  BY <1>1, NetsSum
<1>3. last \in D /\ D \ {last} = DOMAIN rows /\ f[last] = p.net
  BY <1>1 DEF Nets
<1>4. \A n \in DOMAIN rows : Nets(rows)[n] = f[n]
  BY <1>1 DEF Nets
<1>5. /\ IsFiniteSet(DOMAIN rows) /\ \A n \in DOMAIN rows : Nets(rows)[n] \in Nat
      /\ NetSum(rows, DOMAIN rows) = SumOver(Nets(rows), DOMAIN rows)
      /\ NetSum(rows, DOMAIN rows) \in Nat
  BY NetsSum
<1> HIDE DEF last, D, f
<1>6. SumOver(f, D) = f[last] + SumOver(f, D \ {last})
  BY <1>2, <1>3, SumStep
<1>7. SumOver(f, DOMAIN rows) = SumOver(Nets(rows), DOMAIN rows)
  <2> DEFINE R == DOMAIN rows
             k == Nets(rows)
  <2>1. IsFiniteSet(R) /\ \A n \in R : k[n] \in Nat /\ f[n] = k[n]
    BY <1>4, <1>5
  <2> HIDE DEF R, k
  <2>2. SumOver(k, R) = SumOver(f, R)
    BY <2>1, SumSame
  <2> QED
    BY <2>2 DEF R, k
<1>8. p.net \in Nat
  BY DEF Payout
<1> QED
  BY <1>2, <1>3, <1>5, <1>6, <1>7, <1>8 DEF D

LEMMA TailSum ==
    ASSUME NEW rows \in Seq(Payout), rows # <<>>
    PROVE  /\ NetSum(rows, DOMAIN rows) = Head(rows).net + NetSum(rows, DOMAIN rows \ {1})
           /\ NetSum(Tail(rows), DOMAIN Tail(rows)) = NetSum(rows, DOMAIN rows \ {1})
<1> DEFINE D == DOMAIN rows
           R == DOMAIN rows \ {1}
           rest == Tail(rows)
           T == DOMAIN Tail(rows)
           f == Nets(rows)
           k == Nets(Tail(rows))
           g == [n \in T |-> n + 1]
<1>1. /\ Len(rows) \in Nat \ {0} /\ D = 1..Len(rows) /\ rest \in Seq(Payout)
      /\ T = 1..(Len(rows) - 1) /\ Head(rows) = rows[1]
      /\ \A n \in T : n + 1 \in D /\ rest[n] = rows[n + 1]
  OBVIOUS
<1>2. /\ IsFiniteSet(D) /\ \A n \in D : f[n] \in Nat
      /\ NetSum(rows, D) = SumOver(f, D) /\ NetSum(rows, R) = SumOver(f, R)
  BY NetsSum
<1>3. IsFiniteSet(T) /\ (\A n \in T : k[n] \in Nat) /\ NetSum(rest, T) = SumOver(k, T)
  BY <1>1, NetsSum
<1>4. \A n \in T : f[g[n]] = k[n]
  BY <1>1 DEF Nets
<1>5. \A m, n \in T : g[m] = g[n] => m = n
  BY <1>1
<1>6. {g[n] : n \in T} = R
  <2>1. \A n \in R : n - 1 \in T /\ g[n - 1] = n
    BY <1>1
  <2>2. \A n \in T : g[n] \in R
    BY <1>1
  <2> HIDE DEF g, R, T
  <2> QED
    BY <2>1, <2>2
<1>7. 1 \in D /\ f[1] = Head(rows).net /\ R = D \ {1}
  BY <1>1 DEF Nets
<1> HIDE DEF D, R, T, f, k, g, rest
<1>8. SumOver(f, D) = f[1] + SumOver(f, R)
  BY <1>2, <1>7, SumStep
<1>9. SumOver(k, T) = SumOver(f, R)
  <2>1. SumOver(k, T) = SumOver(f, {g[n] : n \in T})
    BY <1>3, <1>4, <1>5, SumMoved
  <2> QED
    BY <1>6, <2>1
<1>10. NetSum(rows, D) = Head(rows).net + NetSum(rows, R) /\ NetSum(rest, T) = NetSum(rows, R)
  BY <1>2, <1>3, <1>7, <1>8, <1>9
<1> QED
  BY <1>10 DEF D, R, T, rest

-----------------------------------------------------------------------------
\* What was collected, and what may leave.

\* A pool of the first budget and some of the top-ups that were paid: two
\* confirmations that overlap may lose one.
PaidPool(budget) ==
    \E j \in 0..Cardinality(ToppedUp) :
       budget = program.terms.pool_max_budget + j * TopUpAmount
Read(c) == confirming[c] # None /\ confirming[c].budget # None
BudgetGrows ==
    /\ IsFiniteSet(ToppedUp)
    /\ recounted = {} =>
         /\ PaidPool(program.pool_max_budget)
         /\ \A c \in Confirmers : Read(c) => PaidPool(confirming[c].budget)
NothingYet ==
    settlement.at \in {"idle", "checked"} /\ program.status # "settled" =>
       /\ transfers = <<>> /\ refunded = 0
       /\ \A o \in Owners : paid_net[o] = None
RowsOf(rows, S, o) == {n \in S : rows[n].owner = o}
Unpaid == {n \in DOMAIN settlement.due : settlement.at = "sent" => n # 1}
DueIsEarned ==
    /\ settlement.loaded \subseteq DOMAIN sales
    /\ \A m, n \in DOMAIN settlement.due :
          m # n => settlement.due[m].owner # settlement.due[n].owner
    /\ \A n \in DOMAIN settlement.due :
          settlement.due[n].net <=
             CommissionSum(sales, RowsOf(sales, settlement.loaded, settlement.due[n].owner))
DueIsUnpaid ==
    /\ refunded = 0
    /\ \A n \in Unpaid : TransfersTo(settlement.due[n].owner) = {}
DueIsPaidFor ==
    recounted = {} /\ settlement.refund <= FirstCharge =>
       Drawn + NetSum(settlement.due, Unpaid) + settlement.refund <= Collected
DueOK == settlement.at \in {"paying", "sent"} => DueIsEarned /\ DueIsUnpaid /\ DueIsPaidFor
PaidOnce ==
    \A o \in Owners : /\ Cardinality(TransfersTo(o)) <= 1
                      /\ paid_net[o] # None => paid_net[o] <= DecidedFor(o)
WithinMeans ==
    /\ Drawn <= FirstCharge
    /\ recounted = {} => Drawn + refunded <= Collected
OInv == ~died => NothingYet /\ DueOK /\ PaidOnce /\ WithinMeans

-----------------------------------------------------------------------------
\* What every step keeps.

RowsKept ==
    /\ DOMAIN sales \subseteq DOMAIN sales'
    /\ \A n \in DOMAIN sales :
          /\ sales'[n].owner = sales[n].owner /\ sales'[n].commission = sales[n].commission
          /\ sales[n].status # "pending" => sales'[n].status # "pending"

LEMMA StepKeepsRows ==
    ASSUME IInv, [Next]_vars
    PROVE  RowsKept
<1>0. SalesOK /\ DOMAIN sales = 1..Len(sales) /\ Len(sales) \in Nat
      /\ \A n \in DOMAIN sales : sales[n] \in Sale
  BY RowsAreFinite DEF IInv
<1>1. ASSUME UNCHANGED sales PROVE RowsKept
  BY <1>1 DEF RowsKept
<1>2. ASSUME NEW o, sales' = SalesSettled(o) PROVE RowsKept
  BY <1>0, <1>2 DEF RowsKept, SalesSettled, Sale
<1>3. CASE Business
  BY <1>1, <1>3 DEF Business, FundProgram, TopUpProgram, CustomerPays, ConfirmTracking
<1>4. CASE Membership
  BY <1>1, <1>4 DEF Membership, Apply, ApproveApplication, RejectApplication, RemovePartner, Becomes
<1>5. CASE HoldingPeriodEnds
  BY <1>1, <1>5 DEF HoldingPeriodEnds
<1>6. ASSUME NEW h \in Handlers, SaleCommits(h) PROVE RowsKept
  BY <1>0, <1>6 DEF SaleCommits, RowsKept
<1>7. ASSUME NEW h \in Handlers, ReversalCommits(h) PROVE RowsKept
  <2>1. sales' = [sales EXCEPT ![tracking[h].reverses].status = "reversed"]
    BY <1>7 DEF ReversalCommits
  <2> QED
    BY <1>0, <2>1 DEF RowsKept, Sale
<1>8. CASE Store
  BY <1>1, <1>6, <1>7, <1>8
     DEF Store, HookArrives, HookIgnores, SaleChecked, ReversalChecked, Holds
<1>9. CASE Settlement
  BY <1>1, <1>2, <1>9 DEF Settlement, SettleBegins, SettleLoads, NothingDue, OwnerFails,
     TransferToOwner, CommitOwner, RefundUnused, SettleFinishes, SettleDies
<1>10. CASE Confirmations
  BY <1>1, <1>10 DEF Confirmations, ConfirmBegins, StripeConfirms, ConfirmFails, ConfirmCommits,
     Acknowledge
<1>11. CASE UNCHANGED vars
  BY <1>1, <1>11 DEF vars
<1> QED
  BY <1>3, <1>4, <1>5, <1>8, <1>9, <1>10, <1>11 DEF Next

LEMMA SumsKept ==
    ASSUME SalesOK, SalesOK', RowsKept, NEW S \in SUBSET DOMAIN sales
    PROVE  CommissionSum(sales', S) = CommissionSum(sales, S)
<1> DEFINE f == CommissionsOf(sales)
           k == CommissionsOf(sales')
<1>1. S \in SUBSET DOMAIN sales' /\ \A n \in S : k[n] = f[n]
  BY DEF RowsKept, CommissionsOf
<1>2. IsFiniteSet(S) /\ (\A n \in S : f[n] \in Nat) /\ CommissionSum(sales, S) = SumOver(f, S)
  BY RowsSumOf DEF SalesOK
<1>3. CommissionSum(sales', S) = SumOver(k, S)
  BY <1>1, RowsSumOf DEF SalesOK
<1> HIDE DEF f, k
<1>4. SumOver(f, S) = SumOver(k, S)
  BY <1>1, <1>2, SumSame
<1> QED
  BY <1>2, <1>3, <1>4

\* What is decided for an owner only grows; more rows come to at least as much.
LEMMA SumOfMore ==
    ASSUME NEW rows \in Seq(Sale), NEW T \in SUBSET DOMAIN rows, NEW S \in SUBSET T
    PROVE  CommissionSum(rows, S) <= CommissionSum(rows, T)
<1> DEFINE f == CommissionsOf(rows)
<1>1. IsFiniteSet(T) /\ (\A n \in T : f[n] \in Nat) /\ CommissionSum(rows, T) = SumOver(f, T)
      /\ CommissionSum(rows, S) = SumOver(f, S)
  BY RowsSumOf
<1> HIDE DEF f
<1> QED
  BY <1>1, SumGrows

DecidedOf(rows, o) == {n \in DOMAIN rows : rows[n].owner = o /\ rows[n].status # "pending"}
LEMMA DecidedGrows ==
    ASSUME SalesOK, SalesOK', RowsKept, NEW o
    PROVE  DecidedFor(o) \in Nat /\ DecidedFor(o)' \in Nat /\ DecidedFor(o) <= DecidedFor(o)'
<1> DEFINE S == DecidedOf(sales, o)
           T == DecidedOf(sales', o)
<1>1. DecidedFor(o) = CommissionSum(sales, S) /\ DecidedFor(o)' = CommissionSum(sales', T)
  BY DecidedIs DEF DecidedOf
<1>2. S \in SUBSET DOMAIN sales /\ S \in SUBSET T /\ T \in SUBSET DOMAIN sales'
  BY DEF RowsKept, DecidedOf
<1>3. sales \in Seq(Sale) /\ sales' \in Seq(Sale)
  BY DEF SalesOK
<1> HIDE DEF S, T
<1>4. CommissionSum(sales', S) = CommissionSum(sales, S)
  BY <1>2, SumsKept
<1>5. CommissionSum(sales', S) <= CommissionSum(sales', T)
  BY <1>2, <1>3, SumOfMore
<1>6. CommissionSum(sales, S) \in Nat /\ CommissionSum(sales', T) \in Nat
  BY <1>2, <1>3, RowsSumOf
<1> QED
  BY <1>1, <1>4, <1>5, <1>6

-----------------------------------------------------------------------------
\* What is collected.

LEMMA ChargesAre ==
    ASSUME RowOK
    PROVE  /\ program.terms.pool_max_budget \in Nat /\ TopUpAmount \in Nat
           /\ program.terms.funding_fee_percent \in 0..100
           /\ program.terms.payout_fee_percent \in 0..100
           /\ FirstCharge = ChargeOf(program.terms.pool_max_budget, program.terms.funding_fee_percent)
           /\ ChargeFor(TopUpAmount) = ChargeOf(TopUpAmount, program.terms.funding_fee_percent)
           /\ FirstCharge \in Nat /\ ChargeFor(TopUpAmount) \in Nat
<1>1. /\ program.terms.pool_max_budget \in Nat /\ TopUpAmount \in Nat
      /\ program.terms.funding_fee_percent \in 0..100
      /\ program.terms.payout_fee_percent \in 0..100
  BY ProgramAssumption DEF RowOK, Terms
<1>2. /\ FirstCharge = ChargeOf(program.terms.pool_max_budget, program.terms.funding_fee_percent)
      /\ ChargeFor(TopUpAmount) = ChargeOf(TopUpAmount, program.terms.funding_fee_percent)
  BY DealMoneyIs DEF FirstCharge, ChargeFor
<1>3. FirstCharge \in Nat /\ ChargeFor(TopUpAmount) \in Nat
  BY <1>1, <1>2, RefundIsNat
<1> QED
  BY <1>1, <1>2, <1>3

\* Either nothing of the money that came in changes, or a top-up came in.
OneMore == \E t \in TopUps : t \notin ToppedUp /\ ToppedUp' = ToppedUp \cup {t}
BudgetMoves ==
    \/ program'.pool_max_budget = program.pool_max_budget
    \/ /\ OneMore
       /\ \E c \in Confirmers :
             Read(c) /\ program'.pool_max_budget = confirming[c].budget + TopUpAmount
ReadingMoves ==
    \A c \in Confirmers : Read(c)' =>
       \/ Read(c) /\ confirming'[c].budget = confirming[c].budget
       \/ confirming'[c].budget = program.pool_max_budget
CameIn ==
    /\ program'.terms = program.terms
    /\ program.status = "settled" => program'.status = "settled"
    /\ recounted \subseteq recounted'
    /\ ToppedUp' = ToppedUp \/ OneMore
    /\ recounted' = {} => BudgetMoves
    /\ ReadingMoves

\* The ways a confirmation goes.
LEMMA ConfirmationsBringIn ==
    ASSUME TInv, IInv, Confirmations
    PROVE  CameIn
<1>0. /\ program \in ProgramRow /\ topup \in [TopUps -> {"none", "pending", "funded"}]
      /\ confirming \in [Confirmers -> {None} \cup Confirmation]
  BY DEF TInv, TypeOK
<1>1. ASSUME UNCHANGED <<program, topup, recounted>>, ReadingMoves PROVE CameIn
  BY <1>1 DEF CameIn, ToppedUp, BudgetMoves
<1>2. ASSUME NEW c \in Confirmers, NEW p \in Payments, ConfirmBegins(c, p) PROVE CameIn
  <2>1. confirming' = [confirming EXCEPT ![c] = [payment |-> p, budget |-> None]]
    BY <1>2 DEF ConfirmBegins
  <2>2. ReadingMoves
    BY <1>0, <2>1 DEF ReadingMoves, Read
  <2> QED
    BY <1>1, <1>2, <2>2 DEF ConfirmBegins
<1>3. ASSUME NEW c \in Confirmers, StripeConfirms(c) PROVE CameIn
  <2>1. /\ confirming[c] \in Confirmation
        /\ confirming' = [confirming EXCEPT
                            ![c] = [confirming[c] EXCEPT !.budget = program.pool_max_budget]]
    BY <1>0, <1>3 DEF StripeConfirms
  <2>2. /\ confirming'[c].budget = program.pool_max_budget
        /\ \A d \in Confirmers : d # c => confirming'[d] = confirming[d]
    BY <1>0, <2>1 DEF Confirmation
  <2>3. ReadingMoves
    BY <2>2 DEF ReadingMoves, Read
  <2> QED
    BY <1>1, <1>3, <2>3 DEF StripeConfirms
<1>4. ASSUME NEW c \in Confirmers, confirming' = [confirming EXCEPT ![c] = None]
      PROVE  ReadingMoves
  BY <1>0, <1>4 DEF ReadingMoves, Read
<1>5. ASSUME NEW c \in Confirmers, ConfirmFails(c) PROVE CameIn
  BY <1>1, <1>4, <1>5 DEF ConfirmFails
<1>6. ASSUME NEW c \in Confirmers, NEW marked \in BOOLEAN, ConfirmCommits(c, marked)
      PROVE  CameIn
  <2> DEFINE p == confirming[c].payment
  <2>1. /\ ReadingMoves /\ Read(c) /\ recounted \subseteq recounted'
        /\ recounted' = {} => Awaited(p)
    BY <1>4, <1>6 DEF ConfirmCommits, Read
  <2>2. CASE p = "funding"
    <3>1. program' = [program EXCEPT !.status = "funded"] /\ UNCHANGED topup
      BY <1>6, <2>2, CommitWrites
    <3>2. program.status # "settled"
      BY <2>1, <2>2 DEF Read, IInv, FundingIsOver
    <3>3. /\ program'.terms = program.terms
          /\ program'.pool_max_budget = program.pool_max_budget
      BY <1>0, <3>1 DEF ProgramRow
    <3> QED
      BY <2>1, <3>1, <3>2, <3>3 DEF CameIn, BudgetMoves, ToppedUp
  <2>3. CASE p # "funding"
    <3>1. /\ p \in TopUps /\ topup' = [topup EXCEPT ![p] = "funded"]
          /\ program' = [program EXCEPT !.pool_max_budget = confirming[c].budget + TopUpAmount]
      BY <1>6, <2>3, CommitWrites
    <3>2. ToppedUp' = ToppedUp \cup {p}
      BY <1>0, <3>1 DEF ToppedUp
    <3>3. ToppedUp' = ToppedUp \/ OneMore
      BY <3>1, <3>2 DEF OneMore
    <3>4. Awaited(p) => OneMore
      <4>1. Awaited(p) => p \notin ToppedUp
        BY <2>3 DEF Awaited, ToppedUp
      <4> QED
        BY <3>1, <3>2, <4>1 DEF OneMore
    <3>5. /\ program'.terms = program.terms /\ program'.status = program.status
          /\ program'.pool_max_budget = confirming[c].budget + TopUpAmount
      BY <1>0, <3>1 DEF ProgramRow
    <3> QED
      BY <2>1, <3>3, <3>4, <3>5 DEF CameIn, BudgetMoves
  <2> QED
    BY <2>2, <2>3
<1>7. ASSUME NEW p \in Payments, Acknowledge(p) PROVE CameIn
  <2>1. UNCHANGED <<program, topup, recounted, confirming>>
    BY <1>7 DEF Acknowledge, confirmVars
  <2> QED
    BY <1>1, <2>1 DEF ReadingMoves, Read
<1> QED
  BY <1>2, <1>3, <1>5, <1>6, <1>7 DEF Confirmations

LEMMA StepBringsIn ==
    ASSUME TInv, IInv, [Next]_vars
    PROVE  CameIn
<1>0. program \in ProgramRow /\ topup \in [TopUps -> {"none", "pending", "funded"}]
  BY DEF TInv, TypeOK
<1> DEFINE Rest == UNCHANGED <<topup, confirming, recounted>>
<1>1. ASSUME Rest, program'.terms = program.terms,
             program'.pool_max_budget = program.pool_max_budget,
             program.status = "settled" => program'.status = "settled"
      PROVE  CameIn
  BY <1>1 DEF CameIn, ToppedUp, BudgetMoves, ReadingMoves, Read
<1>2. ASSUME UNCHANGED program, Rest PROVE CameIn
  BY <1>1, <1>2
<1>3. ASSUME NEW read, NEW sum, Commits(read, sum), Rest PROVE CameIn
  <2>1. program' = [program EXCEPT !.pool_committed_amount =
                       IF sum = read THEN program.pool_committed_amount ELSE sum]
    BY <1>3 DEF Commits
  <2> QED
    BY <1>0, <1>1, <1>3, <2>1 DEF ProgramRow
<1>4. CASE FundProgram
  BY <1>0, <1>1, <1>4 DEF FundProgram, ProgramRow, confirmVars
<1>5. ASSUME NEW t \in TopUps, TopUpProgram(t) PROVE CameIn
  <2>1. topup' = [topup EXCEPT ![t] = "pending"] /\ topup[t] = "none"
        /\ UNCHANGED <<program, confirming, recounted>>
    BY <1>5 DEF TopUpProgram, confirmVars
  <2>2. ToppedUp' = ToppedUp
    BY <1>0, <2>1 DEF ToppedUp
  <2> QED
    BY <2>1, <2>2 DEF CameIn, BudgetMoves, ReadingMoves, Read
<1>6. ASSUME NEW host, ConfirmTracking(host) PROVE CameIn
  BY <1>0, <1>1, <1>6 DEF ConfirmTracking, ProgramRow, fundingVars, confirmVars
<1>7. CASE Business
  BY <1>2, <1>4, <1>5, <1>6, <1>7 DEF Business, CustomerPays, confirmVars
<1>8. CASE Membership
  BY <1>2, <1>8 DEF Membership, Apply, ApproveApplication, RejectApplication, RemovePartner,
     Becomes, fundingVars, confirmVars
<1>9. CASE HoldingPeriodEnds
  BY <1>2, <1>9 DEF HoldingPeriodEnds, fundingVars, confirmVars
<1>10. CASE Store
  BY <1>2, <1>3, <1>10 DEF Store, HookArrives, HookIgnores, SaleChecked, SaleCommits,
     ReversalChecked, ReversalCommits, Holds, Finishes, fundingVars, confirmVars
<1>11. CASE SettleFinishes
  <2>1. /\ program'.terms = program.terms /\ program'.status = "settled"
        /\ program'.pool_max_budget = program.pool_max_budget
    BY <1>0, <1>11 DEF SettleFinishes, ProgramRow
  <2> QED
    BY <1>1, <1>11, <2>1 DEF SettleFinishes, restVars, fundingVars, confirmVars
<1>12. CASE Settlement
  BY <1>2, <1>11, <1>12 DEF Settlement, SettleBegins, SettleLoads, NothingDue, OwnerFails,
     TransferToOwner, CommitOwner, RefundUnused, SettleDies, restVars, fundingVars, confirmVars
<1>13. CASE UNCHANGED vars
  BY <1>2, <1>13 DEF vars
<1> QED
  BY <1>7, <1>8, <1>9, <1>10, <1>12, <1>13, ConfirmationsBringIn DEF Next

\* A pool that was paid for still is when more has come in, and one more
\* top-up pays for a larger one.
LEMMA PoolsStayPaid ==
    ASSUME program'.terms = program.terms, IsFiniteSet(ToppedUp),
           ToppedUp' = ToppedUp \/ OneMore, NEW budget, PaidPool(budget),
           program.terms.pool_max_budget \in Nat, TopUpAmount \in Nat
    PROVE  PaidPool(budget)' /\ (OneMore => PaidPool(budget + TopUpAmount)')
<1> DEFINE a == Cardinality(ToppedUp)
           b == Cardinality(ToppedUp')
           P == program.terms.pool_max_budget
<1>1. PICK j \in 0..a : budget = P + j * TopUpAmount
  BY DEF PaidPool
<1>2. a \in Nat /\ (ToppedUp' = ToppedUp => b = a) /\ (OneMore => b = a + 1)
  <2>1. a \in Nat
    BY FS_CardinalityType
  <2>2. ASSUME NEW t, t \notin ToppedUp, ToppedUp' = ToppedUp \cup {t} PROVE b = a + 1
    BY <2>2, FS_AddElement
  <2> QED
    BY <2>1, <2>2 DEF OneMore
<1>3. ASSUME NEW i \in 0..b, NEW sum, sum = P + i * TopUpAmount PROVE PaidPool(sum)'
  BY <1>3 DEF PaidPool
<1> HIDE DEF a, b, P
<1>4. j \in 0..b /\ (OneMore => j + 1 \in 0..b)
  BY <1>1, <1>2
<1>5. (j + 1) * TopUpAmount = j * TopUpAmount + TopUpAmount /\ j * TopUpAmount \in Nat
  BY <1>1, <1>2
<1>6. budget + TopUpAmount = P + (j + 1) * TopUpAmount
  BY <1>1, <1>5 DEF P
<1> QED
  BY <1>1, <1>3, <1>4, <1>6

LEMMA CollectedGrows ==
    ASSUME TInv, IInv, IInv', CameIn, BudgetGrows
    PROVE  /\ BudgetGrows'
           /\ FirstCharge' = FirstCharge /\ FirstCharge \in Nat
           /\ Collected \in Nat /\ Collected' \in Nat /\ Collected <= Collected'
           /\ FirstCharge <= Collected
<1> DEFINE F == FirstCharge
           t == ChargeFor(TopUpAmount)
           a == Cardinality(ToppedUp)
           b == Cardinality(ToppedUp')
<1>1. F \in Nat /\ t \in Nat /\ TopUpAmount \in Nat /\ program.terms.pool_max_budget \in Nat
  BY ChargesAre DEF IInv
<1>2. FirstCharge' = F /\ ChargeFor(TopUpAmount)' = t
  BY DEF CameIn, FirstCharge, ChargeFor
<1>3. Collected = F + a * t /\ Collected' = F + b * t
  BY <1>2 DEF Collected
<1>4. IsFiniteSet(ToppedUp') /\ a \in Nat /\ b \in Nat /\ a <= b
  <2>1. IsFiniteSet(ToppedUp) /\ a \in Nat
    BY FS_CardinalityType DEF BudgetGrows
  <2>2. ASSUME NEW u, u \notin ToppedUp, ToppedUp' = ToppedUp \cup {u}
        PROVE  IsFiniteSet(ToppedUp') /\ b = a + 1
    BY <2>1, <2>2, FS_AddElement
  <2> QED
    BY <2>1, <2>2 DEF CameIn, OneMore
<1>5. a * t \in Nat /\ b * t \in Nat /\ a * t <= b * t
  BY <1>1, <1>4
<1>6. ASSUME recounted' = {}
      PROVE  /\ PaidPool(program.pool_max_budget)'
             /\ \A c \in Confirmers : Read(c)' => PaidPool(confirming[c].budget)'
  <2>1. recounted = {}
    BY <1>6 DEF CameIn
  <2>2. /\ PaidPool(program.pool_max_budget)
        /\ \A c \in Confirmers : Read(c) => PaidPool(confirming[c].budget)
    BY <2>1 DEF BudgetGrows
  <2>3. \A budget : PaidPool(budget) =>
           PaidPool(budget)' /\ (OneMore => PaidPool(budget + TopUpAmount)')
    BY <1>1, PoolsStayPaid DEF CameIn, BudgetGrows
  <2>4. PaidPool(program.pool_max_budget)'
    BY <1>6, <2>2, <2>3 DEF CameIn, BudgetMoves, PaidPool
  <2>5. \A c \in Confirmers : Read(c)' => PaidPool(confirming[c].budget)'
    BY <2>2, <2>3 DEF CameIn, ReadingMoves, PaidPool
  <2> QED
    BY <2>4, <2>5
<1>7. BudgetGrows'
  BY <1>4, <1>6 DEF BudgetGrows
<1> HIDE DEF F, t, a, b
<1> QED
  BY <1>1, <1>2, <1>3, <1>5, <1>7 DEF F

-----------------------------------------------------------------------------
\* The steps of the settlement.

\* What the steps keep, together.
AllKept ==
    /\ TInv /\ IInv /\ OInv /\ BudgetGrows
    /\ TInv' /\ IInv' /\ RowsKept /\ CameIn

LEMMA KeptIs ==
    ASSUME AllKept
    PROVE  /\ SalesOK /\ SalesOK'
           /\ BudgetGrows' /\ FirstCharge' = FirstCharge /\ FirstCharge \in Nat
           /\ Collected \in Nat /\ Collected' \in Nat /\ Collected <= Collected'
           /\ FirstCharge <= Collected
           /\ program.status = "settled" => program'.status = "settled"
           /\ recounted' = {} => recounted = {}
           /\ settlement \in Settling /\ settlement.due \in Seq(Payout)
           /\ settlement.refund \in Nat
           /\ transfers \in Seq(Payout) /\ refunded \in Nat /\ Drawn \in Nat
           /\ paid_net \in [Owners -> {None} \cup Nat] /\ None \notin Nat
<1>1. /\ BudgetGrows' /\ FirstCharge' = FirstCharge /\ FirstCharge \in Nat
      /\ Collected \in Nat /\ Collected' \in Nat /\ Collected <= Collected'
      /\ FirstCharge <= Collected
  BY CollectedGrows DEF AllKept
<1>2. /\ settlement \in Settling /\ transfers \in Seq(Payout) /\ refunded \in Nat
      /\ paid_net \in [Owners -> {None} \cup Nat] /\ None \notin Nat
  BY ProgramAssumption DEF AllKept, TInv, TypeOK
<1>3. settlement.due \in Seq(Payout) /\ settlement.refund \in Nat
  BY <1>2 DEF Settling
<1>4. Drawn \in Nat
  BY <1>2, DrawnIs, NetsSum
<1> QED
  BY <1>1, <1>2, <1>3, <1>4 DEF AllKept, CameIn, IInv

\* The rows a settlement loaded go on earning what they earned.
LEMMA EarnedStays ==
    ASSUME AllKept, DueIsEarned, settlement'.loaded = settlement.loaded
    PROVE  /\ settlement'.loaded \subseteq DOMAIN sales'
           /\ \A o : LET S == RowsOf(sales, settlement.loaded, o)
                     IN  /\ S \in SUBSET DOMAIN sales /\ RowsOf(sales', settlement'.loaded, o) = S
                         /\ CommissionSum(sales', S) = CommissionSum(sales, S)
<1>1. settlement.loaded \subseteq DOMAIN sales /\ DOMAIN sales \subseteq DOMAIN sales'
  BY DEF DueIsEarned, AllKept, RowsKept
<1> SUFFICES ASSUME NEW o
             PROVE  LET S == RowsOf(sales, settlement.loaded, o)
                    IN  /\ S \in SUBSET DOMAIN sales /\ RowsOf(sales', settlement'.loaded, o) = S
                        /\ CommissionSum(sales', S) = CommissionSum(sales, S)
  BY <1>1
<1> DEFINE S == RowsOf(sales, settlement.loaded, o)
<1>2. S \in SUBSET DOMAIN sales /\ RowsOf(sales', settlement'.loaded, o) = S
  BY <1>1 DEF RowsOf, AllKept, RowsKept
<1> HIDE DEF S
<1>3. CommissionSum(sales', S) = CommissionSum(sales, S)
  BY <1>2, KeptIs, SumsKept DEF AllKept
<1> QED
  BY <1>2, <1>3 DEF S

\* A step that leaves the settlement and the money alone.
LEMMA MoneyRests ==
    ASSUME AllKept, UNCHANGED <<settlement, paid_net, transfers, refunded, died>>
    PROVE  OInv'
<1> SUFFICES ASSUME ~died PROVE NothingYet' /\ DueOK' /\ PaidOnce' /\ WithinMeans'
  BY DEF OInv
<1>0. NothingYet /\ DueOK /\ PaidOnce /\ WithinMeans
  BY DEF OInv, AllKept
<1>1. Drawn' = Drawn /\ Unpaid' = Unpaid /\ \A o : TransfersTo(o)' = TransfersTo(o)
  BY DrawnIs DEF Unpaid, TransfersTo
<1>2. NothingYet'
  BY <1>0, KeptIs DEF NothingYet
<1>3. WithinMeans'
  BY <1>0, <1>1, KeptIs DEF WithinMeans
<1>4. PaidOnce'
  <2> SUFFICES ASSUME NEW o \in Owners
               PROVE  /\ Cardinality(TransfersTo(o)') <= 1
                      /\ paid_net[o] # None => paid_net[o] <= DecidedFor(o)'
    BY DEF PaidOnce
  <2>1. DecidedFor(o) \in Nat /\ DecidedFor(o)' \in Nat /\ DecidedFor(o) <= DecidedFor(o)'
    BY KeptIs, DecidedGrows DEF AllKept
  <2>2. paid_net[o] \in {None} \cup Nat
    BY KeptIs
  <2> QED
    BY <1>0, <1>1, <2>1, <2>2 DEF PaidOnce
<1>5. DueOK'
  <2> SUFFICES ASSUME settlement.at \in {"paying", "sent"}
               PROVE  DueIsEarned' /\ DueIsUnpaid' /\ DueIsPaidFor'
    BY DEF DueOK
  <2>0. DueIsEarned /\ DueIsUnpaid /\ DueIsPaidFor
    BY <1>0 DEF DueOK
  <2>1. DueIsEarned'
    BY <2>0, EarnedStays DEF DueIsEarned
  <2>2. DueIsUnpaid'
    BY <1>1, <2>0 DEF DueIsUnpaid
  <2>3. DueIsPaidFor'
    <3>1. Unpaid \in SUBSET DOMAIN settlement.due
      BY DEF Unpaid
    <3>2. NetSum(settlement.due, Unpaid) \in Nat
      BY <3>1, KeptIs, NetsSum
    <3>3. NetSum(settlement.due, Unpaid)' = NetSum(settlement.due, Unpaid)
      BY <1>1
    <3> QED
      BY <1>1, <2>0, <3>2, <3>3, KeptIs DEF DueIsPaidFor
  <2> QED
    BY <2>1, <2>2, <2>3
<1> QED
  BY <1>2, <1>3, <1>4, <1>5

LEMMA MeansRest ==
    ASSUME AllKept, ~died, UNCHANGED <<transfers, refunded>>
    PROVE  WithinMeans'
<1>1. WithinMeans /\ Drawn' = Drawn
  BY DrawnIs DEF OInv, AllKept
<1> QED
  BY <1>1, KeptIs DEF WithinMeans

LEMMA PaidRests ==
    ASSUME AllKept, ~died, NEW o \in Owners
    PROVE  /\ TransfersTo(o)' = TransfersTo(o) => Cardinality(TransfersTo(o)') <= 1
           /\ paid_net'[o] = paid_net[o] => (paid_net'[o] # None => paid_net'[o] <= DecidedFor(o)')
<1>1. PaidOnce
  BY DEF AllKept, OInv
<1>2. DecidedFor(o) \in Nat /\ DecidedFor(o)' \in Nat /\ DecidedFor(o) <= DecidedFor(o)'
  BY KeptIs, DecidedGrows DEF AllKept
<1>3. paid_net[o] \in {None} \cup Nat
  BY KeptIs
<1> QED
  BY <1>1, <1>2, <1>3 DEF PaidOnce

LEMMA PaidRest ==
    ASSUME AllKept, ~died, UNCHANGED <<transfers, paid_net>>
    PROVE  PaidOnce'
<1>1. \A o : TransfersTo(o)' = TransfersTo(o)
  BY DEF TransfersTo
<1> QED
  BY <1>1, PaidRests DEF PaidOnce

\* The owner at the head of the list is done with.
LEMMA TakenOff ==
    ASSUME AllKept, ~died, settlement.at \in {"paying", "sent"}, settlement.due # <<>>,
           settlement'.at = "paying", settlement'.due = Tail(settlement.due),
           settlement'.loaded = settlement.loaded, settlement'.refund = settlement.refund,
           UNCHANGED <<transfers, refunded>>
    PROVE  NothingYet' /\ DueOK'
<1> DEFINE due == settlement.due
           rest == Tail(settlement.due)
<1>0. DueIsEarned /\ DueIsUnpaid /\ DueIsPaidFor
  BY DEF AllKept, OInv, DueOK
<1>1. /\ due \in Seq(Payout) /\ rest \in Seq(Payout) /\ due # <<>>
      /\ \A n \in DOMAIN rest : n + 1 \in DOMAIN due /\ n + 1 # 1 /\ rest[n] = due[n + 1]
                                /\ n \in Nat
      /\ Head(due) \in Payout /\ 1 \in DOMAIN due
  <2>1. due \in Seq(Payout) /\ due # <<>>
    BY KeptIs
  <2> HIDE DEF due
  <2> QED
    BY <2>1 DEF due
<1>2. Unpaid' = DOMAIN rest /\ \A n \in DOMAIN rest : n + 1 \in Unpaid
  BY <1>1 DEF Unpaid
<1>3. DueIsEarned'
  <2>1. \A m, n \in DOMAIN rest : m # n => rest[m].owner # rest[n].owner
    <3> SUFFICES ASSUME NEW m \in DOMAIN rest, NEW n \in DOMAIN rest, m # n
                 PROVE  rest[m].owner # rest[n].owner
      OBVIOUS
    <3>1. m + 1 # n + 1
      BY <1>1
    <3> QED
      BY <1>0, <1>1, <3>1 DEF DueIsEarned
  <2>2. \A n \in DOMAIN rest :
          rest[n].net <= CommissionSum(sales, RowsOf(sales, settlement.loaded, rest[n].owner))
    BY <1>0, <1>1 DEF DueIsEarned
  <2>3. \A o : CommissionSum(sales', RowsOf(sales', settlement'.loaded, o))
                = CommissionSum(sales, RowsOf(sales, settlement.loaded, o))
    BY <1>0, EarnedStays
  <2>4. settlement'.loaded \subseteq DOMAIN sales'
    BY <1>0, EarnedStays
  <2> HIDE DEF rest
  <2>5. \A n \in DOMAIN rest :
          rest[n].net <= CommissionSum(sales', RowsOf(sales', settlement'.loaded, rest[n].owner))
    BY <2>2, <2>3
  <2> QED
    BY <2>1, <2>4, <2>5 DEF DueIsEarned, rest
<1>4. DueIsUnpaid'
  <2>1. \A o : TransfersTo(o)' = TransfersTo(o)
    BY DEF TransfersTo
  <2>2. \A n \in DOMAIN rest : TransfersTo(rest[n].owner) = {}
    BY <1>0, <1>1, <1>2 DEF DueIsUnpaid
  <2> QED
    BY <1>0, <1>2, <2>1, <2>2 DEF DueIsUnpaid
<1>5. DueIsPaidFor'
  <2>1. NetSum(rest, DOMAIN rest) = NetSum(due, DOMAIN due \ {1})
        /\ NetSum(due, DOMAIN due) = Head(due).net + NetSum(due, DOMAIN due \ {1})
    BY <1>1, TailSum
  <2>2. Unpaid = DOMAIN due \/ Unpaid = DOMAIN due \ {1}
    BY DEF Unpaid
  <2>3. NetSum(due, DOMAIN due \ {1}) \in Nat /\ Head(due).net \in Nat
    BY <1>1, NetsSum DEF Payout
  <2>4. NetSum(rest, DOMAIN rest) <= NetSum(due, Unpaid) /\ NetSum(due, Unpaid) \in Nat
        /\ NetSum(rest, DOMAIN rest) \in Nat
    <3>1. \/ NetSum(due, Unpaid) = NetSum(due, DOMAIN due)
          \/ NetSum(due, Unpaid) = NetSum(due, DOMAIN due \ {1})
      BY <2>2, Zenon
    <3> DEFINE all == NetSum(due, DOMAIN due)
               some == NetSum(due, DOMAIN due \ {1})
               left == NetSum(rest, DOMAIN rest)
               owed == NetSum(due, Unpaid)
               first == Head(due).net
    <3>2. (owed = all \/ owed = some) /\ left = some /\ all = first + some
          /\ some \in Nat /\ first \in Nat
      BY <2>1, <2>3, <3>1, Zenon
    <3> HIDE DEF all, some, left, owed, first
    <3>3. left <= owed /\ owed \in Nat /\ left \in Nat
      BY <3>2
    <3> QED
      BY <3>3 DEF left, owed
  <2>5. Drawn' = Drawn
    BY DrawnIs
  <2>6. NetSum(settlement.due, Unpaid)' = NetSum(rest, DOMAIN rest)
    BY <1>2
  <2>7. recounted = {} /\ settlement.refund <= FirstCharge =>
          Drawn + NetSum(due, Unpaid) + settlement.refund <= Collected
    BY <1>0 DEF DueIsPaidFor
  <2> HIDE DEF rest, due
  <2>8. recounted' = {} /\ settlement.refund <= FirstCharge =>
          Drawn + NetSum(rest, DOMAIN rest) + settlement.refund <= Collected'
    BY <2>4, <2>7, KeptIs
  <2> QED
    BY <2>5, <2>6, <2>8, KeptIs DEF DueIsPaidFor
<1> QED
  BY <1>3, <1>4, <1>5 DEF NothingYet, DueOK

LEMMA OInvFrom ==
    ASSUME ~died => NothingYet' /\ DueOK' /\ PaidOnce' /\ WithinMeans', died' = died
    PROVE  OInv'
BY DEF OInv

LEMMA BeginsOnce ==
    ASSUME AllKept, SettleBegins
    PROVE  OInv'
<1>1. /\ UNCHANGED <<program, paid_net, died, transfers, refunded>>
      /\ settlement.at = "idle" /\ program.status # "settled"
  BY DEF SettleBegins, Settleable
<1>2. settlement'.at = "checked"
  BY KeptIs DEF SettleBegins, Settling
<1>3. ASSUME ~died PROVE NothingYet' /\ DueOK'
  BY <1>1, <1>2, <1>3 DEF NothingYet, DueOK, AllKept, OInv
<1> QED
  BY <1>1, <1>3, MeansRest, PaidRest, OInvFrom

\* What is reckoned when the sales are read again.
LEMMA LoadsOnce ==
    ASSUME AllKept, SettleLoads
    PROVE  OInv'
<1> SUFFICES ASSUME ~died PROVE NothingYet' /\ DueOK'
  <2>1. UNCHANGED <<paid_net, died, transfers, refunded>>
    BY DEF SettleLoads
  <2> QED
    BY <2>1, MeansRest, PaidRest, OInvFrom
<1>1. PICK order, r :
         /\ order \in SetToSeqs(Earners) /\ r = Settles(order)
         /\ settlement' = [settlement EXCEPT
               !.at = "paying",
               !.loaded = {n \in DOMAIN sales : sales[n].status = "pending"},
               !.due = [n \in DOMAIN order |->
                          [owner |-> order[n], net |-> r.net_to_owner[n]]],
               !.refund = r.refund_to_business,
               !.released = r.total_commission_capped]
  <2>1. PICK order \in SetToSeqs(Earners) :
          settlement' = [settlement EXCEPT
               !.at = "paying",
               !.loaded = {n \in DOMAIN sales : sales[n].status = "pending"},
               !.due = [n \in DOMAIN order |->
                          [owner |-> order[n], net |-> Settles(order).net_to_owner[n]]],
               !.refund = Settles(order).refund_to_business,
               !.released = Settles(order).total_commission_capped]
    BY DEF SettleLoads, Unused
  <2> QED
    BY <2>1
<1> DEFINE due == [n \in DOMAIN order |-> [owner |-> order[n], net |-> r.net_to_owner[n]]]
           loaded == {n \in DOMAIN sales : sales[n].status = "pending"}
           net == r.net_to_owner
           capped == r.total_commission_capped
           fee == program.terms.funding_fee_percent
           cut == program.terms.payout_fee_percent
           P == program.terms.pool_max_budget
<1>2. /\ settlement'.at = "paying" /\ settlement'.loaded = loaded
      /\ settlement'.due = due /\ settlement'.refund = r.refund_to_business
  BY <1>1, KeptIs DEF Settling
<1>3. /\ UNCHANGED <<program, sales, transfers, refunded, topup, recounted>>
      /\ transfers = <<>> /\ refunded = 0
  <2>1. settlement.at = "checked" /\ program.status = "live"
    BY DEF SettleLoads, AllKept, IInv, SettlesInTime
  <2> QED
    BY <2>1 DEF SettleLoads, restVars, fundingVars, confirmVars, AllKept, OInv, NothingYet
<1>4. SalesOK /\ RowOK /\ BudgetOK /\ BudgetGrows
  BY DEF AllKept, IInv, TInv, TypeOK, BudgetOK, ProgramRow
<1>5. /\ order \in Seq(Owners) /\ Len(order) \in Nat /\ DOMAIN order = 1..Len(order)
      /\ \A m, n \in DOMAIN order : m # n => order[m] # order[n]
      /\ capped \in 0..program.pool_max_budget
      /\ r.refund_to_business =
            Greater(0, ChargeOf(program.pool_max_budget, fee) - ChargeOf(capped, fee))
      /\ \A n \in DOMAIN order : net[n] \in 0..Earned(order[n])
      /\ SumOver(net, DOMAIN order) <= NetOf(capped, cut)
  BY <1>1, <1>4, SettlesIs
<1>6. \A n \in DOMAIN order : Earned(order[n]) \in Nat /\ net[n] \in Nat
  BY <1>4, <1>5, EarnedIsNat
<1>7. /\ DOMAIN due = DOMAIN order
      /\ \A n \in DOMAIN due : due[n].owner = order[n] /\ due[n].net = net[n]
  OBVIOUS
<1>8. DueIsEarned'
  <2>1. \A o : RowsOf(sales, loaded, o) = PendingOf(o)
    BY DEF RowsOf, PendingOf
  <2>2. \A n \in DOMAIN due : due[n].net <= CommissionSum(sales, RowsOf(sales, loaded, due[n].owner))
    <3> SUFFICES ASSUME NEW n \in DOMAIN due
                 PROVE  due[n].net <= CommissionSum(sales, RowsOf(sales, loaded, due[n].owner))
      OBVIOUS
    <3>1. net[n] <= Earned(order[n]) /\ due[n].owner = order[n] /\ due[n].net = net[n]
      BY <1>5, <1>6, <1>7
    <3>2. Earned(order[n]) = CommissionSum(sales, RowsOf(sales, loaded, order[n]))
      BY <2>1, EarnedIs
    <3> QED
      BY <3>1, <3>2
  <2>3. \A m, n \in DOMAIN due : m # n => due[m].owner # due[n].owner
    BY <1>5, <1>7
  <2>4. loaded \subseteq DOMAIN sales
    OBVIOUS
  <2> HIDE DEF due, loaded
  <2> QED
    BY <1>2, <1>3, <2>2, <2>3, <2>4 DEF DueIsEarned
<1>9. DueIsUnpaid'
  <2>1. \A o : TransfersTo(o)' = {}
    BY <1>3 DEF TransfersTo
  <2> QED
    BY <1>3, <2>1 DEF DueIsUnpaid
<1>10. DueIsPaidFor'
  <2> SUFFICES ASSUME recounted = {} PROVE DueIsPaidFor'
    BY <1>3 DEF DueIsPaidFor
  <2>0. PICK k \in 0..Cardinality(ToppedUp) : program.pool_max_budget = P + k * TopUpAmount
    BY <1>4 DEF BudgetGrows, PaidPool
  <2>1. Unpaid' = DOMAIN due
    BY <1>2 DEF Unpaid
  <2>2. NetSum(due, DOMAIN due) = SumOver(net, DOMAIN due)
    <3>1. IsFiniteSet(DOMAIN due)
      BY <1>5, <1>7, FS_Interval
    <3>2. \A n \in DOMAIN due : net[n] \in Nat /\ due[n].net = net[n]
      BY <1>6, <1>7
    <3> HIDE DEF due, net
    <3> QED
      BY <3>1, <3>2, NetSumIs
  <2>3. Drawn = 0
    <3>1. DOMAIN transfers = {}
      BY <1>3
    <3>2. \A n \in {} : Nets(transfers)[n] \in Nat
      OBVIOUS
    <3>3. NetSum(transfers, {}) = 0
      BY FS_EmptySet, NetSumIs, SumOverIs
    <3> QED
      BY <3>1, <3>3, DrawnIs
  <2>4. /\ P \in Nat /\ TopUpAmount \in Nat /\ fee \in 0..100 /\ cut \in 0..100
        /\ FirstCharge = ChargeOf(P, fee)
        /\ ChargeFor(TopUpAmount) = ChargeOf(TopUpAmount, fee)
    BY <1>4, ChargesAre
  <2>5. k \in Nat /\ program.pool_max_budget = P + k * TopUpAmount
        /\ P + k * TopUpAmount \in Nat
    <3>1. Cardinality(ToppedUp) \in Nat
      BY <1>4, FS_CardinalityType DEF BudgetGrows
    <3> QED
      BY <1>4, <2>0, <3>1 DEF BudgetOK
  <2>6. fee = 0 \/ TopUpAmount * fee >= 100
    BY <1>4, TopUpsPayFees DEF RowOK
  <2>7. capped \in Nat /\ capped <= P + k * TopUpAmount
    <3> HIDE DEF capped, P
    <3> QED
      BY <1>5, <2>5
  <2>8. ChargeOf(P, fee) + k * ChargeOf(TopUpAmount, fee) <= Collected
    <3> DEFINE a == Cardinality(ToppedUp)
               x == ChargeFor(TopUpAmount)
               F == FirstCharge
    <3>1. a \in Nat /\ k \in 0..a /\ x \in Nat /\ F \in Nat
      BY <1>4, <2>0, FS_CardinalityType, ChargesAre DEF BudgetGrows
    <3>2. Collected = F + a * x
      BY DEF Collected
    <3>3. ChargeOf(P, fee) + k * ChargeOf(TopUpAmount, fee) = F + k * x
      BY <2>4
    <3> HIDE DEF a, x, F
    <3>4. k * x <= a * x /\ k * x \in Nat /\ a * x \in Nat
      BY <3>1
    <3> QED
      BY <3>1, <3>2, <3>3, <3>4
  <2> DEFINE refund == r.refund_to_business
  <2>9. refund = Greater(0, ChargeOf(P + k * TopUpAmount, fee) - ChargeOf(capped, fee))
    BY <1>5, <2>5
  <2> HIDE DEF refund, capped, P, fee, cut, net, due, loaded
  <2>10. refund <= ChargeOf(P, fee) => capped + refund <= Collected
    <3> DEFINE paid == ChargeOf(P, fee) + k * ChargeOf(TopUpAmount, fee)
    <3>1. refund <= ChargeOf(P, fee) => capped + refund <= paid
      BY <2>4, <2>5, <2>6, <2>7, <2>9, RefundIsPaidFor
    <3>2. paid \in Nat /\ refund \in Nat
      <4>1. FirstCharge \in Nat /\ ChargeFor(TopUpAmount) \in Nat
        BY <1>4, ChargesAre
      <4>2. ChargeOf(P, fee) \in Nat /\ ChargeOf(TopUpAmount, fee) \in Nat
        BY <2>4, <4>1
      <4>3. refund \in Nat
        BY <2>4, <2>5, <2>7, <2>9, RefundIsNat
      <4> QED
        BY <2>5, <4>2, <4>3
    <3> HIDE DEF paid
    <3>3. paid <= Collected
      BY <2>8 DEF paid
    <3> QED
      BY <2>7, <3>1, <3>2, <3>3, KeptIs
  <2>11. NetOf(capped, cut) \in 0..capped
    BY <2>4, <2>7, NetFits
  <2>12. refund \in Nat
    BY <2>4, <2>5, <2>7, <2>9, RefundIsNat
  <2>13. SumOver(net, DOMAIN due) \in Nat
    <3>1. IsFiniteSet(DOMAIN due) /\ \A n \in DOMAIN due : net[n] \in Nat
      BY <1>5, <1>6, <1>7, FS_Interval
    <3> QED
      BY <3>1, SumIsNat
  <2>14. SumOver(net, DOMAIN due) <= NetOf(capped, cut)
    BY <1>5, <1>7
  <2>15. refund <= FirstCharge => Drawn + NetSum(due, DOMAIN due) + refund <= Collected
    BY <2>2, <2>3, <2>4, <2>7, <2>10, <2>11, <2>12, <2>13, <2>14, KeptIs
  <2>16. Drawn' = Drawn /\ Collected' = Collected /\ FirstCharge' = FirstCharge
    BY <1>3, DrawnIs DEF Collected, FirstCharge, ChargeFor, ToppedUp
  <2>17. settlement'.refund = refund /\ settlement'.due = due
    BY <1>2 DEF refund
  <2> QED
    BY <2>1, <2>15, <2>16, <2>17 DEF DueIsPaidFor
<1> QED
  BY <1>2, <1>8, <1>9, <1>10 DEF NothingYet, DueOK

LEMMA NothingDueOnce ==
    ASSUME AllKept, NothingDue \/ OwnerFails
    PROVE  OInv'
<1>1. /\ UNCHANGED <<paid_net, died, transfers, refunded>>
      /\ settlement.at = "paying" /\ settlement.due # <<>>
      /\ settlement' = [settlement EXCEPT !.due = Tail(settlement.due)]
  BY DEF NothingDue, OwnerFails, Paying
<1>2. /\ settlement'.at = "paying" /\ settlement'.due = Tail(settlement.due)
      /\ settlement'.loaded = settlement.loaded /\ settlement'.refund = settlement.refund
  BY <1>1, KeptIs DEF Settling
<1>3. ~died => NothingYet' /\ DueOK'
  BY <1>1, <1>2, TakenOff
<1> QED
  BY <1>1, <1>3, MeansRest, PaidRest, OInvFrom

LEMMA CommitOnce ==
    ASSUME AllKept, CommitOwner
    PROVE  OInv'
<1> DEFINE p == Payee
<1>1. /\ UNCHANGED <<died, transfers, refunded>>
      /\ settlement.at = "sent" /\ settlement.due # <<>>
      /\ settlement' = [settlement EXCEPT !.at = "paying", !.due = Tail(settlement.due)]
      /\ sales' = SalesSettled(p.owner)
      /\ paid_net' = [paid_net EXCEPT ![p.owner] = p.net]
  BY DEF CommitOwner, AllKept, TInv, SentOK
<1>2. /\ settlement'.at = "paying" /\ settlement'.due = Tail(settlement.due)
      /\ settlement'.loaded = settlement.loaded /\ settlement'.refund = settlement.refund
  BY <1>1, KeptIs DEF Settling
<1>3. ~died => NothingYet' /\ DueOK'
  BY <1>1, <1>2, TakenOff
<1>4. ASSUME ~died PROVE PaidOnce'
  <2>1. p \in Payout /\ p = settlement.due[1] /\ 1 \in DOMAIN settlement.due
    BY <1>1, KeptIs DEF Payee
  <2>2. p.owner \in Owners /\ p.net \in Nat
    BY <2>1 DEF Payout
  <2> DEFINE S == RowsOf(sales, settlement.loaded, p.owner)
             T == DecidedOf(sales', p.owner)
  <2>3. DueIsEarned
    BY <1>1, <1>4 DEF AllKept, OInv, DueOK
  <2>4. p.net <= CommissionSum(sales, S)
    BY <2>1, <2>3 DEF DueIsEarned
  <2>5. S \in SUBSET DOMAIN sales /\ S \in SUBSET T /\ T \in SUBSET DOMAIN sales'
    <3>1. settlement.loaded \subseteq DOMAIN sales
      BY <2>3 DEF DueIsEarned
    <3>2. DOMAIN sales' = DOMAIN sales
      BY <1>1 DEF SalesSettled
    <3>3. ASSUME NEW n \in S
          PROVE  n \in DOMAIN sales /\ sales'[n].owner = p.owner /\ sales'[n].status # "pending"
      <4>1. n \in DOMAIN sales /\ n \in settlement.loaded /\ sales[n].owner = p.owner
        BY <3>1 DEF RowsOf
      <4>2. sales[n] \in Sale
        BY <4>1, KeptIs DEF SalesOK
      <4>3. sales'[n] = [sales[n] EXCEPT !.status = "settled"]
        BY <1>1, <4>1 DEF SalesSettled
      <4> QED
        BY <4>1, <4>2, <4>3 DEF Sale
    <3> QED
      BY <3>2, <3>3 DEF DecidedOf
  <2>6. sales \in Seq(Sale) /\ sales' \in Seq(Sale)
    BY KeptIs DEF SalesOK
  <2>7. \A o : DecidedFor(o)' = CommissionSum(sales', DecidedOf(sales', o))
    BY DecidedIs DEF DecidedOf
  <2> HIDE DEF S, T
  <2>8. CommissionSum(sales', S) = CommissionSum(sales, S) /\ CommissionSum(sales, S) \in Nat
    BY <2>5, <2>6, KeptIs, SumsKept, RowsSumOf DEF AllKept
  <2>9. CommissionSum(sales', S) <= CommissionSum(sales', T) /\ CommissionSum(sales', T) \in Nat
    BY <2>5, <2>6, SumOfMore, RowsSumOf
  <2>10. p.net <= CommissionSum(sales', T)
    BY <2>2, <2>4, <2>8, <2>9
  <2> SUFFICES ASSUME NEW o \in Owners
               PROVE  /\ Cardinality(TransfersTo(o)') <= 1
                      /\ paid_net'[o] # None => paid_net'[o] <= DecidedFor(o)'
    BY DEF PaidOnce
  <2>11. TransfersTo(o)' = TransfersTo(o)
    BY <1>1 DEF TransfersTo
  <2>12. CASE o = p.owner
    <3>1. paid_net'[o] = p.net
      BY <1>1, <2>2, <2>12, KeptIs
    <3>2. DecidedFor(o)' = CommissionSum(sales', T)
      BY <2>7, <2>12 DEF T
    <3> QED
      BY <1>4, <2>10, <2>11, <3>1, <3>2, PaidRests
  <2>13. CASE o # p.owner
    <3>1. paid_net'[o] = paid_net[o]
      BY <1>1, <2>13, KeptIs
    <3> QED
      BY <1>4, <2>11, <3>1, PaidRests
  <2> QED
    BY <2>12, <2>13
<1> QED
  BY <1>1, <1>3, <1>4, MeansRest, OInvFrom

LEMMA TransferOnce ==
    ASSUME AllKept, TransferToOwner
    PROVE  OInv'
<1> DEFINE p == Payee
           due == settlement.due
<1>1. /\ UNCHANGED <<paid_net, died, refunded>>
      /\ settlement.at = "paying" /\ settlement.due # <<>>
      /\ settlement' = [settlement EXCEPT !.at = "sent"]
      /\ transfers' = Append(transfers, p) /\ Drawn + p.net <= FirstCharge
  BY DEF TransferToOwner, Paying, Covered
<1> SUFFICES ASSUME ~died PROVE NothingYet' /\ DueOK' /\ PaidOnce' /\ WithinMeans'
  BY <1>1, OInvFrom
<1>2. /\ settlement'.at = "sent" /\ settlement'.due = due
      /\ settlement'.loaded = settlement.loaded /\ settlement'.refund = settlement.refund
  BY <1>1, KeptIs DEF Settling
<1>3. p \in Payout /\ p = due[1] /\ 1 \in DOMAIN due /\ p = Head(due)
  BY <1>1, KeptIs DEF Payee
<1>4. p.owner \in Owners /\ p.net \in Nat
  BY <1>3 DEF Payout
<1>5. DueIsEarned /\ DueIsUnpaid /\ DueIsPaidFor
  BY <1>1 DEF AllKept, OInv, DueOK
<1>6. /\ Len(transfers) \in Nat /\ DOMAIN transfers = 1..Len(transfers)
      /\ DOMAIN transfers' = 1..(Len(transfers) + 1)
      /\ transfers'[Len(transfers) + 1] = p
      /\ \A n \in DOMAIN transfers : transfers'[n] = transfers[n]
  <2>1. transfers \in Seq(Payout)
    BY KeptIs
  <2> QED
    BY <1>1, <1>3, <2>1
<1>7. \A o : o # p.owner => TransfersTo(o)' = TransfersTo(o)
  BY <1>6 DEF TransfersTo
<1>8. TransfersTo(p.owner) = {}
  <2>1. 1 \in Unpaid
    BY <1>1, <1>3 DEF Unpaid
  <2> QED
    BY <1>3, <1>5, <2>1 DEF DueIsUnpaid
<1>9. \A n \in DOMAIN transfers' : transfers'[n].owner = p.owner <=> n = Len(transfers) + 1
  BY <1>6, <1>8 DEF TransfersTo
<1>10. PaidOnce'
  <2> SUFFICES ASSUME NEW o \in Owners
               PROVE  /\ Cardinality(TransfersTo(o)') <= 1
                      /\ paid_net'[o] # None => paid_net'[o] <= DecidedFor(o)'
    BY DEF PaidOnce
  <2>1. paid_net'[o] = paid_net[o]
    BY <1>1
  <2>2. CASE o = p.owner
    <3> DEFINE S == {n \in DOMAIN transfers' : transfers'[n].owner = o}
    <3>1. S = {Len(transfers) + 1}
      BY <1>6, <1>9, <2>2
    <3>2. Cardinality(S) = 1
      BY <3>1, FS_Singleton
    <3>3. TransfersTo(o)' = S
      BY DEF TransfersTo
    <3> QED
      BY <2>1, <3>2, <3>3, PaidRests
  <2>3. CASE o # p.owner
    BY <1>7, <2>1, <2>3, PaidRests
  <2> QED
    BY <2>2, <2>3
<1>11. Drawn' = Drawn + p.net
  <2>1. NetSum(transfers', DOMAIN transfers') = NetSum(transfers, DOMAIN transfers) + p.net
    BY <1>1, <1>3, KeptIs, AppendSum
  <2> QED
    BY <2>1, DrawnIs
<1>12. WithinMeans'
  <2>1. refunded = 0
    BY <1>5 DEF DueIsUnpaid
  <2> QED
    BY <1>1, <1>4, <1>11, <2>1, KeptIs DEF WithinMeans
<1>13. DueIsEarned'
  <2>1. settlement'.loaded \subseteq DOMAIN sales'
    BY <1>2, <1>5, EarnedStays
  <2>2. \A o : CommissionSum(sales', RowsOf(sales', settlement'.loaded, o))
               = CommissionSum(sales, RowsOf(sales, settlement.loaded, o))
    BY <1>2, <1>5, EarnedStays
  <2> QED
    BY <1>2, <1>5, <2>1, <2>2 DEF DueIsEarned
<1>14. Unpaid' = DOMAIN due \ {1} /\ Unpaid = DOMAIN due
  BY <1>1, <1>2 DEF Unpaid
<1>15. DueIsUnpaid'
  <2>1. \A n \in DOMAIN due \ {1} : TransfersTo(due[n].owner)' = {}
    <3> SUFFICES ASSUME NEW n \in DOMAIN due \ {1}
                 PROVE  {m \in DOMAIN transfers' : transfers'[m].owner = due[n].owner} = {}
      BY <1>2 DEF TransfersTo
    <3>1. due[n].owner # p.owner
      BY <1>3, <1>5 DEF DueIsEarned
    <3>2. TransfersTo(due[n].owner) = {}
      BY <1>5, <1>14 DEF DueIsUnpaid
    <3> QED
      BY <1>6, <3>1, <3>2 DEF TransfersTo
  <2>2. refunded' = 0
    BY <1>1, <1>5 DEF DueIsUnpaid
  <2> QED
    BY <1>2, <1>14, <2>1, <2>2 DEF DueIsUnpaid
<1>16. DueIsPaidFor'
  <2> DEFINE rest == NetSum(due, DOMAIN due \ {1})
             all == NetSum(due, DOMAIN due)
             first == p.net
  <2>1. all = first + rest
    BY <1>1, <1>3, KeptIs, TailSum
  <2>2. rest \in Nat
    BY KeptIs, NetsSum
  <2>3. recounted = {} /\ settlement.refund <= FirstCharge =>
           Drawn + all + settlement.refund <= Collected
    BY <1>5, <1>14 DEF DueIsPaidFor
  <2>4. recounted' = {} /\ settlement.refund <= FirstCharge =>
           Drawn' + rest + settlement.refund <= Collected'
    <3>1. first \in Nat /\ Drawn' = Drawn + first
      BY <1>4, <1>11
    <3> HIDE DEF rest, all, first
    <3> QED
      BY <2>1, <2>2, <2>3, <3>1, KeptIs
  <2>5. NetSum(settlement.due, Unpaid)' = rest
    BY <1>2, <1>14
  <2> HIDE DEF rest
  <2> QED
    BY <1>2, <2>4, <2>5, KeptIs DEF DueIsPaidFor
<1> QED
  BY <1>2, <1>10, <1>12, <1>13, <1>15, <1>16 DEF NothingYet, DueOK

LEMMA RefundOnce ==
    ASSUME AllKept, NEW made \in BOOLEAN, RefundUnused(made)
    PROVE  OInv'
<1>1. /\ UNCHANGED <<paid_net, died, transfers>>
      /\ settlement.at = "paying" /\ settlement.due = <<>>
      /\ settlement' = [settlement EXCEPT !.at = "finishing", !.refund_made = made]
      /\ refunded' = IF made THEN refunded + settlement.refund ELSE refunded
      /\ made => refunded + settlement.refund <= FirstCharge
  BY DEF RefundUnused, RefundCovered
<1> SUFFICES ASSUME ~died PROVE NothingYet' /\ DueOK' /\ WithinMeans'
  BY <1>1, PaidRest, OInvFrom
<1>2. settlement'.at = "finishing"
  BY <1>1, KeptIs DEF Settling
<1>3. DueIsUnpaid /\ DueIsPaidFor /\ WithinMeans
  BY <1>1 DEF AllKept, OInv, DueOK
<1>4. refunded = 0
  BY <1>3 DEF DueIsUnpaid
<1>5. Drawn' = Drawn
  BY <1>1, DrawnIs
<1>6. made /\ recounted = {} => Drawn + settlement.refund <= Collected
  <2>1. NetSum(settlement.due, Unpaid) \in Nat
    <3>1. Unpaid \in SUBSET DOMAIN settlement.due
      BY DEF Unpaid
    <3> QED
      BY <3>1, KeptIs, NetsSum
  <2> QED
    BY <1>1, <1>3, <1>4, <2>1, KeptIs DEF DueIsPaidFor
<1>7. WithinMeans'
  BY <1>1, <1>3, <1>4, <1>5, <1>6, KeptIs DEF WithinMeans
<1> QED
  BY <1>2, <1>7 DEF NothingYet, DueOK

LEMMA FinishesOnce ==
    ASSUME AllKept, SettleFinishes
    PROVE  OInv'
<1>1. UNCHANGED <<paid_net, died, transfers, refunded>> /\ settlement' = Idle
  BY DEF SettleFinishes
<1>2. program'.status = "settled"
  <2>1. program \in ProgramRow
    BY DEF AllKept, TInv, TypeOK
  <2> QED
    BY <2>1 DEF SettleFinishes, ProgramRow
<1>3. NothingYet' /\ DueOK'
  BY <1>1, <1>2 DEF NothingYet, DueOK, Idle
<1> QED
  BY <1>1, <1>3, MeansRest, PaidRest, OInvFrom

LEMMA SettlementOnce ==
    ASSUME AllKept, Settlement
    PROVE  OInv'
<1>1. CASE SettleDies
  BY <1>1 DEF SettleDies, OInv
<1> QED
  BY <1>1, BeginsOnce, LoadsOnce, NothingDueOnce, TransferOnce, CommitOnce, RefundOnce,
     FinishesOnce DEF Settlement

LEMMA StepPaysOnce ==
    ASSUME AllKept, [Next]_vars
    PROVE  OInv'
<1> DEFINE Rests == UNCHANGED <<settlement, paid_net, transfers, refunded, died>>
<1>1. CASE Business
  <2>1. UNCHANGED settlingVars
    BY <1>1 DEF Business, FundProgram, TopUpProgram, CustomerPays, ConfirmTracking
  <2> QED
    BY <2>1, MoneyRests DEF settlingVars
<1>2. CASE Membership
  <2>1. Rests
    BY <1>2 DEF Membership, Apply, ApproveApplication, RejectApplication, RemovePartner,
       Becomes, settlingVars
  <2> QED
    BY <2>1, MoneyRests
<1>3. CASE HoldingPeriodEnds
  BY <1>3, MoneyRests DEF HoldingPeriodEnds
<1>4. CASE Store
  <2>1. Rests
    BY <1>4 DEF Store, HookArrives, HookIgnores, SaleChecked, SaleCommits,
       ReversalChecked, ReversalCommits, Holds, Finishes, settlingVars
  <2> QED
    BY <2>1, MoneyRests
<1>5. CASE Confirmations
  <2>1. UNCHANGED settlingVars
    BY <1>5 DEF Confirmations, ConfirmBegins, StripeConfirms, ConfirmFails, ConfirmCommits,
       Acknowledge
  <2> QED
    BY <2>1, MoneyRests DEF settlingVars
<1>6. CASE UNCHANGED vars
  BY <1>6, MoneyRests DEF vars, stripeVars
<1> QED
  BY <1>1, <1>2, <1>3, <1>4, <1>5, <1>6, SettlementOnce DEF Next

LEMMA InitPaysOnce == Init => BudgetGrows /\ OInv
<1> SUFFICES ASSUME Init PROVE BudgetGrows /\ OInv
  OBVIOUS
<1>1. IInv /\ TInv
  BY InitHolds, InitTypes
<1>2. BudgetGrows
  <2>1. ToppedUp = {}
    BY DEF Init, ToppedUp
  <2>2. Cardinality(ToppedUp) = 0 /\ IsFiniteSet(ToppedUp)
    BY <2>1, FS_EmptySet
  <2>3. PICK t \in Programs :
         program = [ terms |-> t, pool_max_budget |-> t.pool_max_budget,
                     pool_committed_amount |-> 0, pool_released_amount |-> None,
                     pool_refunded_amount |-> None, host |-> None, status |-> "draft" ]
    BY DEF Init
  <2>4. t.pool_max_budget \in Nat /\ TopUpAmount \in Nat
    BY ProgramAssumption DEF Terms
  <2>5. program.pool_max_budget = program.terms.pool_max_budget /\ program.pool_max_budget \in Nat
    BY <2>3, <2>4
  <2>6. PaidPool(program.pool_max_budget)
    BY <2>2, <2>4, <2>5 DEF PaidPool
  <2>7. \A c \in Confirmers : ~Read(c)
    BY DEF Init, Read
  <2> QED
    BY <2>2, <2>6, <2>7 DEF BudgetGrows
<1>3. NothingYet /\ DueOK
  BY DEF Init, NothingYet, DueOK, Idle
<1>4. transfers = <<>> /\ refunded = 0 /\ Drawn = 0
  <2>1. transfers = <<>> /\ refunded = 0 /\ DOMAIN transfers = {}
    BY DEF Init
  <2>2. NetSum(transfers, {}) = 0
    BY FS_EmptySet, NetSumIs, SumOverIs
  <2> QED
    BY <2>1, <2>2, DrawnIs
<1>5. WithinMeans
  <2>1. FirstCharge \in Nat /\ ChargeFor(TopUpAmount) \in Nat
    BY <1>1, ChargesAre DEF IInv
  <2>2. Cardinality(ToppedUp) \in Nat
    BY <1>2, FS_CardinalityType DEF BudgetGrows
  <2> DEFINE rest == Cardinality(ToppedUp) * ChargeFor(TopUpAmount)
  <2>3. rest \in Nat
    BY <2>1, <2>2
  <2> HIDE DEF rest
  <2>4. Collected = FirstCharge + rest
    BY DEF Collected, rest
  <2> QED
    BY <1>4, <2>1, <2>3, <2>4 DEF WithinMeans
<1>6. PaidOnce
  <2>1. \A o : TransfersTo(o) = {}
    BY <1>4 DEF TransfersTo
  <2>2. Cardinality({}) = 0
    BY FS_EmptySet
  <2>3. \A o \in Owners : paid_net[o] = None
    BY DEF Init
  <2> QED
    BY <2>1, <2>2, <2>3 DEF PaidOnce
<1> QED
  BY <1>2, <1>3, <1>5, <1>6 DEF OInv

LEMMA StepKeepsMoney ==
    ASSUME IInv, IInv', TInv, TInv', BudgetGrows, OInv, [Next]_vars
    PROVE  BudgetGrows' /\ OInv'
<1>1. RowsKept /\ CameIn
  BY StepKeepsRows, StepBringsIn
<1>2. AllKept
  BY <1>1 DEF AllKept
<1> QED
  BY <1>2, KeptIs, StepPaysOnce

\* Unless a settlement died half way, an owner gets one Transfer and is
\* recorded no more than the commission of the sales decided, and, unless a
\* payment was counted twice, what leaves was collected, top-ups included
\* (services.py settle_affiliate_program, mark_affiliate_topup_funded_from_pi).
THEOREM OwnersOnce == Spec => []OwnersPaidOnce
<1>1. BudgetGrows /\ OInv => OwnersPaidOnce
  BY DEF OInv, PaidOnce, WithinMeans, OwnersPaidOnce
<1>2. /\ IInv /\ IInv' /\ TInv /\ TInv' /\ BudgetGrows /\ OInv /\ [Next]_vars
      => BudgetGrows' /\ OInv'
  BY StepKeepsMoney
<1>3. IInv /\ TInv /\ [Next]_vars => TInv'
  BY StepTypes
<1> QED
  BY <1>1, <1>2, <1>3, InitTypes, InitHolds, InitPaysOnce, ProgramInvariance, PTL DEF Spec

-----------------------------------------------------------------------------
\* The pennies of Settlement, whose walk over pools and programs makes the
\* settlements of money.py that the lemmas above are about.

\* A share is what its part of the pool comes to, rounded down.
LEMMA ShareIsClose ==
    ASSUME NEW x \in Nat, NEW capped \in Nat, NEW total \in Nat, total # 0
    PROVE  /\ (x * capped) \div total \in Nat
           /\ total * ((x * capped) \div total) <= capped * x
           /\ capped * x + 1 <= total * ((x * capped) \div total) + total
<1> DEFINE y == x * capped
           q == y \div total
<1>1. y \in Nat /\ y = capped * x
  OBVIOUS
<1>2. q \in Nat /\ total * q <= y /\ y + 1 <= total * q + total
  <2>1. y \in Nat
    BY <1>1
  <2> HIDE DEF y
  <2> QED
    BY <2>1
<1> QED
  BY <1>1, <1>2

\* The net of a whole is no more than the nets of its parts together.
LEMMA NetsAdd ==
    ASSUME NEW x \in Nat, NEW y \in Nat, NEW f \in 0..100
    PROVE  NetOf(x + y, f) <= NetOf(x, f) + NetOf(y, f)
<1>1. /\ BuyerFee(x, f) + BuyerFee(y, f) <= BuyerFee(x + y, f)
      /\ BuyerFee(x, f) \in Nat /\ BuyerFee(y, f) \in Nat /\ BuyerFee(x + y, f) \in Nat
  <2>1. x + y \in Nat
    OBVIOUS
  <2>2. BuyerFee(x, f) \in Nat /\ BuyerFee(y, f) \in Nat /\ BuyerFee(x + y, f) \in Nat
    BY <2>1, FeeIsNat
  <2> QED
    BY <2>2, FeesAdd
<1>2. NetOf(x + y, f) = x + y - BuyerFee(x + y, f) /\ NetOf(x, f) = x - BuyerFee(x, f)
      /\ NetOf(y, f) = y - BuyerFee(y, f)
  BY DEF NetOf, BuyerFee
<1> QED
  BY <1>1, <1>2

\* Of two amounts the nets differ by no more than the amounts.
LEMMA NetGrowsLess ==
    ASSUME NEW x \in Nat, NEW y \in Nat, x <= y, NEW f \in 0..100
    PROVE  NetOf(y, f) - NetOf(x, f) <= y - x
<1>1. BuyerFee(x, f) <= BuyerFee(y, f) /\ BuyerFee(x, f) \in Nat /\ BuyerFee(y, f) \in Nat
  BY FeeGrows, FeeIsNat
<1>2. NetOf(x, f) = x - BuyerFee(x, f) /\ NetOf(y, f) = y - BuyerFee(y, f)
  BY DEF NetOf, BuyerFee
<1> QED
  BY <1>1, <1>2

\* Sums and products as plain numbers: e is earned so far, s the shares of it,
\* n owners; c and q are the next one's.
LEMMA SharesAddUp ==
    ASSUME NEW total \in Nat, NEW capped \in Nat, NEW e \in Nat, NEW s \in Nat, NEW n \in Nat,
           NEW c \in Nat, NEW q \in Nat,
           total * s <= capped * e, capped * e + n <= total * s + n * total,
           total * q <= capped * c, capped * c + 1 <= total * q + total
    PROVE  /\ total * (s + q) <= capped * (e + c)
           /\ capped * (e + c) + (n + 1) <= total * (s + q) + (n + 1) * total
<1> DEFINE ts == total * s
           tq == total * q
           ce == capped * e
           cc == capped * c
           nt == n * total
<1>1. ts \in Nat /\ tq \in Nat /\ ce \in Nat /\ cc \in Nat /\ nt \in Nat
  OBVIOUS
<1>2. /\ total * (s + q) = ts + tq /\ capped * (e + c) = ce + cc
      /\ (n + 1) * total = nt + total
  OBVIOUS
<1>3. ts <= ce /\ ce + n <= ts + nt /\ tq <= cc /\ cc + 1 <= tq + total
  OBVIOUS
<1> HIDE DEF ts, tq, ce, cc, nt
<1> QED
  BY <1>1, <1>2, <1>3

\* Shares of everything earned leave less than a penny an owner of the pool.
LEMMA WithinAPenny ==
    ASSUME NEW total \in Nat, total # 0, NEW capped \in Nat, NEW s \in Nat, NEW n \in Nat, n # 0,
           total * s <= capped * total, capped * total + n <= total * s + n * total
    PROVE  s <= capped /\ capped < s + n
<1>1. ASSUME NEW a \in Nat, NEW b \in Nat, a < b PROVE total * a < total * b
  <2>1. total * b = total * a + total * (b - a) /\ total * (b - a) > 0
    <3>1. b - a \in Nat /\ b - a # 0 /\ b = a + (b - a)
      BY <1>1
    <3> DEFINE d == b - a
    <3> HIDE DEF d
    <3>2. total * (a + d) = total * a + total * d
      BY <3>1 DEF d
    <3>3. d \in Nat /\ d # 0 /\ a + d = b
      BY <3>1 DEF d
    <3>4. total * d > 0
      BY <3>3
    <3> QED
      BY <3>2, <3>3, <3>4 DEF d
  <2>2. total * a \in Nat /\ total * (b - a) \in Int
    BY <1>1
  <2> QED
    BY <2>1, <2>2
<1>2. capped * total = total * capped /\ n * total = total * n
      /\ total * (s + n) = total * s + total * n /\ s + n \in Nat
  OBVIOUS
<1>3. ~(capped < s)
  <2>1. capped < s => total * capped < total * s
    BY <1>1
  <2>2. total * capped \in Nat /\ total * s \in Nat
    OBVIOUS
  <2> QED
    BY <1>2, <2>1, <2>2
<1>4. ~(s + n < capped) /\ s + n # capped
  <2>1. s + n < capped => total * (s + n) < total * capped
    BY <1>1, <1>2
  <2>2. s + n = capped => total * (s + n) = total * capped
    OBVIOUS
  <2>3. total * capped \in Nat /\ total * s \in Nat /\ total * n \in Nat
    OBVIOUS
  <2>4. total * capped + n <= total * s + total * n
    BY <1>2
  <2> DEFINE tc == total * capped
             ts == total * s
             tn == total * n
             tsn == total * (s + n)
  <2> HIDE DEF tc, ts, tn, tsn
  <2>5. tsn = ts + tn /\ tc + n <= ts + tn /\ tc \in Nat /\ ts \in Nat /\ tn \in Nat
    BY <1>2, <2>3, <2>4 DEF tc, ts, tn, tsn
  <2>6. ~(tsn < tc) /\ tsn # tc
    BY <2>5
  <2> QED
    BY <2>1, <2>2, <2>6 DEF tc, tsn
<1> QED
  BY <1>2, <1>3, <1>4

\* What rounding leaves of the net of a settlement is less than a penny an owner.
LEMMA SlackIsPennies ==
    ASSUME NEW c \in Seq(Nat), c # <<>>, NEW p, p.pool_max_budget \in Nat,
           p.payout_fee_percent \in 0..100, p.funding_fee_percent \in 0..100
    PROVE  LeftFn(p, c)[Len(c)] < Len(c)
<1> DEFINE N == Len(c)
           f == p.payout_fee_percent
           total == Total(c)
           capped == Capped(p, c)
           kept == NetOf(capped, f)
           L == LeftFn(p, c)
           E == EarnedFn(c)
           shares == [n \in 1..N |-> Share(p, c, n)]
           S == EarnedFn(shares)
<1>1. N \in Nat /\ N # 0 /\ \A n \in 1..N : c[n] \in Nat
  OBVIOUS
<1>2. total \in Nat /\ total = E[N]
  BY TotalIsNat DEF Total
<1>3. capped \in Nat /\ capped <= total
  BY <1>2 DEF Capped, Lesser
<1>4. kept \in 0..capped
  <2> HIDE DEF capped
  <2> QED
    BY <1>3, NetFits
<1>5. /\ L[0] = kept
      /\ \A n \in 0..N : L[n] \in Nat
      /\ \A n \in 1..N : L[n] = L[n - 1] - Lesser(NetOf(Share(p, c, n), f), L[n - 1])
  BY LeftUnfolds
<1>6. \A n \in 1..N : L[n - 1] - L[n] \in 0..c[n]
  BY LeftUnfolds
<1>7. CASE total = 0
  <2>1. kept = 0
    BY <1>2, <1>3, <1>4, <1>7
  <2> DEFINE Z == {n \in Nat : n <= N => L[n] <= 0}
  <2> HIDE DEF L, N, kept, total, capped
  <2>2. 0 \in Z
    BY <1>5, <2>1
  <2>3. ASSUME NEW n \in Nat, n \in Z PROVE n + 1 \in Z
    <3> SUFFICES ASSUME n + 1 <= N PROVE L[n + 1] <= 0
      OBVIOUS
    <3>1. n \in 0..N /\ n + 1 \in 1..N /\ (n + 1) - 1 = n /\ n <= N
      BY <1>1
    <3>2. L[n] - L[n + 1] \in Nat /\ L[n] \in Nat /\ L[n + 1] \in Nat
      BY <1>1, <1>5, <1>6, <3>1
    <3> QED
      BY <2>3, <3>1, <3>2
  <2>4. N \in Z
    <3> HIDE DEF Z
    <3> QED
      BY <1>1, <2>2, <2>3, Induct
  <2>5. L[N] \in Nat
    BY <1>1, <1>5
  <2>6. L[N] < N
    BY <1>1, <2>4, <2>5
  <2> QED
    BY <2>6 DEF L, N
<1>8. CASE total # 0
  <2> DEFINE J == {n \in Nat : n <= N =>
                     /\ total * S[n] <= capped * E[n]
                     /\ capped * E[n] + n <= total * S[n] + n * total
                     /\ L[n] = 0 \/ L[n] + NetOf(S[n], f) <= kept}
  <2>1. \A n \in 1..N : /\ shares[n] \in Nat
                        /\ total * shares[n] <= capped * c[n]
                        /\ capped * c[n] + 1 <= total * shares[n] + total
    <3> TAKE n \in 1..N
    <3>1. shares[n] = (c[n] * capped) \div total /\ c[n] \in Nat
      BY <1>1, <1>8 DEF Share
    <3> HIDE DEF total, capped, shares, N
    <3> QED
      BY <1>2, <1>3, <1>8, <3>1, ShareIsClose
  <2>2. shares \in Seq(Nat) /\ Len(shares) = N
    BY <1>1, <2>1
  <2>3. /\ E[0] = 0 /\ (\A n \in 1..N : E[n] = E[n - 1] + c[n]) /\ (\A n \in 0..N : E[n] \in Nat)
        /\ S[0] = 0 /\ (\A n \in 1..N : S[n] = S[n - 1] + shares[n]) /\ (\A n \in 0..N : S[n] \in Nat)
    <3>1. /\ S[0] = 0 /\ (\A n \in 1..Len(shares) : S[n] = S[n - 1] + shares[n])
          /\ (\A n \in 0..Len(shares) : S[n] \in Nat)
      <4> HIDE DEF shares
      <4> QED
        BY <2>2, EarnedUnfolds
    <3>2. E[0] = 0 /\ (\A n \in 1..N : E[n] = E[n - 1] + c[n]) /\ (\A n \in 0..N : E[n] \in Nat)
      BY EarnedUnfolds
    <3> HIDE DEF shares, S, E, N
    <3> QED
      BY <2>2, <3>1, <3>2
  <2>4. \A n \in 1..N : Share(p, c, n) = shares[n]
    OBVIOUS
  <2> HIDE DEF N, total, capped, kept, L, E, shares, S, f
  <2>5. 0 \in J
    <3>1. total * 0 = 0 /\ capped * 0 = 0 /\ 0 * total = 0
      BY <1>2, <1>3
    <3>2. NetOf(0, f) = 0
      <4>1. f \in 0..100
        BY DEF f
      <4>2. NetOf(0, f) \in 0..0
        BY <4>1, NetFits
      <4> QED
        BY <4>2
    <3> QED
      BY <1>3, <1>4, <1>5, <2>3, <3>1, <3>2
  <2>6. ASSUME NEW n \in Nat, n \in J PROVE n + 1 \in J
    <3> SUFFICES ASSUME n + 1 <= N
                 PROVE  /\ total * S[n + 1] <= capped * E[n + 1]
                        /\ capped * E[n + 1] + (n + 1) <= total * S[n + 1] + (n + 1) * total
                        /\ L[n + 1] = 0 \/ L[n + 1] + NetOf(S[n + 1], f) <= kept
      OBVIOUS
    <3>1. n \in 0..N /\ n + 1 \in 1..N /\ n + 1 \in 0..N /\ (n + 1) - 1 = n /\ n <= N
      BY <1>1
    <3> DEFINE q == shares[n + 1]
    <3>2. /\ S[n + 1] = S[n] + q /\ E[n + 1] = E[n] + c[n + 1]
          /\ S[n] \in Nat /\ E[n] \in Nat /\ q \in Nat /\ c[n + 1] \in Nat
          /\ total * q <= capped * c[n + 1] /\ capped * c[n + 1] + 1 <= total * q + total
      BY <1>1, <2>1, <2>3, <3>1
    <3>3. /\ total * S[n] <= capped * E[n]
          /\ capped * E[n] + n <= total * S[n] + n * total
          /\ L[n] = 0 \/ L[n] + NetOf(S[n], f) <= kept
      BY <2>6, <3>1
    <3>4. /\ total * (S[n] + q) <= capped * (E[n] + c[n + 1])
          /\ capped * (E[n] + c[n + 1]) + (n + 1) <= total * (S[n] + q) + (n + 1) * total
      BY <1>2, <1>3, <3>2, <3>3, SharesAddUp
    <3>5. L[n + 1] = L[n] - Lesser(NetOf(q, f), L[n]) /\ L[n] \in Nat /\ L[n + 1] \in Nat
      BY <1>5, <2>4, <3>1
    <3>6. /\ NetOf(S[n] + q, f) <= NetOf(S[n], f) + NetOf(q, f)
          /\ NetOf(S[n] + q, f) \in Nat /\ NetOf(S[n], f) \in Nat /\ NetOf(q, f) \in Nat
      <4>1. f \in 0..100 /\ S[n] + q \in Nat
        BY <3>2 DEF f
      <4>2. NetOf(S[n] + q, f) <= NetOf(S[n], f) + NetOf(q, f)
        BY <3>2, <4>1, NetsAdd
      <4>3. /\ NetOf(S[n] + q, f) \in 0..(S[n] + q) /\ NetOf(S[n], f) \in 0..S[n]
            /\ NetOf(q, f) \in 0..q
        BY <3>2, <4>1, NetFits
      <4> QED
        BY <3>2, <4>2, <4>3
    <3>7. L[n + 1] = 0 \/ L[n + 1] + NetOf(S[n + 1], f) <= kept
      <4>1. kept \in Nat
        BY <1>3, <1>4
      <4> HIDE DEF q
      <4> QED
        BY <3>2, <3>3, <3>5, <3>6, <4>1 DEF Lesser
    <3> QED
      BY <3>2, <3>4, <3>7
  <2>7. N \in J
    <3> HIDE DEF J
    <3> QED
      BY <1>1, <2>5, <2>6, Induct
  <2>8. /\ total * S[N] <= capped * total
        /\ capped * total + N <= total * S[N] + N * total
        /\ L[N] = 0 \/ L[N] + NetOf(S[N], f) <= kept
        /\ S[N] \in Nat /\ L[N] \in Nat
    BY <1>1, <1>2, <1>5, <2>3, <2>7
  <2>9. S[N] <= capped /\ capped < S[N] + N
    <3> DEFINE s == S[N]
    <3>1. total * s <= capped * total /\ capped * total + N <= total * s + N * total /\ s \in Nat
      BY <2>8
    <3> HIDE DEF s
    <3>2. s <= capped /\ capped < s + N
      BY <1>1, <1>2, <1>3, <1>8, <3>1, WithinAPenny
    <3> QED
      BY <3>2 DEF s
  <2>10. NetOf(capped, f) - NetOf(S[N], f) <= capped - S[N] /\ NetOf(S[N], f) \in 0..S[N]
    <3>1. f \in 0..100
      BY DEF f
    <3> QED
      BY <1>3, <2>8, <2>9, <3>1, NetGrowsLess, NetFits
  <2>11. L[N] < N
    BY <1>1, <1>3, <1>4, <2>8, <2>9, <2>10 DEF kept
  <2> QED
    BY <2>11 DEF L, N
<1> QED
  BY <1>7, <1>8

\* A pool is split without a penny made or lost.
LEMMA PoolSplits ==
    ASSUME NEW t, t.pool_max_budget \in Nat, t.rate_unit_pence \in Nat,
           t.rate_unit_quantity \in Nat \ {0}, t.seller_pct \in 0..100, t.buyer_pct \in 0..100,
           NEW v \in Nat, NEW r, r = PoolSettlementFor(t, v)
    PROVE  /\ r.pool_net_to_owner + r.pool_platform_take + r.refund_to_business
                 = DealMoney(t.pool_max_budget, t.seller_pct, t.buyer_pct).charge_amount
           /\ r.pool_net_to_owner >= 0 /\ r.pool_platform_take >= 0
           /\ r.refund_to_business >= 0
<1> DEFINE units == v \div t.rate_unit_quantity
           budget == t.pool_max_budget
           gross == Lesser(units * t.rate_unit_pence, budget)
           sf == BuyerFee(gross, t.seller_pct)
           bf == BuyerFee(gross, t.buyer_pct)
           all == BuyerFee(budget, t.buyer_pct)
<1>1. units \in Nat
  OBVIOUS
<1>2. gross \in Nat /\ gross <= budget
  <2> DEFINE worth == units * t.rate_unit_pence
  <2>1. worth \in Nat
    BY <1>1
  <2> HIDE DEF worth
  <2> QED
    BY <2>1 DEF Lesser
<1>3. sf \in Nat /\ sf <= gross /\ bf \in Nat /\ all \in Nat /\ bf <= all /\ budget \in Nat
  <2> HIDE DEF gross
  <2> QED
    BY <1>2, FeeIsNat, FeeGrows
<1> DEFINE money(x) == DealMoney(x, t.seller_pct, t.buyer_pct)
<1>4. /\ money(gross).net_to_owner = gross - sf /\ money(gross).platform_take = bf + sf
      /\ money(gross).charge_amount = gross + bf /\ money(budget).charge_amount = budget + all
  BY DEF DealMoney, BuyerFee
<1>5. /\ r.pool_net_to_owner = money(gross).net_to_owner
      /\ r.pool_platform_take = money(gross).platform_take
      /\ r.refund_to_business = money(budget).charge_amount - money(gross).charge_amount
  BY DEF PoolSettlementFor
<1> HIDE DEF gross, sf, bf, all, budget, money
<1>6. /\ (gross - sf) + (bf + sf) + (budget + all - (gross + bf)) = budget + all
      /\ gross - sf >= 0 /\ bf + sf >= 0 /\ budget + all - (gross + bf) >= 0
  BY <1>2, <1>3
<1>7. /\ r.pool_net_to_owner + r.pool_platform_take + r.refund_to_business
              = money(budget).charge_amount
      /\ r.pool_net_to_owner >= 0 /\ r.pool_platform_take >= 0 /\ r.refund_to_business >= 0
  <2> DEFINE net == r.pool_net_to_owner
             take == r.pool_platform_take
             back == r.refund_to_business
             charge == money(budget).charge_amount
             used == money(gross).charge_amount
  <2>1. net = gross - sf /\ take = bf + sf /\ charge = budget + all /\ used = gross + bf
        /\ back = charge - used
    BY <1>4, <1>5
  <2> HIDE DEF net, take, back, charge, used
  <2>2. net + take + back = charge /\ net >= 0 /\ take >= 0 /\ back >= 0
    BY <1>2, <1>3, <1>6, <2>1
  <2> QED
    BY <2>2 DEF net, take, back, charge
<1> QED
  BY <1>7 DEF budget, money

\* The amounts of a function, added up one after the other.
LEMMA FoldIsSum ==
    ASSUME NEW f, IsFiniteSet(DOMAIN f), \A n \in DOMAIN f : f[n] \in Nat
    PROVE  FoldFunction(+, 0, f) = SumOver(f, DOMAIN f)
<1> DEFINE S == DOMAIN f
           I == CHOOSE iter : Sums(f, S, iter)
<1>1. FoldFunction(+, 0, f) = I[S]
  BY DEF FoldFunction, FoldFunctionOnSet, MapThenFoldSet, Sums, Pick
<1> QED
  BY <1>1 DEF SumOver

\* Where the walk is: a pool and views, or a program and what its owners earned.
WalkInv == \/ /\ account.kind = "pool" /\ account.terms \in PoolTerms /\ account.views \in Nat
        \/ /\ account.kind = "program" /\ account.terms \in AffiliatePrograms
           /\ account.earned \in [1..account.terms.owners -> Nat]

LEMMA WalkBegins == ASSUME WalkInit PROVE WalkInv
BY SettlementAssumption DEF WalkInit, WalkInv

LEMMA WalkStep == ASSUME WalkInv, [WalkNext]_account PROVE WalkInv'
<1>1. CASE View
  <2>1. /\ account.kind = "pool" /\ account.terms \in PoolTerms /\ account.views \in Nat
        /\ account' = [account EXCEPT !.views = account.views + 1]
    BY <1>1 DEF View, IsPool, WalkInv
  <2>2. account'.kind = "pool" /\ account'.terms \in PoolTerms /\ account'.views \in Nat
    BY <2>1
  <2> QED
    BY <2>2 DEF WalkInv
<1>2. CASE Earning
  <2>1. /\ account.kind = "program" /\ account.terms \in AffiliatePrograms
        /\ account.earned \in [1..account.terms.owners -> Nat]
    BY <1>2 DEF Earning, IsProgram, WalkInv
  <2>2. PICK n \in DOMAIN account.earned, c \in Commissions :
               account' = [account EXCEPT !.earned[n] = account.earned[n] + c]
    BY <1>2 DEF Earning
  <2>3. /\ account'.kind = "program" /\ account'.terms \in AffiliatePrograms
        /\ account'.earned \in [1..account'.terms.owners -> Nat]
    BY <2>1, <2>2, SettlementAssumption
  <2> QED
    BY <2>3 DEF WalkInv
<1>3. CASE UNCHANGED account
  BY <1>3 DEF WalkInv
<1> QED
  BY <1>1, <1>2, <1>3 DEF WalkNext

\* At every point of the walk the settlement made there keeps its pennies.
LEMMA WalkIsRight ==
    ASSUME WalkInv
    PROVE  SplitsLoseNoPenny
<1>1. ASSUME account.kind = "pool" PROVE PoolIsConserved
  <2> DEFINE t == account.terms
             v == account.views
  <2>1. /\ t.pool_max_budget \in Nat /\ t.rate_unit_pence \in Nat
        /\ t.rate_unit_quantity \in Nat \ {0} /\ t.seller_pct \in 0..100
        /\ t.buyer_pct \in 0..100 /\ v \in Nat
    BY <1>1, SettlementAssumption DEF WalkInv, Percentage
  <2>2. /\ pool = PoolSettlementFor(t, v)
        /\ PoolCharge = DealMoney(t.pool_max_budget, t.seller_pct, t.buyer_pct).charge_amount
    BY DEF pool, PoolCharge, terms
  <2> HIDE DEF t, v
  <2> QED
    BY <2>1, <2>2, PoolSplits DEF PoolIsConserved
<1>2. ASSUME account.kind = "program" PROVE AffiliateSlackIsPennies
  <2> DEFINE p == account.terms
             c == account.earned
             r == AffiliateSettlementFor(p, c)
  <2>1. /\ p.owners \in Nat \ {0} /\ p.pool_max_budget \in Nat
        /\ p.payout_fee_percent \in 0..100 /\ p.funding_fee_percent \in 0..100
        /\ c \in [1..p.owners -> Nat]
    BY <1>2, SettlementAssumption DEF WalkInv, Percentage
  <2>2. affiliate = r
    BY DEF affiliate, terms, earned
  <2>3. Kept = NetOf(r.total_commission_capped, p.payout_fee_percent)
    BY <2>2 DEF Kept, terms, DealMoney, NetOf
  <2> HIDE DEF p, c
  <2>4. c \in Seq(Nat) /\ Len(c) = p.owners /\ DOMAIN c = 1..p.owners /\ c # <<>>
    BY <2>1
  <2> HIDE DEF r
  <2>5. /\ DOMAIN r.net_to_owner = DOMAIN c
        /\ \A n \in DOMAIN c : r.net_to_owner[n] \in 0..c[n]
        /\ SumOver(r.net_to_owner, DOMAIN c)
                 = NetOf(r.total_commission_capped, p.payout_fee_percent) - LeftFn(p, c)[Len(c)]
        /\ r.total_commission_capped \in 0..p.pool_max_budget
    BY <2>1, <2>4, SettlementAddsUp DEF r
  <2>6. \A n \in DOMAIN c : r.net_to_owner[n] \in Nat
    BY <2>1, <2>4, <2>5
  <2>7. IsFiniteSet(DOMAIN c) /\ Cardinality(DOMAIN c) = Len(c)
    <3>1. IsFiniteSet(1..Len(c)) /\ Cardinality(1..Len(c)) = Len(c)
      <4>1. Len(c) \in Int /\ 1 \in Int /\ Len(c) >= 1 /\ Len(c) - 1 + 1 = Len(c)
        BY <2>1, <2>4
      <4> QED
        BY <4>1, FS_Interval
    <3> QED
      BY <2>4, <3>1
  <2>8. PaidOut = SumOver(r.net_to_owner, DOMAIN c)
    BY <2>2, <2>5, <2>6, <2>7, FoldIsSum DEF PaidOut
  <2>9. LeftFn(p, c)[Len(c)] < Len(c)
    BY <2>1, <2>4, SlackIsPennies
  <2>10. LeftFn(p, c)[Len(c)] \in Nat
    BY <2>1, <2>4, LeftUnfolds
  <2>11. Kept \in Nat
    <3>1. r.total_commission_capped \in Nat
      BY <2>1, <2>5
    <3>2. NetOf(r.total_commission_capped, p.payout_fee_percent) \in 0..r.total_commission_capped
      BY <2>1, <3>1, NetFits
    <3> QED
      BY <2>3, <3>1, <3>2
  <2>12. PaidOut <= Kept /\ Kept - PaidOut < Cardinality(DOMAIN c)
    BY <2>3, <2>4, <2>1, <2>5, <2>7, <2>8, <2>9, <2>10, <2>11
  <2>13. \A n \in DOMAIN c : affiliate.net_to_owner[n] >= 0
    BY <2>2, <2>6
  <2> QED
    <3>1. earned = c
      BY DEF earned, c
    <3> QED
      BY <2>12, <2>13, <3>1 DEF AffiliateSlackIsPennies
<1> QED
  BY <1>1, <1>2 DEF SplitsLoseNoPenny, PoolIsConserved, AffiliateSlackIsPennies,
                    IsPool, IsProgram

\* PenniesAreKept, for every pool and every price, every number of owners and
\* whatever they earned: a pool is divided to the penny, the owners of a program
\* together never get more than the net of what is used of it, and rounding
\* leaves less than a penny an owner behind (money.py pool_settlement_for,
\* affiliate_settlement_for: "at most a few pence").
THEOREM PenniesAreKept == WalkSpec => []SplitsLoseNoPenny
<1>1. WalkInit => WalkInv
  BY WalkBegins
<1>2. WalkInv /\ [WalkNext]_account => WalkInv'
  BY WalkStep
<1>3. WalkInv => SplitsLoseNoPenny
  BY WalkIsRight
<1> QED
  BY <1>1, <1>2, <1>3, PTL DEF WalkSpec
=============================================================================
