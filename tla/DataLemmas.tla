----------------------------- MODULE DataLemmas -----------------------------
(***************************************************************************)
(* What the proofs of this project need of data: recursion along a         *)
(* sequence, and sums over finite sets.  SumFunctionOnSet is defined by    *)
(* recursion over the subsets of its index set; the lemmas give its value  *)
(* without the recursion.  All inductions are by minimal counterexample.   *)
(***************************************************************************)
EXTENDS Integers, FiniteSetsExt, FiniteSetTheorems, WellFoundedInduction, TLAPS

\* A non-empty set of numbers has a least one.
LEMMA MinIsLeast ==
    ASSUME NEW S \in SUBSET Nat, S # {}
    PROVE  Min(S) \in S /\ \A y \in S : Min(S) <= y
<1> DEFINE R == OpToRel(<, Nat)
<1>1. IsWellFoundedOn(R, Nat)
  BY NatLessThanWellFounded
<1>2. \A x, y \in Nat : <<y, x>> \in R <=> y < x
  BY DEF OpToRel
<1> HIDE DEF R
<1>3. PICK x \in S : \A y \in S : ~ (<<y, x>> \in R)
  BY <1>1, WFMin
<1>4. \A y \in S : ~ (y < x)
  BY <1>2, <1>3
<1>5. \A y \in S : x <= y
  BY <1>4
<1> QED
  BY <1>5 DEF Min

\* A non-empty set of subsets of a finite set has a minimal one.
LEMMA MinimalSubset ==
    ASSUME NEW S, IsFiniteSet(S), NEW C \in SUBSET SUBSET S, C # {}
    PROVE  \E s \in C : \A t \in C : t \subseteq s => t = s
<1> DEFINE R == StrictSubsetOrdering(S)
           F == FiniteSubsetsOf(S)
<1>1. C \subseteq F
  BY FS_Subset DEF FiniteSubsetsOf
<1>2. IsWellFoundedOn(R, F)
  BY FS_StrictSubsetOrderingWellFounded
<1>3. \A s, t \in C : t \subseteq s /\ t # s => <<t, s>> \in R
  BY DEF StrictSubsetOrdering
<1> HIDE DEF R, F
<1>4. PICK s \in C : \A t \in C : ~ (<<t, s>> \in R)
  BY <1>1, <1>2, WFMin
<1> QED
  BY <1>3, <1>4

\* x is the greatest element of s.
Greatest(x, s) == x \in s /\ \A y \in s : x >= y

\* Every non-empty set of numbers in a finite set has a greatest element.
LEMMA GreatestExists ==
    ASSUME NEW S, IsFiniteSet(S)
    PROVE  \A s \in SUBSET S : s # {} /\ s \subseteq Int => \E x \in s : Greatest(x, s)
<1> DEFINE C == {s \in SUBSET S : s # {} /\ s \subseteq Int /\ ~ \E x \in s : Greatest(x, s)}
<1> SUFFICES ASSUME C # {} PROVE FALSE
  OBVIOUS
<1>0. C \in SUBSET SUBSET S
  OBVIOUS
<1> HIDE DEF C
<1>1. PICK s \in C : \A t \in C : t \subseteq s => t = s
  BY <1>0, MinimalSubset
<1> USE DEF C
<1>2. PICK x \in s : TRUE
  OBVIOUS
<1>3. s \subseteq Int
  OBVIOUS
<1>4. CASE s \ {x} = {}
  BY <1>2, <1>3, <1>4 DEF Greatest
<1>5. CASE s \ {x} # {}
  <2>1. s \ {x} \in SUBSET S /\ s \ {x} \subseteq s /\ s \ {x} # s
    BY <1>1, <1>2
  <2>2. s \ {x} \notin C
    BY <1>1, <2>1
  <2>3. PICK m \in s \ {x} : Greatest(m, s \ {x})
    BY <1>5, <2>1, <2>2
  <2>4. Greatest(x, s) \/ Greatest(m, s)
    BY <1>2, <1>3, <2>3 DEF Greatest
  <2> QED
    BY <1>1, <1>2, <2>3, <2>4
<1> QED
  BY <1>4, <1>5

\* A non-empty finite set of numbers has a greatest one.
LEMMA MaxIsGreatest ==
    ASSUME NEW S, IsFiniteSet(S), S \subseteq Int, S # {}
    PROVE  Max(S) \in S /\ \A y \in S : Max(S) >= y
BY GreatestExists DEF Max, Greatest

-----------------------------------------------------------------------------
(***************************************************************************)
(* Steps along a sequence.                                                 *)
(***************************************************************************)
\* What holds at 0 and is handed on by each of n steps holds at all of them.
LEMMA StepsReach ==
    ASSUME NEW n \in Nat, NEW S, 0 \in S, \A k \in 1 .. n : k - 1 \in S => k \in S
    PROVE  \A k \in 0 .. n : k \in S
<1> DEFINE C == {k \in 0 .. n : k \notin S}
<1> SUFFICES ASSUME C # {} PROVE FALSE
  OBVIOUS
<1>1. C \in SUBSET Nat
  OBVIOUS
<1> HIDE DEF C
<1>2. Min(C) \in C /\ \A y \in C : Min(C) <= y
  BY <1>1, MinIsLeast
<1>3. PICK m \in C : \A y \in C : m <= y
  BY <1>2
<1>4. m \in 0 .. n /\ m \notin S
  BY DEF C
<1>5. m \in 1 .. n /\ m - 1 \in 0 .. n
  BY <1>4
<1>6. m - 1 \notin S
  BY <1>4, <1>5
<1>7. m - 1 \in C
  BY <1>5, <1>6 DEF C
<1> QED
  BY <1>3, <1>5, <1>7

\* n steps from a, each a function on T, can be taken.
Takes(f, n, T, a, step) ==
    /\ f \in [0 .. n -> T]
    /\ f[0] = a
    /\ \A k \in 1 .. n : f[k] = step[k][f[k - 1]]

LEMMA StepsExist ==
    ASSUME NEW n \in Nat, NEW T, NEW a \in T, NEW step,
           \A k \in 1 .. n : \A x \in T : step[k][x] \in T
    PROVE  \E f : Takes(f, n, T, a, step)
<1> DEFINE S == {m \in 0 .. n : \E f : Takes(f, m, T, a, step)}
<1>1. 0 \in S
  <2>1. Takes([k \in 0 .. 0 |-> a], 0, T, a, step)
    BY DEF Takes
  <2> QED
    BY <2>1
<1>2. ASSUME NEW m \in 1 .. n, m - 1 \in S PROVE m \in S
  <2>1. PICK f : Takes(f, m - 1, T, a, step)
    BY <1>2
  <2> DEFINE g == [k \in 0 .. m |-> IF k = m THEN step[m][f[m - 1]] ELSE f[k]]
  <2>2. f[m - 1] \in T /\ \A k \in 0 .. m - 1 : f[k] \in T
    BY <2>1 DEF Takes
  <2>3. g \in [0 .. m -> T]
    BY <2>2
  <2>4. g[0] = a
    BY <2>1 DEF Takes
  <2>5. ASSUME NEW k \in 1 .. m PROVE g[k] = step[k][g[k - 1]]
    <3>1. g[k - 1] = f[k - 1]
      OBVIOUS
    <3>2. CASE k = m
      BY <3>1, <3>2
    <3>3. CASE k # m
      <4>1. k \in 1 .. m - 1 /\ g[k] = f[k]
        BY <3>3
      <4>2. f[k] = step[k][f[k - 1]]
        BY <2>1, <4>1 DEF Takes
      <4> QED
        BY <3>1, <4>1, <4>2
    <3> QED
      BY <3>2, <3>3
  <2>6. Takes(g, m, T, a, step)
    BY <2>3, <2>4, <2>5 DEF Takes
  <2> QED
    BY <2>6
<1> HIDE DEF S
<1>3. n \in S
  BY <1>1, <1>2, StepsReach
<1> QED
  BY <1>3 DEF S

-----------------------------------------------------------------------------
(***************************************************************************)
(* Sums.                                                                   *)
(***************************************************************************)
\* The element the recursion takes off next.
pick(s) == CHOOSE x \in s : TRUE

\* h adds up f over every subset of T.
IsSum(f, h, T) ==
    h = [s \in SUBSET T |->
            IF s = {} THEN 0 ELSE f[pick(s)] + h[s \ {pick(s)}]]

\* The library's sum is a value of such a function.
LEMMA SumIsRecursion ==
    ASSUME NEW f, NEW T
    PROVE  SumFunctionOnSet(f, T) = (CHOOSE h : IsSum(f, h, T))[T]
BY DEF SumFunctionOnSet, FoldFunctionOnSet, MapThenFoldSet, IsSum, pick

\* The sum function at one subset.
LEMMA SumAt ==
    ASSUME NEW f, NEW h, NEW T, IsSum(f, h, T), NEW s \in SUBSET T
    PROVE  h[s] = IF s = {} THEN 0 ELSE f[pick(s)] + h[s \ {pick(s)}]
BY DEF IsSum

\* What the recursion takes off is there.
LEMMA PickIn ==
    ASSUME NEW s, s # {}
    PROVE  pick(s) \in s
BY DEF pick

\* Two sum functions agree wherever both are defined.
LEMMA SumsAgree ==
    ASSUME NEW f, NEW T, IsFiniteSet(T), NEW U,
           NEW h, IsSum(f, h, T), NEW k, IsSum(f, k, U),
           NEW s \in SUBSET T, s \in SUBSET U
    PROVE  h[s] = k[s]
<1> DEFINE C == {t \in SUBSET T : t \in SUBSET U /\ h[t] # k[t]}
<1> SUFFICES ASSUME C # {} PROVE FALSE
  OBVIOUS
<1>0. C \in SUBSET SUBSET T
  OBVIOUS
<1> HIDE DEF C
<1>1. PICK t \in C : \A u \in C : u \subseteq t => u = t
  BY <1>0, MinimalSubset
<1> USE DEF C
<1>2. t # {}
  BY <1>1, SumAt
<1>3. pick(t) \in t
  BY <1>2, PickIn
<1>4. h[t \ {pick(t)}] = k[t \ {pick(t)}]
  BY <1>1, <1>3
<1>5. h[t] = f[pick(t)] + h[t \ {pick(t)}]
  BY <1>2, IsSum(f, h, T) DEF IsSum
<1>6. k[t] = f[pick(t)] + k[t \ {pick(t)}]
  BY <1>2, IsSum(f, k, U) DEF IsSum
<1> QED
  BY <1>1, <1>4, <1>5, <1>6

\* Every finite set has a sum function.
LEMMA SumExists ==
    ASSUME NEW f, NEW S, IsFiniteSet(S)
    PROVE  \A T \in SUBSET S : \E h : IsSum(f, h, T)
<1> DEFINE C == {T \in SUBSET S : ~ \E h : IsSum(f, h, T)}
<1> SUFFICES ASSUME C # {} PROVE FALSE
  OBVIOUS
<1>0. C \in SUBSET SUBSET S
  OBVIOUS
<1> HIDE DEF C
<1>1. PICK T \in C : \A u \in C : u \subseteq T => u = T
  BY <1>0, MinimalSubset
<1> USE DEF C
<1>2. T \in SUBSET S /\ IsFiniteSet(T)
  BY <1>1, FS_Subset
<1> DEFINE V(u) == (CHOOSE h : IsSum(f, h, u))[u]
           g == [s \in SUBSET T |-> IF s = {} THEN 0 ELSE f[pick(s)] + V(s \ {pick(s)})]
<1>3. ASSUME NEW u \in SUBSET T, u # T PROVE g[u] = V(u)
  <2> DEFINE h == CHOOSE k : IsSum(f, k, u)
  <2>1. IsSum(f, h, u)
    BY <1>1, <1>2, <1>3
  <2>2. V(u) = h[u]
    OBVIOUS
  <2>3. CASE u = {}
    BY <2>1, <2>2, <2>3, SumAt
  <2>4. CASE u # {}
    <3> DEFINE w == u \ {pick(u)}
    <3>1. pick(u) \in u
      BY <2>4, PickIn
    <3>2. w \in SUBSET u /\ w \in SUBSET T /\ w # T
      BY <3>1
    <3> DEFINE k == CHOOSE j : IsSum(f, j, w)
    <3>3. IsSum(f, k, w)
      BY <1>1, <1>2, <3>2
    <3>4. IsFiniteSet(u) /\ w \in SUBSET w
      BY <1>2, FS_Subset
    <3>5. h[w] = V(w)
      <4> HIDE DEF h, k, w
      <4>1. h[w] = k[w]
        BY <2>1, <3>2, <3>3, <3>4, SumsAgree
      <4> QED
        BY <4>1 DEF k
    <3>6. h[u] = f[pick(u)] + h[w]
      BY <2>1, <2>4, SumAt
    <3> QED
      BY <2>2, <2>4, <3>5, <3>6
  <2> QED
    BY <2>3, <2>4
<1>4. ASSUME NEW s \in SUBSET T, s # {}
      PROVE  g[s] = f[pick(s)] + g[s \ {pick(s)}]
  BY <1>3, <1>4, PickIn
<1>5. g = [s \in SUBSET T |-> IF s = {} THEN 0 ELSE f[pick(s)] + g[s \ {pick(s)}]]
  <2>1. g = [s \in SUBSET T |-> g[s]] /\ g[{}] = 0
    OBVIOUS
  <2> HIDE DEF g
  <2> QED
    BY <1>4, <2>1
<1>6. IsSum(f, g, T)
  BY <1>5 DEF IsSum
<1> QED
  BY <1>1, <1>6

\* The recursion of the sum itself: it is zero of nothing, and takes off one
\* element of anything else.
LEMMA SumStep ==
    ASSUME NEW f, NEW S, IsFiniteSet(S)
    PROVE  SumFunctionOnSet(f, S) =
              IF S = {} THEN 0 ELSE f[pick(S)] + SumFunctionOnSet(f, S \ {pick(S)})
<1> DEFINE h == CHOOSE k : IsSum(f, k, S)
           w == S \ {pick(S)}
           g == CHOOSE k : IsSum(f, k, w)
<1>1. IsSum(f, h, S) /\ IsSum(f, g, w)
  BY SumExists
<1>2. SumFunctionOnSet(f, S) = h[S] /\ SumFunctionOnSet(f, w) = g[w]
  BY SumIsRecursion
<1>3. h[w] = g[w]
  BY <1>1, SumsAgree
<1>4. h[S] = IF S = {} THEN 0 ELSE f[pick(S)] + h[w]
  BY <1>1, SumAt
<1> QED
  BY <1>2, <1>3, <1>4

\* The sum of nothing.
LEMMA SumEmpty ==
    ASSUME NEW f
    PROVE  SumFunctionOnSet(f, {}) = 0
BY SumStep, FS_EmptySet

\* A sum of integers is an integer.
LEMMA SumType ==
    ASSUME NEW f, NEW S, IsFiniteSet(S), \A x \in S : f[x] \in Int
    PROVE  SumFunctionOnSet(f, S) \in Int
<1> DEFINE C == {s \in SUBSET S : ~ (SumFunctionOnSet(f, s) \in Int)}
<1> SUFFICES ASSUME C # {} PROVE FALSE
  OBVIOUS
<1>0. C \in SUBSET SUBSET S
  OBVIOUS
<1> HIDE DEF C
<1>1. PICK s \in C : \A u \in C : u \subseteq s => u = s
  BY <1>0, MinimalSubset
<1> USE DEF C
<1>2. s # {}
  <2> SUFFICES ASSUME s = {} PROVE FALSE
    OBVIOUS
  <2> QED
    BY <1>1, SumEmpty
<1>3. pick(s) \in s /\ IsFiniteSet(s)
  BY <1>1, <1>2, PickIn, FS_Subset
<1>4. SumFunctionOnSet(f, s \ {pick(s)}) \in Int
  BY <1>1, <1>3
<1>5. SumFunctionOnSet(f, s) = f[pick(s)] + SumFunctionOnSet(f, s \ {pick(s)})
  BY <1>2, <1>3, SumStep
<1> QED
  BY <1>1, <1>3, <1>4, <1>5

\* A sum of natural numbers is one.
LEMMA SumNat ==
    ASSUME NEW f, NEW S, IsFiniteSet(S), \A x \in S : f[x] \in Nat
    PROVE  SumFunctionOnSet(f, S) \in Nat
<1> DEFINE C == {s \in SUBSET S : ~ (SumFunctionOnSet(f, s) \in Nat)}
<1> SUFFICES ASSUME C # {} PROVE FALSE
  OBVIOUS
<1>0. C \in SUBSET SUBSET S
  OBVIOUS
<1> HIDE DEF C
<1>1. PICK s \in C : \A u \in C : u \subseteq s => u = s
  BY <1>0, MinimalSubset
<1> USE DEF C
<1>2. s # {}
  <2> SUFFICES ASSUME s = {} PROVE FALSE
    OBVIOUS
  <2> QED
    BY <1>1, SumEmpty
<1>3. pick(s) \in s /\ IsFiniteSet(s)
  BY <1>1, <1>2, PickIn, FS_Subset
<1>4. SumFunctionOnSet(f, s \ {pick(s)}) \in Nat
  BY <1>1, <1>3
<1>5. SumFunctionOnSet(f, s) = f[pick(s)] + SumFunctionOnSet(f, s \ {pick(s)})
  BY <1>2, <1>3, SumStep
<1> QED
  BY <1>1, <1>3, <1>4, <1>5

\* Any element may be taken off first: addition is commutative.
LEMMA SumRemove ==
    ASSUME NEW f, NEW S, IsFiniteSet(S), \A x \in S : f[x] \in Int, NEW y \in S
    PROVE  SumFunctionOnSet(f, S) = f[y] + SumFunctionOnSet(f, S \ {y})
<1> DEFINE total(s) == SumFunctionOnSet(f, s)
           C == {s \in SUBSET S : \E z \in s : total(s) # f[z] + total(s \ {z})}
<1> SUFFICES ASSUME C # {} PROVE FALSE
  OBVIOUS
<1>0. C \in SUBSET SUBSET S
  OBVIOUS
<1> HIDE DEF C
<1>1. PICK s \in C : \A u \in C : u \subseteq s => u = s
  BY <1>0, MinimalSubset
<1> USE DEF C
<1>2. PICK z \in s : total(s) # f[z] + total(s \ {z})
  BY <1>1
<1>3. pick(s) \in s /\ s \in SUBSET S /\ IsFiniteSet(s)
  BY <1>1, <1>2, PickIn, FS_Subset
<1>4. total(s) = f[pick(s)] + total(s \ {pick(s)})
  BY <1>2, <1>3, SumStep
<1>5. pick(s) # z
  BY <1>2, <1>4
<1> DEFINE p == pick(s)
           sp == s \ {p}
           sz == s \ {z}
           both == s \ {p, z}
<1>6. /\ sp \ {z} = both /\ sz \ {p} = both
      /\ z \in sp /\ p \in sz
      /\ sp # s /\ sz # s
      /\ sp \in SUBSET S /\ sz \in SUBSET S
  BY <1>3, <1>5
<1>7. total(sp) = f[z] + total(both)
  BY <1>1, <1>6
<1>8. total(sz) = f[p] + total(both)
  BY <1>1, <1>6
<1>9. f[z] \in Int /\ f[p] \in Int /\ total(both) \in Int
  <2>1. IsFiniteSet(both)
    BY <1>3, FS_Subset
  <2> QED
    BY <1>3, <2>1, SumType
<1> HIDE DEF total, p, sp, sz, both
<1> QED
  BY <1>2, <1>4, <1>7, <1>8, <1>9 DEF p, sp, sz

\* A sum depends only on the values at its indices.
LEMMA SumEqual ==
    ASSUME NEW f, NEW g, NEW S, IsFiniteSet(S), \A x \in S : f[x] = g[x]
    PROVE  SumFunctionOnSet(f, S) = SumFunctionOnSet(g, S)
<1> DEFINE C == {s \in SUBSET S : SumFunctionOnSet(f, s) # SumFunctionOnSet(g, s)}
<1> SUFFICES ASSUME C # {} PROVE FALSE
  OBVIOUS
<1>0. C \in SUBSET SUBSET S
  OBVIOUS
<1> HIDE DEF C
<1>1. PICK s \in C : \A u \in C : u \subseteq s => u = s
  BY <1>0, MinimalSubset
<1> USE DEF C
<1>2. s # {}
  <2> SUFFICES ASSUME s = {} PROVE FALSE
    OBVIOUS
  <2> QED
    BY <1>1, SumEmpty
<1>3. pick(s) \in s /\ IsFiniteSet(s)
  BY <1>1, <1>2, PickIn, FS_Subset
<1>4. SumFunctionOnSet(f, s \ {pick(s)}) = SumFunctionOnSet(g, s \ {pick(s)})
  BY <1>1, <1>3
<1>5. /\ SumFunctionOnSet(f, s) = f[pick(s)] + SumFunctionOnSet(f, s \ {pick(s)})
      /\ SumFunctionOnSet(g, s) = g[pick(s)] + SumFunctionOnSet(g, s \ {pick(s)})
  BY <1>2, <1>3, SumStep
<1> QED
  BY <1>1, <1>3, <1>4, <1>5

\* Adding an element.
LEMMA SumAdd ==
    ASSUME NEW f, NEW S, IsFiniteSet(S), NEW y, y \notin S,
           \A x \in S \cup {y} : f[x] \in Int
    PROVE  SumFunctionOnSet(f, S \cup {y}) = SumFunctionOnSet(f, S) + f[y]
<1>1. IsFiniteSet(S \cup {y}) /\ (S \cup {y}) \ {y} = S
  BY FS_AddElement
<1>2. SumFunctionOnSet(f, S \cup {y}) = f[y] + SumFunctionOnSet(f, S)
  BY <1>1, SumRemove
<1>3. SumFunctionOnSet(f, S) \in Int /\ f[y] \in Int
  BY SumType
<1> QED
  BY <1>2, <1>3

\* One value changed.
LEMMA SumReplace ==
    ASSUME NEW f, NEW g, NEW S, IsFiniteSet(S), NEW x \in S,
           \A y \in S : f[y] \in Int /\ g[y] \in Int,
           \A y \in S \ {x} : g[y] = f[y]
    PROVE  SumFunctionOnSet(g, S) = SumFunctionOnSet(f, S) + (g[x] - f[x])
<1> DEFINE R == S \ {x}
<1>1. IsFiniteSet(R)
  BY FS_RemoveElement
<1>2. SumFunctionOnSet(f, S) = f[x] + SumFunctionOnSet(f, R)
  BY SumRemove
<1>3. SumFunctionOnSet(g, S) = g[x] + SumFunctionOnSet(g, R)
  BY SumRemove
<1>4. SumFunctionOnSet(f, R) = SumFunctionOnSet(g, R)
  BY <1>1, SumEqual
<1>5. SumFunctionOnSet(f, R) \in Int
  BY <1>1, SumType
<1> HIDE DEF R
<1> QED
  BY <1>2, <1>3, <1>4, <1>5

\* Two sets with nothing in common add up.
LEMMA SumUnion ==
    ASSUME NEW f, NEW A, NEW B, IsFiniteSet(A), IsFiniteSet(B), A \cap B = {},
           \A x \in A \cup B : f[x] \in Int
    PROVE  SumFunctionOnSet(f, A \cup B) = SumFunctionOnSet(f, A) + SumFunctionOnSet(f, B)
<1> DEFINE total(s) == SumFunctionOnSet(f, s)
           C == {b \in SUBSET B : total(A \cup b) # total(A) + total(b)}
<1> SUFFICES ASSUME C # {} PROVE FALSE
  OBVIOUS
<1>0. C \in SUBSET SUBSET B
  OBVIOUS
<1> HIDE DEF C
<1>1. PICK b \in C : \A u \in C : u \subseteq b => u = b
  BY <1>0, MinimalSubset
<1> USE DEF C
<1>2. total(A) \in Int
  BY SumType
<1>3. b # {}
  <2> SUFFICES ASSUME b = {} PROVE FALSE
    OBVIOUS
  <2>1. total(b) = 0 /\ A \cup b = A
    BY SumEmpty
  <2> QED
    BY <1>1, <1>2, <2>1
<1>4. PICK x \in b : TRUE
  BY <1>3
<1> DEFINE c == b \ {x}
<1>5. /\ c \in SUBSET B /\ c # b /\ c \subseteq b
      /\ b = c \cup {x} /\ A \cup b = (A \cup c) \cup {x}
      /\ x \notin c /\ x \notin A \cup c
  BY <1>1, <1>4
<1>6. total(A \cup c) = total(A) + total(c)
  BY <1>1, <1>5
<1>7. IsFiniteSet(c) /\ IsFiniteSet(A \cup c)
  BY <1>5, FS_Subset, FS_Union
<1>8. /\ \A y \in c \cup {x} : f[y] \in Int
      /\ \A y \in (A \cup c) \cup {x} : f[y] \in Int
  BY <1>1, <1>4, <1>5
<1>9. total(b) = total(c) + f[x]
  BY <1>5, <1>7, <1>8, SumAdd
<1>10. total(A \cup b) = total(A \cup c) + f[x]
  BY <1>5, <1>7, <1>8, SumAdd
<1>11. total(c) \in Int /\ f[x] \in Int
  BY <1>7, <1>8, SumType
<1>12. total(A \cup b) = total(A) + total(b)
  <2> HIDE DEF total, c
  <2> QED
    BY <1>2, <1>6, <1>9, <1>10, <1>11
<1> QED
  BY <1>1, <1>12

\* Of natural numbers, what two sets cover adds up to no more than the two.
LEMMA SumCovered ==
    ASSUME NEW f, NEW S, NEW A, NEW B, IsFiniteSet(A), IsFiniteSet(B),
           S \subseteq A \cup B, \A x \in A \cup B : f[x] \in Nat
    PROVE  SumFunctionOnSet(f, S) <= SumFunctionOnSet(f, A) + SumFunctionOnSet(f, B)
<1> DEFINE total(s) == SumFunctionOnSet(f, s)
           C == {s \in SUBSET S : \E a \in SUBSET A, b \in SUBSET B :
                    s \subseteq a \cup b /\ ~ (total(s) <= total(a) + total(b))}
<1>0. IsFiniteSet(S)
  BY FS_Union, FS_Subset
<1>1. \A s : s \subseteq A \cup B => IsFiniteSet(s) /\ total(s) \in Nat
  <2> SUFFICES ASSUME NEW s, s \subseteq A \cup B
               PROVE  IsFiniteSet(s) /\ total(s) \in Nat
    OBVIOUS
  <2>1. IsFiniteSet(s)
    BY FS_Union, FS_Subset
  <2>2. \A x \in s : f[x] \in Nat
    OBVIOUS
  <2> QED
    BY <2>1, <2>2, SumNat
<1> SUFFICES ASSUME C # {} PROVE FALSE
  OBVIOUS
<1>2. C \in SUBSET SUBSET S
  OBVIOUS
<1> HIDE DEF C
<1>3. PICK s \in C : \A u \in C : u \subseteq s => u = s
  BY <1>0, <1>2, MinimalSubset
<1> USE DEF C
<1>4. PICK a \in SUBSET A, b \in SUBSET B :
        s \subseteq a \cup b /\ ~ (total(s) <= total(a) + total(b))
  BY <1>3
<1>5. total(a) \in Nat /\ total(b) \in Nat /\ total(s) \in Nat
  <2>1. a \subseteq A \cup B /\ b \subseteq A \cup B /\ s \subseteq A \cup B
    OBVIOUS
  <2> QED
    BY <1>1, <2>1
<1>6. s # {}
  <2> SUFFICES ASSUME s = {} PROVE FALSE
    OBVIOUS
  <2>1. total(s) = 0
    BY SumEmpty
  <2> HIDE DEF total
  <2> QED
    BY <1>4, <1>5, <2>1
<1>7. PICK x \in s : TRUE
  BY <1>6
<1>8. ASSUME NEW t, t \in {s, a, b}, x \in t
      PROVE  total(t) = f[x] + total(t \ {x})
  <2>1. t \subseteq A \cup B
    BY <1>3, <1>8
  <2>2. IsFiniteSet(t) /\ \A y \in t : f[y] \in Int
    BY <1>1, <2>1
  <2> QED
    BY <1>8, <2>2, SumRemove
<1>9. ASSUME NEW c \in SUBSET A, NEW d \in SUBSET B, s \ {x} \subseteq c \cup d
      PROVE  total(s \ {x}) <= total(c) + total(d)
  <2>1. s \ {x} \in SUBSET S /\ s \ {x} # s /\ s \ {x} \subseteq s
    BY <1>3, <1>7
  <2>2. s \ {x} \notin C
    BY <1>3, <2>1
  <2> QED
    BY <1>9, <2>1, <2>2
<1>10. f[x] \in Nat
  BY <1>3, <1>7
<1>11. \A t \in {s, a, b} : total(t \ {x}) \in Nat
  <2> TAKE t \in {s, a, b}
  <2>1. t \ {x} \subseteq A \cup B
    BY <1>3
  <2> QED
    BY <1>1, <2>1
<1>12. CASE x \in a
  <2>1. total(s \ {x}) <= total(a \ {x}) + total(b)
    BY <1>4, <1>9
  <2>2. total(s) = f[x] + total(s \ {x}) /\ total(a) = f[x] + total(a \ {x})
    BY <1>7, <1>8, <1>12
  <2>3. total(s \ {x}) \in Nat /\ total(a \ {x}) \in Nat
    BY <1>11
  <2> HIDE DEF total
  <2> QED
    BY <1>4, <1>5, <1>10, <2>1, <2>2, <2>3
<1>13. CASE x \in b
  <2>1. total(s \ {x}) <= total(a) + total(b \ {x})
    BY <1>4, <1>9
  <2>2. total(s) = f[x] + total(s \ {x}) /\ total(b) = f[x] + total(b \ {x})
    BY <1>7, <1>8, <1>13
  <2>3. total(s \ {x}) \in Nat /\ total(b \ {x}) \in Nat
    BY <1>11
  <2> HIDE DEF total
  <2> QED
    BY <1>4, <1>5, <1>10, <2>1, <2>2, <2>3
<1> QED
  BY <1>4, <1>7, <1>12, <1>13

\* Part of a sum of natural numbers is no more than the sum.
LEMMA SumSubset ==
    ASSUME NEW f, NEW S, NEW T, IsFiniteSet(T), S \subseteq T, \A x \in T : f[x] \in Nat
    PROVE  SumFunctionOnSet(f, S) <= SumFunctionOnSet(f, T)
<1>1. SumFunctionOnSet(f, S) <= SumFunctionOnSet(f, T) + SumFunctionOnSet(f, {})
  <2>1. IsFiniteSet({}) /\ S \subseteq T \cup {} /\ \A x \in T \cup {} : f[x] \in Nat
    BY FS_EmptySet
  <2> QED
    BY <2>1, SumCovered
<1>2. SumFunctionOnSet(f, {}) = 0 /\ SumFunctionOnSet(f, T) \in Nat
  BY SumEmpty, SumNat
<1> QED
  BY <1>1, <1>2

-----------------------------------------------------------------------------
(***************************************************************************)
(* Sums over the whole domain of a function: what a set of cells holds.    *)
(***************************************************************************)
\* It is an integer.
LEMMA SumFunctionType ==
    ASSUME NEW f, IsFiniteSet(DOMAIN f), \A x \in DOMAIN f : f[x] \in Int
    PROVE  SumFunction(f) \in Int
BY SumType DEF SumFunction

\* The same entries, the same sum.
LEMMA SumSame ==
    ASSUME NEW f, NEW g, IsFiniteSet(DOMAIN f), DOMAIN g = DOMAIN f,
           \A x \in DOMAIN f : g[x] = f[x]
    PROVE  SumFunction(g) = SumFunction(f)
BY SumEqual DEF SumFunction

\* One entry more.
LEMMA SumExtend ==
    ASSUME NEW f, NEW g, NEW x, IsFiniteSet(DOMAIN f),
           x \notin DOMAIN f, DOMAIN g = DOMAIN f \cup {x},
           \A y \in DOMAIN f : g[y] = f[y] /\ f[y] \in Int, g[x] \in Int
    PROVE  SumFunction(g) = SumFunction(f) + g[x]
<1>1. SumFunctionOnSet(g, DOMAIN f \cup {x}) = SumFunctionOnSet(g, DOMAIN f) + g[x]
  <2>1. \A y \in DOMAIN f \cup {x} : g[y] \in Int
    OBVIOUS
  <2> QED
    BY <2>1, SumAdd
<1>2. SumFunctionOnSet(g, DOMAIN f) = SumFunctionOnSet(f, DOMAIN f)
  BY SumEqual
<1> QED
  BY <1>1, <1>2 DEF SumFunction

\* One entry changed.
LEMMA SumChange ==
    ASSUME NEW f, NEW g, NEW x \in DOMAIN f, IsFiniteSet(DOMAIN f), DOMAIN g = DOMAIN f,
           \A y \in DOMAIN f : f[y] \in Int /\ g[y] \in Int,
           \A y \in DOMAIN f \ {x} : g[y] = f[y]
    PROVE  SumFunction(g) = SumFunction(f) + (g[x] - f[x])
BY SumReplace DEF SumFunction
=============================================================================
