----------------------------- MODULE SumTheorems -----------------------------
(***************************************************************************)
(* What SumFunctionOnSet computes, for any function of integers and any    *)
(* finite set of indices.  It is defined by recursion on the set: that the *)
(* recursion defines a function at all is shown first.                     *)
(***************************************************************************)
EXTENDS Integers, Functions, Folds, FiniteSetTheorems, WellFoundedInduction, TLAPS

\* A set of natural numbers that is not empty has a least element.
LEMMA Smallest ==
  ASSUME NEW S, S \subseteq Nat, S # {} PROVE \E x \in S : \A y \in S : x <= y
<1>1. \E x \in S : \A y \in S : ~ (<<y, x>> \in OpToRel(<, Nat))
  BY NatLessThanWellFounded, WFMin
<1>2. ASSUME NEW x \in S, NEW y \in S, ~ (<<y, x>> \in OpToRel(<, Nat)) PROVE x <= y
  BY <1>2 DEF OpToRel
<1> QED
  BY <1>1, <1>2

\* Induction on the subsets of a finite set, element by element.
LEMMA GrowingSets ==
  ASSUME NEW S, IsFiniteSet(S), NEW Good \in SUBSET SUBSET S, {} \in Good,
         \A T \in Good : \A x \in S \ T : T \cup {x} \in Good
  PROVE  \A T \in SUBSET S : T \in Good
<1> DEFINE bad == {n \in Nat : \E T \in SUBSET S : Cardinality(T) = n /\ T \notin Good}
<1> SUFFICES ASSUME NEW T0 \in SUBSET S, T0 \notin Good PROVE FALSE
  OBVIOUS
<1>1. \A T \in SUBSET S : IsFiniteSet(T) /\ Cardinality(T) \in Nat
  BY FS_Subset, FS_CardinalityType
<1>2. Cardinality(T0) \in bad
  BY <1>1
<1>3. bad \subseteq Nat /\ bad # {}
  BY <1>2
<1>4. PICK n \in bad : \A m \in bad : n <= m
  BY <1>3, Smallest
<1>5. PICK T \in SUBSET S : Cardinality(T) = n /\ T \notin Good
  BY <1>4
<1>6. PICK x \in T : TRUE
  BY <1>5
<1> DEFINE R == T \ {x}
<1>7. R \in SUBSET S /\ Cardinality(R) = n - 1 /\ n \in Nat /\ R \cup {x} = T /\ x \in S \ R
  BY <1>1, <1>4, <1>5, FS_RemoveElement
<1>8. n - 1 \in Nat
  BY <1>1, <1>7
<1>9. R \notin Good
  BY <1>5, <1>7
<1>10. n - 1 \in bad
  BY <1>7, <1>8, <1>9
<1> QED
  BY <1>4, <1>7, <1>8, <1>10

-----------------------------------------------------------------------------
Chosen(s) == CHOOSE x \in s : TRUE

\* sum is the function that the recursion defines on the subsets of S.
Sums(sum, f, S) ==
    sum = [s \in SUBSET S |-> IF s = {} THEN 0 ELSE f[Chosen(s)] + sum[s \ {Chosen(s)}]]

LEMMA SumIsChosen ==
  ASSUME NEW f, NEW S PROVE SumFunctionOnSet(f, S) = (CHOOSE sum : Sums(sum, f, S))[S]
  BY DEF SumFunctionOnSet, FoldFunctionOnSet, MapThenFoldSet, Sums, Chosen

\* Two such functions agree where both are defined.
LEMMA SumsAgree ==
  ASSUME NEW f, NEW S, IsFiniteSet(S), NEW T, NEW a, NEW b, Sums(a, f, S), Sums(b, f, T),
         S \subseteq T
  PROVE  \A s \in SUBSET S : a[s] = b[s]
<1> DEFINE bad == {n \in Nat : \E s \in SUBSET S : Cardinality(s) = n /\ a[s] # b[s]}
<1> SUFFICES ASSUME NEW s0 \in SUBSET S, a[s0] # b[s0] PROVE FALSE
  OBVIOUS
<1>1. \A s \in SUBSET S : IsFiniteSet(s) /\ Cardinality(s) \in Nat
  BY FS_Subset, FS_CardinalityType
<1>2. bad \subseteq Nat /\ bad # {}
  BY <1>1
<1>3. PICK n \in bad : \A m \in bad : n <= m
  BY <1>2, Smallest
<1>4. PICK s \in SUBSET S : Cardinality(s) = n /\ a[s] # b[s]
  BY <1>3
<1>5. /\ a[s] = IF s = {} THEN 0 ELSE f[Chosen(s)] + a[s \ {Chosen(s)}]
      /\ b[s] = IF s = {} THEN 0 ELSE f[Chosen(s)] + b[s \ {Chosen(s)}]
  BY Zenon DEF Sums
<1>6. s # {} /\ Chosen(s) \in s
  BY <1>4, <1>5 DEF Chosen
<1>7. s \ {Chosen(s)} \in SUBSET S /\ Cardinality(s \ {Chosen(s)}) = n - 1 /\ n \in Nat
  BY <1>1, <1>4, <1>6, FS_RemoveElement
<1>8. n - 1 \in Nat
  BY <1>1, <1>7
<1>9. n - 1 \in bad
  BY <1>4, <1>5, <1>6, <1>7, <1>8
<1> QED
  BY <1>3, <1>7, <1>9

\* What holds of the sum over S when there is such a function.
LEMMA SumUnfolds ==
  ASSUME NEW f, NEW S, IsFiniteSet(S), \E sum : Sums(sum, f, S)
  PROVE  \E sum : Sums(sum, f, S) /\ SumFunctionOnSet(f, S) = sum[S]
BY SumIsChosen

\* There is such a function on the subsets of every finite set.
LEMMA SumsExist ==
  ASSUME NEW f, NEW S, IsFiniteSet(S) PROVE \E sum : Sums(sum, f, S)
<1> DEFINE total(s) == SumFunctionOnSet(f, s)
           Has(s) == \E sum : Sums(sum, f, s)
           bad == {n \in Nat : \E s \in SUBSET S : Cardinality(s) = n /\ ~Has(s)}
<1> SUFFICES ASSUME ~Has(S) PROVE FALSE
  OBVIOUS
<1>1. \A s \in SUBSET S : IsFiniteSet(s) /\ Cardinality(s) \in Nat
  BY FS_Subset, FS_CardinalityType
<1>2. bad \subseteq Nat /\ bad # {}
  BY <1>1
<1>3. PICK n \in bad : \A m \in bad : n <= m
  BY <1>2, Smallest
<1>4. PICK T \in SUBSET S : Cardinality(T) = n /\ ~Has(T)
  BY <1>3
<1>5. ASSUME NEW s \in SUBSET T, s # T PROVE Has(s)
  <2>1. s \in SUBSET S /\ IsFiniteSet(T) /\ Cardinality(s) \in Nat /\ n \in Nat
        /\ Cardinality(s) <= n /\ Cardinality(s) # n
    BY <1>1, <1>4, <1>5, FS_Subset
  <2> QED
    BY <1>3, <2>1
<1> HIDE DEF Has
<1>6. ASSUME NEW s \in SUBSET T, s # {}, s # T
      PROVE  total(s) = f[Chosen(s)] + total(s \ {Chosen(s)})
  <2>1. IsFiniteSet(s) /\ s \ {Chosen(s)} \in SUBSET T /\ s \ {Chosen(s)} # T
        /\ s \ {Chosen(s)} \in SUBSET s /\ IsFiniteSet(s \ {Chosen(s)})
    BY <1>1, <1>6 DEF Chosen
  <2>2. PICK a : Sums(a, f, s) /\ total(s) = a[s]
    BY <1>5, <1>6, <2>1, SumUnfolds DEF Has
  <2>3. PICK b : Sums(b, f, s \ {Chosen(s)}) /\ total(s \ {Chosen(s)}) = b[s \ {Chosen(s)}]
    BY <1>5, <2>1, SumUnfolds DEF Has
  <2>4. b[s \ {Chosen(s)}] = a[s \ {Chosen(s)}]
    BY <2>1, <2>2, <2>3, SumsAgree
  <2>5. a[s] = f[Chosen(s)] + a[s \ {Chosen(s)}]
    BY <1>6, <2>2 DEF Sums
  <2> QED
    BY <2>2, <2>3, <2>4, <2>5
<1>7. ASSUME {} # T PROVE total({}) = 0
  <2>1. PICK a : Sums(a, f, {}) /\ total({}) = a[{}]
    BY <1>5, <1>7, FS_EmptySet, SumUnfolds DEF Has
  <2> QED
    BY <2>1 DEF Sums
<1> DEFINE it == [s \in SUBSET T |-> IF s = {} THEN 0 ELSE f[Chosen(s)] + total(s \ {Chosen(s)})]
<1>8. ASSUME NEW s \in SUBSET T, s # {} PROVE total(s \ {Chosen(s)}) = it[s \ {Chosen(s)}]
  <2>1. s \ {Chosen(s)} \in SUBSET T /\ s \ {Chosen(s)} # T /\ T # {}
    BY <1>8 DEF Chosen
  <2> HIDE DEF total
  <2>2. CASE s \ {Chosen(s)} = {}
    BY <1>7, <2>1, <2>2
  <2>3. CASE s \ {Chosen(s)} # {}
    BY <1>6, <2>1, <2>3
  <2> QED
    BY <2>2, <2>3
<1> HIDE DEF total
<1>9. it = [s \in SUBSET T |-> IF s = {} THEN 0 ELSE f[Chosen(s)] + it[s \ {Chosen(s)}]]
  BY <1>8
<1>10. Has(T)
  BY <1>9 DEF Has, Sums
<1> QED
  BY <1>4, <1>10

LEMMA SumEmpty == \A f : SumFunctionOnSet(f, {}) = 0
<1> TAKE f
<1>1. PICK a : Sums(a, f, {}) /\ SumFunctionOnSet(f, {}) = a[{}]
  BY FS_EmptySet, SumsExist, SumUnfolds
<1> QED
  BY <1>1 DEF Sums

LEMMA SumChosen ==
  ASSUME NEW f, NEW S, IsFiniteSet(S), S # {}
  PROVE  /\ Chosen(S) \in S
         /\ SumFunctionOnSet(f, S) = f[Chosen(S)] + SumFunctionOnSet(f, S \ {Chosen(S)})
<1>1. IsFiniteSet(S \ {Chosen(S)}) /\ Chosen(S) \in S
  BY FS_RemoveElement DEF Chosen
<1>2. PICK a : Sums(a, f, S) /\ SumFunctionOnSet(f, S) = a[S]
  BY SumsExist, SumUnfolds
<1>3. PICK b : Sums(b, f, S \ {Chosen(S)}) /\ SumFunctionOnSet(f, S \ {Chosen(S)}) = b[S \ {Chosen(S)}]
  BY <1>1, SumsExist, SumUnfolds
<1>4. b[S \ {Chosen(S)}] = a[S \ {Chosen(S)}]
  <2> DEFINE R == S \ {Chosen(S)}
  <2>1. IsFiniteSet(R) /\ R \subseteq S /\ Sums(a, f, S) /\ Sums(b, f, R)
    BY <1>1, <1>2, <1>3
  <2> HIDE DEF R
  <2>2. \A s \in SUBSET R : b[s] = a[s]
    BY <2>1, SumsAgree
  <2>3. b[R] = a[R]
    BY <2>2
  <2> QED
    BY <2>3 DEF R
<1>5. a[S] = f[Chosen(S)] + a[S \ {Chosen(S)}]
  BY <1>2 DEF Sums
<1> QED
  BY <1>1, <1>2, <1>3, <1>4, <1>5

-----------------------------------------------------------------------------
\* The sum of integers is an integer, whichever index is taken first.
LEMMA SumTaken ==
  ASSUME NEW f, NEW S, IsFiniteSet(S), \A x \in S : f[x] \in Int
  PROVE  /\ SumFunctionOnSet(f, S) \in Int
         /\ \A x \in S : SumFunctionOnSet(f, S) = f[x] + SumFunctionOnSet(f, S \ {x})
<1> DEFINE total(s) == SumFunctionOnSet(f, s)
           fine(s) == total(s) \in Int /\ \A x \in s : total(s) = f[x] + total(s \ {x})
           bad == {n \in Nat : \E s \in SUBSET S : Cardinality(s) = n /\ ~fine(s)}
<1> SUFFICES ASSUME ~fine(S) PROVE FALSE
  OBVIOUS
<1>1. \A s \in SUBSET S : IsFiniteSet(s) /\ Cardinality(s) \in Nat
  BY FS_Subset, FS_CardinalityType
<1>2. bad \subseteq Nat /\ bad # {}
  BY <1>1
<1>3. PICK n \in bad : \A m \in bad : n <= m
  BY <1>2, Smallest
<1>4. PICK T \in SUBSET S : Cardinality(T) = n /\ ~fine(T)
  BY <1>3
<1>5. ASSUME NEW s \in SUBSET T, s # T PROVE fine(s)
  <2>1. s \in SUBSET S /\ IsFiniteSet(T) /\ Cardinality(s) \in Nat /\ n \in Nat
        /\ Cardinality(s) <= n /\ Cardinality(s) # n
    BY <1>1, <1>4, <1>5, FS_Subset
  <2> QED
    BY <1>3, <2>1
<1>6. total({}) = 0 /\ \A s \in SUBSET S : s # {} =>
        Chosen(s) \in s /\ total(s) = f[Chosen(s)] + total(s \ {Chosen(s)})
  BY <1>1, SumEmpty, SumChosen
<1> HIDE DEF total
<1>7. T # {}
  <2>1. fine({})
    BY <1>6
  <2> HIDE DEF fine
  <2> QED
    BY <1>4, <2>1
<1> DEFINE c == Chosen(T)
<1>8. c \in T /\ total(T) = f[c] + total(T \ {c}) /\ total(T \ {c}) \in Int
  BY <1>5, <1>6, <1>7
<1> HIDE DEF c
<1>9. ASSUME NEW x \in T PROVE total(T) = f[x] + total(T \ {x})
  <2>1. CASE x = c
    BY <1>8, <2>1
  <2>2. CASE x # c
    <3>1. total(T \ {c}) = f[x] + total((T \ {c}) \ {x})
      BY <1>5, <1>8, <2>2
    <3>2. total(T \ {x}) = f[c] + total((T \ {x}) \ {c})
      BY <1>5, <1>8, <2>2
    <3> DEFINE rest == total((T \ {x}) \ {c})
    <3>3. (T \ {c}) \ {x} = (T \ {x}) \ {c}
      OBVIOUS
    <3>4. total((T \ {c}) \ {x}) = rest
      BY <3>3, Zenon
    <3>5. rest \in Int /\ f[x] \in Int /\ f[c] \in Int
      BY <1>5, <1>8
    <3> HIDE DEF rest
    <3>6. total(T) = f[c] + (f[x] + rest) /\ total(T \ {x}) = f[c] + rest
      BY <1>8, <3>1, <3>2, <3>4 DEF rest
    <3> QED
      BY <3>5, <3>6
  <2> QED
    BY <2>1, <2>2
<1>10. fine(T)
  BY <1>8, <1>9
<1> QED
  BY <1>4, <1>10

\* Adding an index.
LEMMA SumGrows ==
  ASSUME NEW f, NEW S, IsFiniteSet(S), NEW x, x \notin S, \A y \in S \cup {x} : f[y] \in Int
  PROVE  SumFunctionOnSet(f, S \cup {x}) = SumFunctionOnSet(f, S) + f[x]
<1>1. IsFiniteSet(S \cup {x}) /\ (S \cup {x}) \ {x} = S
  BY FS_AddElement
<1>2. SumFunctionOnSet(f, S) \in Int /\ f[x] \in Int
  BY SumTaken
<1>3. SumFunctionOnSet(f, S \cup {x}) = f[x] + SumFunctionOnSet(f, (S \cup {x}) \ {x})
  BY <1>1, SumTaken
<1>4. SumFunctionOnSet(f, (S \cup {x}) \ {x}) = SumFunctionOnSet(f, S)
  BY <1>1
<1> QED
  BY <1>2, <1>3, <1>4

\* The sum depends on the values at the indices only.
LEMMA SumSame ==
  ASSUME NEW S, IsFiniteSet(S), NEW f, NEW g, \A x \in S : f[x] \in Int /\ g[x] = f[x]
  PROVE  SumFunctionOnSet(f, S) = SumFunctionOnSet(g, S)
<1> DEFINE good == {T \in SUBSET S : SumFunctionOnSet(f, T) = SumFunctionOnSet(g, T)}
<1>1. {} \in good
  BY SumEmpty
<1>2. ASSUME NEW T \in good, NEW x \in S \ T PROVE T \cup {x} \in good
  <2>1. IsFiniteSet(T)
    BY FS_Subset
  <2>2. SumFunctionOnSet(f, T \cup {x}) = SumFunctionOnSet(f, T) + f[x]
    BY <2>1, SumGrows
  <2>3. SumFunctionOnSet(g, T \cup {x}) = SumFunctionOnSet(g, T) + g[x]
    BY <2>1, SumGrows
  <2> QED
    BY <2>2, <2>3
<1>3. good \in SUBSET SUBSET S
  OBVIOUS
<1> HIDE DEF good
<1>4. S \in good
  BY <1>1, <1>2, <1>3, GrowingSets
<1> QED
  BY <1>4 DEF good

\* Sums add up term by term.
LEMMA SumPlus ==
  ASSUME NEW S, IsFiniteSet(S), NEW f, NEW g, NEW h,
         \A x \in S : g[x] \in Int /\ h[x] \in Int /\ f[x] = g[x] + h[x]
  PROVE  SumFunctionOnSet(f, S) = SumFunctionOnSet(g, S) + SumFunctionOnSet(h, S)
<1> DEFINE good == {T \in SUBSET S : SumFunctionOnSet(f, T)
                                     = SumFunctionOnSet(g, T) + SumFunctionOnSet(h, T)}
<1>1. {} \in good
  BY SumEmpty
<1>2. ASSUME NEW T \in good, NEW x \in S \ T PROVE T \cup {x} \in good
  <2>1. IsFiniteSet(T) /\ \A y \in T \cup {x} : f[y] \in Int /\ g[y] \in Int /\ h[y] \in Int
    BY FS_Subset
  <2>2. SumFunctionOnSet(f, T \cup {x}) = SumFunctionOnSet(f, T) + f[x]
    BY <2>1, SumGrows
  <2>3. SumFunctionOnSet(g, T \cup {x}) = SumFunctionOnSet(g, T) + g[x]
    BY <2>1, SumGrows
  <2>4. SumFunctionOnSet(h, T \cup {x}) = SumFunctionOnSet(h, T) + h[x]
    BY <2>1, SumGrows
  <2>5. SumFunctionOnSet(g, T) \in Int /\ SumFunctionOnSet(h, T) \in Int
    BY <2>1, SumTaken
  <2> QED
    BY <2>2, <2>3, <2>4, <2>5
<1>3. good \in SUBSET SUBSET S
  OBVIOUS
<1> HIDE DEF good
<1>4. S \in good
  BY <1>1, <1>2, <1>3, GrowingSets
<1> QED
  BY <1>4 DEF good

\* The sum over two sets without a common index.
LEMMA SumDisjoint ==
  ASSUME NEW S, IsFiniteSet(S), NEW U, IsFiniteSet(U), S \cap U = {}, NEW f,
         \A x \in S \cup U : f[x] \in Int
  PROVE  SumFunctionOnSet(f, S \cup U) = SumFunctionOnSet(f, S) + SumFunctionOnSet(f, U)
<1> DEFINE good == {T \in SUBSET U : SumFunctionOnSet(f, S \cup T)
                                     = SumFunctionOnSet(f, S) + SumFunctionOnSet(f, T)}
<1>0. SumFunctionOnSet(f, S) \in Int
  BY SumTaken
<1>1. {} \in good
  <2>1. S \cup {} = S /\ SumFunctionOnSet(f, {}) = 0
    BY SumEmpty
  <2> QED
    BY <1>0, <2>1
<1>2. ASSUME NEW T \in good, NEW x \in U \ T PROVE T \cup {x} \in good
  <2>1. IsFiniteSet(T) /\ IsFiniteSet(S \cup T)
    BY FS_Subset, FS_Union
  <2>2. SumFunctionOnSet(f, T \cup {x}) = SumFunctionOnSet(f, T) + f[x]
    BY <2>1, SumGrows
  <2>3. (S \cup T) \cup {x} = S \cup (T \cup {x}) /\ x \notin S \cup T
    OBVIOUS
  <2>4. SumFunctionOnSet(f, (S \cup T) \cup {x}) = SumFunctionOnSet(f, S \cup T) + f[x]
    BY <2>1, <2>3, SumGrows
  <2>5. SumFunctionOnSet(f, T) \in Int /\ f[x] \in Int
    BY <2>1, SumTaken
  <2>6. SumFunctionOnSet(f, (S \cup T) \cup {x}) = SumFunctionOnSet(f, S \cup (T \cup {x}))
    BY <2>3
  <2> QED
    BY <1>0, <2>2, <2>4, <2>5, <2>6
<1>3. good \in SUBSET SUBSET U
  OBVIOUS
<1> HIDE DEF good
<1>4. U \in good
  BY <1>1, <1>2, <1>3, GrowingSets
<1> QED
  BY <1>4 DEF good

\* The sum over the images of indices that a map keeps apart.
LEMMA SumImage ==
  ASSUME NEW S, IsFiniteSet(S), NEW p, \A x, y \in S : p[x] = p[y] => x = y,
         NEW R, \A x \in S : p[x] \in R, \A y \in R : \E x \in S : p[x] = y,
         NEW f, NEW g, \A x \in S : f[x] \in Int /\ g[p[x]] = f[x]
  PROVE  SumFunctionOnSet(g, R) = SumFunctionOnSet(f, S)
<1> DEFINE image(T) == {p[x] : x \in T}
           good == {T \in SUBSET S : IsFiniteSet(image(T))
                      /\ SumFunctionOnSet(g, image(T)) = SumFunctionOnSet(f, T)}
<1>1. {} \in good
  <2>1. image({}) = {}
    OBVIOUS
  <2> QED
    BY <2>1, SumEmpty, FS_EmptySet
<1>2. ASSUME NEW T \in good, NEW x \in S \ T PROVE T \cup {x} \in good
  <2>1. IsFiniteSet(T) /\ IsFiniteSet(image(T))
    BY FS_Subset
  <2>2. image(T \cup {x}) = image(T) \cup {p[x]} /\ p[x] \notin image(T)
    OBVIOUS
  <2>3. SumFunctionOnSet(f, T \cup {x}) = SumFunctionOnSet(f, T) + f[x]
    BY <2>1, SumGrows
  <2>4. \A y \in image(T) \cup {p[x]} : g[y] \in Int
    OBVIOUS
  <2>5. IsFiniteSet(image(T) \cup {p[x]})
    BY <2>1, FS_AddElement
  <2> HIDE DEF image
  <2>6. SumFunctionOnSet(g, image(T) \cup {p[x]}) = SumFunctionOnSet(g, image(T)) + g[p[x]]
    BY <2>1, <2>2, <2>4, SumGrows
  <2> QED
    BY <2>2, <2>3, <2>5, <2>6
<1>3. good \in SUBSET SUBSET S
  OBVIOUS
<1> HIDE DEF good
<1>4. S \in good
  BY <1>1, <1>2, <1>3, GrowingSets
<1>5. image(S) = R
  OBVIOUS
<1> QED
  BY <1>4, <1>5 DEF good
=============================================================================
