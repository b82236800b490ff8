-------------------------------- MODULE Sums --------------------------------
(***************************************************************************)
(* Sums of whole numbers over finite sets, by the fold of FiniteSetsExt,   *)
(* and the facts about them the ledger and the refunds need: the recursion *)
(* is well defined, and a sum changes by the number of the element that is *)
(* added or removed, whichever element the fold chooses first.             *)
(***************************************************************************)
EXTENDS FiniteSetsExt, FiniteSetTheorems, TLAPS

SumOver(w, S) == MapThenSumSet(LAMBDA x : w[x], S)

Pick(T) == CHOOSE x \in T : TRUE

\* f is the function by which the fold of w over S is defined.
IsSum(f, w, S) ==
  f = [T \in SUBSET S |-> IF T = {} THEN 0 ELSE w[Pick(T)] + f[T \ {Pick(T)}]]

\* Of a set of finite sets one is minimal.
LEMMA Minimal ==
  ASSUME NEW S, IsFiniteSet(S), NEW Bad, Bad \subseteq SUBSET S, Bad # {}
  PROVE  \E T \in Bad : \A U \in Bad : ~(U \subseteq T /\ U # T)
<1>1. Bad \subseteq FiniteSubsetsOf(S)
  BY FS_FiniteSubsetsOfFinite
<1>2. IsWellFoundedOn(StrictSubsetOrdering(S), FiniteSubsetsOf(S))
  BY FS_StrictSubsetOrderingWellFounded
<1>3. \E T \in Bad : \A U \in Bad : ~(<<U, T>> \in StrictSubsetOrdering(S))
  BY <1>1, <1>2, WFMin
<1>4. QED
  BY <1>3 DEF StrictSubsetOrdering

\* Its value at a subset.
LEMMA SumAt ==
  ASSUME NEW w, NEW S, NEW f, IsSum(f, w, S), NEW T \in SUBSET S
  PROVE  f[T] = IF T = {} THEN 0 ELSE w[Pick(T)] + f[T \ {Pick(T)}]
  BY DEF IsSum

\* The restriction to the subsets of T.
LEMMA SumRestricts ==
  ASSUME NEW w, NEW S, NEW T \in SUBSET S, NEW f, IsSum(f, w, S)
  PROVE  IsSum([U \in SUBSET T |-> f[U]], w, T)
  BY DEF IsSum

\* There is one such function at most.
LEMMA SumUnique ==
  ASSUME NEW w, NEW S, IsFiniteSet(S), NEW f, IsSum(f, w, S), NEW g, IsSum(g, w, S)
  PROVE  f = g
<1> DEFINE Bad == {T \in SUBSET S : f[T] # g[T]}
<1>1. SUFFICES ASSUME Bad # {} PROVE FALSE
  BY DEF IsSum
<1>2. PICK T \in Bad : \A U \in Bad : ~(U \subseteq T /\ U # T)
  <2>1. Bad \subseteq SUBSET S
    OBVIOUS
  <2> HIDE DEF Bad
  <2>2. QED
    BY <1>1, <2>1, Minimal
<1>3. T # {}
  BY DEF IsSum
<1>4. Pick(T) \in T
  BY <1>3 DEF Pick
<1>5. f[T \ {Pick(T)}] = g[T \ {Pick(T)}]
  BY <1>2, <1>4
<1>6. QED
  BY <1>3, <1>5 DEF IsSum

\* And there is one: by the least size of a set without one.
LEMMA SumExists ==
  ASSUME NEW w, NEW S, IsFiniteSet(S)
  PROVE  \E f : IsSum(f, w, S)
<1> DEFINE Bad == {T \in SUBSET S : ~\E f : IsSum(f, w, T)}
<1>1. SUFFICES ASSUME Bad # {} PROVE FALSE
  OBVIOUS
<1>2. PICK T \in Bad : \A U \in Bad : ~(U \subseteq T /\ U # T)
  <2>1. Bad \subseteq SUBSET S
    OBVIOUS
  <2> HIDE DEF Bad
  <2>2. QED
    BY <1>1, <2>1, Minimal
<1> DEFINE Good == (SUBSET T) \ {T}
           F(U) == CHOOSE f : IsSum(f, w, U)
<1>3. \A U \in Good : IsSum(F(U), w, U)
  BY <1>2
<1>4. \A U \in Good : IsFiniteSet(U)
  BY FS_Subset
<1>5. \A U \in Good : \A V \in SUBSET U : F(V)[V] = F(U)[V]
  <2> SUFFICES ASSUME NEW U \in Good, NEW V \in SUBSET U PROVE F(V)[V] = F(U)[V]
    OBVIOUS
  <2>1. V \in Good /\ IsFiniteSet(V)
    BY <1>4, FS_Subset
  <2>2. IsSum([W \in SUBSET V |-> F(U)[W]], w, V)
    BY <1>3, SumRestricts
  <2>3. F(V) = [W \in SUBSET V |-> F(U)[W]]
    BY <1>3, <2>1, <2>2, SumUnique
  <2>4. QED
    BY <2>3
<1> DEFINE g == [U \in SUBSET T |-> IF U = {} THEN 0
                                    ELSE w[Pick(U)] + F(U \ {Pick(U)})[U \ {Pick(U)}]]
<1>6. \A U \in Good : F(U)[U] = g[U]
  <2> SUFFICES ASSUME NEW U \in Good PROVE F(U)[U] = g[U]
    OBVIOUS
  <2>1. F(U)[U] = IF U = {} THEN 0 ELSE w[Pick(U)] + F(U)[U \ {Pick(U)}]
    BY <1>3, SumAt
  <2>2. F(U)[U \ {Pick(U)}] = F(U \ {Pick(U)})[U \ {Pick(U)}]
    BY <1>5
  <2>3. QED
    BY <2>1, <2>2
<1>7. \A U \in SUBSET T : U # {} => U \ {Pick(U)} \in Good
  BY DEF Pick
<1>8. IsSum(g, w, T)
  <2>1. \A U \in SUBSET T : U # {} => g[U \ {Pick(U)}] = F(U \ {Pick(U)})[U \ {Pick(U)}]
    BY <1>6, <1>7
  <2> HIDE DEF F
  <2>2. QED
    BY <2>1 DEF IsSum
<1>9. QED
  BY <1>8, <1>2

\* The fold is the value of that function.
LEMMA SumValue ==
  ASSUME NEW w, NEW S, IsFiniteSet(S), NEW f, IsSum(f, w, S)
  PROVE  SumOver(w, S) = f[S]
<1>1. SumOver(w, S) = (CHOOSE g : IsSum(g, w, S))[S]
  BY DEF SumOver, MapThenSumSet, MapThenFoldSet, IsSum, Pick
<1>2. IsSum(CHOOSE g : IsSum(g, w, S), w, S)
  OBVIOUS
<1>3. QED
  BY <1>1, <1>2, SumUnique

\* Nothing sums to zero.
LEMMA SumEmpty ==
  ASSUME NEW w
  PROVE  SumOver(w, {}) = 0
<1>1. IsFiniteSet({})
  BY FS_EmptySet
<1>2. PICK f : IsSum(f, w, {})
  BY <1>1, SumExists
<1>3. QED
  BY <1>1, <1>2, SumValue DEF IsSum

\* The step of the recursion.
LEMMA SumStep ==
  ASSUME NEW w, NEW S, IsFiniteSet(S), S # {}
  PROVE  SumOver(w, S) = w[Pick(S)] + SumOver(w, S \ {Pick(S)})
<1>1. PICK f : IsSum(f, w, S)
  BY SumExists
<1> DEFINE R == S \ {Pick(S)}
<1>2. IsFiniteSet(R)
  BY FS_Subset
<1>3. IsSum([U \in SUBSET R |-> f[U]], w, R)
  BY <1>1, SumRestricts
<1>4. SumOver(w, R) = f[R]
  BY <1>2, <1>3, SumValue
<1>5. SumOver(w, S) = f[S]
  BY <1>1, SumValue
<1>6. QED
  BY <1>1, <1>4, <1>5 DEF IsSum

\* Sums of integers are integers.
LEMMA SumType ==
  ASSUME NEW w, NEW S, IsFiniteSet(S), \A x \in S : w[x] \in Int
  PROVE  SumOver(w, S) \in Int
<1> DEFINE Bad == {T \in SUBSET S : SumOver(w, T) \notin Int}
<1>1. SUFFICES ASSUME Bad # {} PROVE FALSE
  OBVIOUS
<1>2. PICK T \in Bad : \A U \in Bad : ~(U \subseteq T /\ U # T)
  <2>1. Bad \subseteq SUBSET S
    OBVIOUS
  <2> HIDE DEF Bad
  <2>2. QED
    BY <1>1, <2>1, Minimal
<1>3. T # {}
  BY SumEmpty
<1>4. Pick(T) \in T
  BY <1>3 DEF Pick
<1>5. SumOver(w, T \ {Pick(T)}) \in Int
  BY <1>2, <1>4
<1>6. IsFiniteSet(T)
  BY FS_Subset
<1>7. SumOver(w, T) = w[Pick(T)] + SumOver(w, T \ {Pick(T)})
  BY <1>3, <1>6, SumStep
<1>8. QED
  BY <1>4, <1>5, <1>7

\* Numbers that agree on S have the same sum over S.
LEMMA SumSame ==
  ASSUME NEW w, NEW v, NEW S, IsFiniteSet(S), \A x \in S : w[x] = v[x]
  PROVE  SumOver(w, S) = SumOver(v, S)
<1>1. PICK f : IsSum(f, w, S)
  BY SumExists
<1>2. IsSum(f, v, S)
  BY <1>1 DEF IsSum, Pick
<1>3. QED
  BY <1>1, <1>2, SumValue

\* Whichever element is taken away, the rest is its number less.
LEMMA SumRemove ==
  ASSUME NEW w, NEW S, IsFiniteSet(S), \A x \in S : w[x] \in Int, NEW a \in S
  PROVE  SumOver(w, S) = w[a] + SumOver(w, S \ {a})
<1> DEFINE Bad == {T \in SUBSET S : \E b \in T : SumOver(w, T) # w[b] + SumOver(w, T \ {b})}
<1>1. SUFFICES ASSUME Bad # {} PROVE FALSE
  OBVIOUS
<1>2. PICK T \in Bad : \A U \in Bad : ~(U \subseteq T /\ U # T)
  <2>1. Bad \subseteq SUBSET S
    OBVIOUS
  <2> HIDE DEF Bad
  <2>2. QED
    BY <1>1, <2>1, Minimal
<1>b. PICK b \in T : SumOver(w, T) # w[b] + SumOver(w, T \ {b})
  OBVIOUS
<1> DEFINE p == Pick(T)
<1>3. p \in T
  BY DEF Pick
<1>4. IsFiniteSet(T) /\ IsFiniteSet(T \ {b}) /\ IsFiniteSet((T \ {p}) \ {b})
  BY FS_Subset
<1>5. SumOver(w, T) = w[p] + SumOver(w, T \ {p})
  BY <1>3, <1>4, SumStep
<1>6. p # b
  BY <1>5, <1>b
<1>7. \A x \in T : \A c \in T \ {x} :
        SumOver(w, T \ {x}) = w[c] + SumOver(w, (T \ {x}) \ {c})
  <2> SUFFICES ASSUME NEW x \in T, NEW c \in T \ {x}
               PROVE  SumOver(w, T \ {x}) = w[c] + SumOver(w, (T \ {x}) \ {c})
    OBVIOUS
  <2>1. T \ {x} \notin Bad
    BY <1>2
  <2>2. T \ {x} \in SUBSET S
    OBVIOUS
  <2>3. QED
    BY <2>1, <2>2
<1> DEFINE R == (T \ {p}) \ {b}
<1>8. R = (T \ {b}) \ {p}
  OBVIOUS
<1>9. SumOver(w, R) \in Int
  <2>1. IsFiniteSet(R) /\ \A x \in R : w[x] \in Int
    BY <1>4
  <2>2. QED
    BY <2>1, SumType
<1>10. SumOver(w, T \ {p}) = w[b] + SumOver(w, R)
  BY <1>3, <1>6, <1>7
<1>11. SumOver(w, T \ {b}) = w[p] + SumOver(w, R)
  BY <1>3, <1>6, <1>7, <1>8
<1>12. w[b] \in Int /\ w[p] \in Int
  BY <1>3, <1>b
<1>13. SumOver(w, T) = w[b] + SumOver(w, T \ {b})
  <2> HIDE DEF R, p
  <2>1. QED
    BY <1>5, <1>9, <1>10, <1>11, <1>12
<1>14. QED
  BY <1>13, <1>b

\* A new element adds its number.
LEMMA SumAdd ==
  ASSUME NEW w, NEW S, IsFiniteSet(S), NEW a, a \notin S, \A x \in S \cup {a} : w[x] \in Int
  PROVE  SumOver(w, S \cup {a}) = SumOver(w, S) + w[a]
<1>1. IsFiniteSet(S \cup {a})
  BY FS_AddElement
<1> DEFINE R == (S \cup {a}) \ {a}
<1>2. SumOver(w, S \cup {a}) = w[a] + SumOver(w, R)
  BY <1>1, SumRemove
<1>3. R = S
  OBVIOUS
<1>4. SumOver(w, S) \in Int
  BY SumType
<1>5. w[a] \in Int
  OBVIOUS
<1> HIDE DEF R
<1>6. QED
  BY <1>2, <1>3, <1>4, <1>5
=============================================================================
