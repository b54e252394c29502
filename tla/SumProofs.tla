------------------------------ MODULE SumProofs ------------------------------
(***************************************************************************)
(* What SumFunctionOnSet of the community modules computes, for every      *)
(* finite set: the facts the proofs about shares and money need. A fold    *)
(* is a recursive function on the subsets, so the induction is over them:  *)
(* among the subsets for which a claim fails there would be a smallest.    *)
(***************************************************************************)
EXTENDS FiniteSetsExt, FiniteSetTheorems, TLAPS

LEMMA SmallestSubset ==
  ASSUME NEW S, IsFiniteSet(S), NEW B \in SUBSET (SUBSET S), B # {}
  PROVE  \E T \in B : \A U \in B : U \subseteq T => U = T
<1>1. IsWellFoundedOn(StrictSubsetOrdering(S), SUBSET S)
  BY FS_StrictSubsetOrderingWellFounded, FS_FiniteSubsetsOfFinite
<1>2. PICK T \in B : \A U \in B : <<U, T>> \notin StrictSubsetOrdering(S)
  BY <1>1, WFMin
<1> QED
  BY <1>2 DEF StrictSubsetOrdering

---------------------------------------------------------------------------
(* The recursion of the fold is well defined *)

Pick(T) == CHOOSE x \in T : TRUE

Body(f, g, T) == IF T = {} THEN 0 ELSE f[Pick(T)] + g[T \ {Pick(T)}]

IsSum(f, S, g) == g = [T \in SUBSET S |-> Body(f, g, T)]

TheSum(f, S) == CHOOSE g : IsSum(f, S, g)

LEMMA SumUnfold ==
  ASSUME NEW f, NEW S
  PROVE  SumFunctionOnSet(f, S) = TheSum(f, S)[S]
BY DEF SumFunctionOnSet, FoldFunctionOnSet, MapThenFoldSet, TheSum, IsSum, Body, Pick

LEMMA PickIn == ASSUME NEW T, T # {} PROVE Pick(T) \in T
BY DEF Pick

LEMMA SumUnique ==
  ASSUME NEW f, NEW S, NEW T, IsFiniteSet(S), NEW g, NEW h,
         IsSum(f, S, g), IsSum(f, T, h), NEW V, V \subseteq S, V \subseteq T
  PROVE  g[V] = h[V]
<1> DEFINE B == {U \in SUBSET S : U \subseteq T /\ g[U] # h[U]}
<1>1. SUFFICES ASSUME B # {} PROVE FALSE
  OBVIOUS
<1>2. PICK U \in B : \A W \in B : W \subseteq U => W = U
  <2>1. B \in SUBSET (SUBSET S)
    OBVIOUS
  <2> HIDE DEF B
  <2> QED
    BY <1>1, <2>1, SmallestSubset
<1>3. g[U] = Body(f, g, U) /\ h[U] = Body(f, h, U)
  BY DEF IsSum
<1>4. U # {}
  BY <1>3 DEF Body
<1>5. U \ {Pick(U)} \notin B /\ U \ {Pick(U)} \in SUBSET S /\ U \ {Pick(U)} \subseteq T
  BY <1>2, <1>4, PickIn
<1> QED
  BY <1>3, <1>4, <1>5 DEF Body

LEMMA SumExists ==
  ASSUME NEW f, NEW S, IsFiniteSet(S)
  PROVE  IsSum(f, S, TheSum(f, S))
<1> DEFINE B == {T \in SUBSET S : ~IsSum(f, T, TheSum(f, T))}
<1>1. SUFFICES ASSUME B # {} PROVE FALSE
  OBVIOUS
<1>2. PICK T \in B : \A U \in B : U \subseteq T => U = T
  <2>1. B \in SUBSET (SUBSET S)
    OBVIOUS
  <2> HIDE DEF B
  <2> QED
    BY <1>1, <2>1, SmallestSubset
<1> DEFINE Rest(U) == U \ {Pick(U)}
           g == [U \in SUBSET T |-> IF U = {} THEN 0
                                   ELSE f[Pick(U)] + TheSum(f, Rest(U))[Rest(U)]]
<1>3. ASSUME NEW U \in SUBSET T, U # {} PROVE g[Rest(U)] = TheSum(f, Rest(U))[Rest(U)]
  <2> DEFINE V == Rest(U)
  <2>1. V \in SUBSET T /\ V # T /\ V \in SUBSET S
    BY <1>3, PickIn
  <2>2. IsSum(f, V, TheSum(f, V))
    BY <1>2, <2>1
  <2>3. TheSum(f, V)[V] = Body(f, TheSum(f, V), V)
    BY <2>2 DEF IsSum
  <2>4. CASE V = {}
    BY <2>1, <2>3, <2>4 DEF Body
  <2>5. CASE V # {}
    <3>1. /\ Rest(V) \in SUBSET S /\ Rest(V) # T /\ Rest(V) \subseteq T
          /\ Rest(V) \subseteq V /\ IsFiniteSet(V) /\ IsFiniteSet(Rest(V))
      BY <2>1, <2>5, PickIn, FS_Subset
    <3>2. IsSum(f, Rest(V), TheSum(f, Rest(V)))
      BY <1>2, <3>1
    <3>3. TheSum(f, V)[Rest(V)] = TheSum(f, Rest(V))[Rest(V)]
      BY <2>2, <3>1, <3>2, SumUnique
    <3> QED
      BY <2>1, <2>3, <2>5, <3>3 DEF Body
  <2> QED
    BY <2>4, <2>5
<1>4. IsSum(f, T, g)
  <2>1. \A U \in SUBSET T : g[U] = Body(f, g, U)
    BY <1>3 DEF Body
  <2> QED
    BY <2>1 DEF IsSum
<1>5. IsSum(f, T, TheSum(f, T))
  BY <1>4 DEF TheSum
<1> QED
  BY <1>2, <1>5

---------------------------------------------------------------------------
(* One element at a time *)

LEMMA SumEmpty == ASSUME NEW f PROVE SumFunctionOnSet(f, {}) = 0
<1>1. IsSum(f, {}, TheSum(f, {}))
  BY SumExists, FS_EmptySet
<1> QED
  BY <1>1, SumUnfold DEF IsSum, Body

LEMMA SumPick ==
  ASSUME NEW f, NEW S, IsFiniteSet(S), S # {}
  PROVE  SumFunctionOnSet(f, S) = f[Pick(S)] + SumFunctionOnSet(f, S \ {Pick(S)})
<1> DEFINE R == S \ {Pick(S)}
<1>1. IsFiniteSet(R) /\ R \subseteq S /\ R \subseteq R
  BY FS_RemoveElement
<1>2. IsSum(f, S, TheSum(f, S)) /\ IsSum(f, R, TheSum(f, R))
  BY <1>1, SumExists
<1>3. TheSum(f, S)[S] = f[Pick(S)] + TheSum(f, S)[R]
  BY <1>2 DEF IsSum, Body
<1> HIDE DEF R
<1>4. TheSum(f, S)[R] = TheSum(f, R)[R]
  <2>1. ASSUME NEW g, NEW h, IsSum(f, S, g), IsSum(f, R, h) PROVE g[R] = h[R]
    BY <1>1, <2>1, SumUnique
  <2> QED
    BY <1>2, <2>1
<1> QED
  BY <1>3, <1>4, SumUnfold DEF R

\* The order of the fold does not matter.
LEMMA SumRemoves ==
  ASSUME NEW f, NEW S, IsFiniteSet(S), \A x \in S : f[x] \in Int
  PROVE  /\ SumFunctionOnSet(f, S) \in Int
         /\ \A x \in S : SumFunctionOnSet(f, S) = f[x] + SumFunctionOnSet(f, S \ {x})
<1> DEFINE Sum(T) == SumFunctionOnSet(f, T)
           Ok(T) == Sum(T) \in Int /\ \A x \in T : Sum(T) = f[x] + Sum(T \ {x})
           B == {T \in SUBSET S : ~Ok(T)}
<1> HIDE DEF Sum
<1>1. SUFFICES ASSUME B # {} PROVE FALSE
  BY DEF Sum
<1>2. PICK T \in B : \A U \in B : U \subseteq T => U = T
  <2>1. B \in SUBSET (SUBSET S)
    OBVIOUS
  <2> HIDE DEF B
  <2> QED
    BY <1>1, <2>1, SmallestSubset
<1>3. T # {}
  <2>1. Ok({})
    BY SumEmpty DEF Sum
  <2> QED
    BY <1>2, <2>1
<1> DEFINE p == Pick(T)
<1>4. p \in T /\ p \in S /\ f[p] \in Int
  BY <1>3, PickIn
<1>5. Sum(T) = f[p] + Sum(T \ {p})
  BY <1>3, SumPick, FS_Subset DEF Sum
<1> HIDE DEF p
<1>6. \A U \in SUBSET T : U # T => Ok(U)
  BY <1>2
<1>7. Ok(T \ {p})
  BY <1>4, <1>6
<1>8. ASSUME NEW x \in T, x # p PROVE Sum(T) = f[x] + Sum(T \ {x})
  <2>1. Ok(T \ {x}) /\ p \in T \ {x} /\ x \in T \ {p} /\ f[x] \in Int
    BY <1>4, <1>6, <1>8
  <2>2. (T \ {x}) \ {p} = (T \ {p}) \ {x} /\ Ok((T \ {p}) \ {x})
    BY <1>4, <1>6
  <2>3. /\ Sum(T \ {x}) = f[p] + Sum((T \ {p}) \ {x})
        /\ Sum(T \ {p}) = f[x] + Sum((T \ {p}) \ {x})
    BY <1>7, <2>1, <2>2
  <2>4. Sum((T \ {p}) \ {x}) \in Int
    BY <2>2
  <2> HIDE DEF Ok
  <2> QED
    BY <1>4, <1>5, <2>1, <2>3, <2>4
<1>9. Ok(T)
  <2>1. Sum(T) \in Int
    BY <1>4, <1>5, <1>7
  <2> QED
    BY <1>5, <1>8, <2>1
<1> QED
  BY <1>9, <1>2

LEMMA SumInt ==
  ASSUME NEW f, NEW S, IsFiniteSet(S), \A x \in S : f[x] \in Int
  PROVE  SumFunctionOnSet(f, S) \in Int
BY SumRemoves

LEMMA SumRemove ==
  ASSUME NEW f, NEW S, IsFiniteSet(S), \A x \in S : f[x] \in Int, NEW x \in S
  PROVE  SumFunctionOnSet(f, S) = f[x] + SumFunctionOnSet(f, S \ {x})
BY SumRemoves

LEMMA SumAdd ==
  ASSUME NEW f, NEW S, IsFiniteSet(S), NEW x, x \notin S,
         \A y \in S \cup {x} : f[y] \in Int
  PROVE  SumFunctionOnSet(f, S \cup {x}) = f[x] + SumFunctionOnSet(f, S)
<1>1. IsFiniteSet(S \cup {x}) /\ x \in S \cup {x} /\ (S \cup {x}) \ {x} = S
  BY FS_AddElement
<1> QED
  BY <1>1, SumRemove

---------------------------------------------------------------------------
(* Two functions *)

\* A sum is monotonic in the function.
LEMMA SumLeq ==
  ASSUME NEW f, NEW g, NEW S, IsFiniteSet(S),
         \A x \in S : f[x] \in Int /\ g[x] \in Int /\ f[x] <= g[x]
  PROVE  SumFunctionOnSet(f, S) <= SumFunctionOnSet(g, S)
<1> DEFINE Ok(T) == SumFunctionOnSet(f, T) <= SumFunctionOnSet(g, T)
           B == {T \in SUBSET S : ~Ok(T)}
<1>1. SUFFICES ASSUME B # {} PROVE FALSE
  OBVIOUS
<1>2. PICK T \in B : \A U \in B : U \subseteq T => U = T
  <2>1. B \in SUBSET (SUBSET S)
    OBVIOUS
  <2> HIDE DEF B
  <2> QED
    BY <1>1, <2>1, SmallestSubset
<1>3. T # {}
  <2>1. Ok({})
    BY SumEmpty
  <2> QED
    BY <1>2, <2>1
<1>4. PICK x : x \in T
  BY <1>3
<1>5. IsFiniteSet(T) /\ IsFiniteSet(T \ {x})
  BY FS_Subset
<1>6. /\ SumFunctionOnSet(f, T) = f[x] + SumFunctionOnSet(f, T \ {x})
      /\ SumFunctionOnSet(g, T) = g[x] + SumFunctionOnSet(g, T \ {x})
  BY <1>4, <1>5, SumRemove
<1>7. SumFunctionOnSet(f, T \ {x}) \in Int /\ SumFunctionOnSet(g, T \ {x}) \in Int
  BY <1>5, SumInt
<1>8. Ok(T \ {x})
  BY <1>2, <1>4
<1>9. f[x] \in Int /\ g[x] \in Int /\ f[x] <= g[x]
  BY <1>4
<1> QED
  BY <1>2, <1>6, <1>7, <1>8, <1>9

LEMMA SumSame ==
  ASSUME NEW f, NEW g, NEW S, IsFiniteSet(S), \A x \in S : f[x] \in Int /\ g[x] = f[x]
  PROVE  SumFunctionOnSet(g, S) = SumFunctionOnSet(f, S)
<1>1. /\ SumFunctionOnSet(f, S) <= SumFunctionOnSet(g, S)
      /\ SumFunctionOnSet(g, S) <= SumFunctionOnSet(f, S)
  BY SumLeq
<1> QED
  BY <1>1, SumInt

LEMMA SumChange ==
  ASSUME NEW f, NEW g, NEW S, IsFiniteSet(S), NEW x \in S,
         \A y \in S : f[y] \in Int /\ g[y] \in Int /\ (y # x => g[y] = f[y])
  PROVE  SumFunctionOnSet(g, S) = SumFunctionOnSet(f, S) + g[x] - f[x]
<1>1. IsFiniteSet(S \ {x})
  BY FS_RemoveElement
<1>2. SumFunctionOnSet(g, S \ {x}) = SumFunctionOnSet(f, S \ {x})
  BY <1>1, SumSame
<1>3. /\ SumFunctionOnSet(f, S) = f[x] + SumFunctionOnSet(f, S \ {x})
      /\ SumFunctionOnSet(g, S) = g[x] + SumFunctionOnSet(g, S \ {x})
  BY SumRemove
<1> QED
  BY <1>1, <1>2, <1>3, SumInt

---------------------------------------------------------------------------
(* Signs *)

LEMMA SumZero ==
  ASSUME NEW f, NEW S, IsFiniteSet(S), \A x \in S : f[x] = 0
  PROVE  SumFunctionOnSet(f, S) = 0
<1> DEFINE Ok(T) == SumFunctionOnSet(f, T) = 0
           B == {T \in SUBSET S : ~Ok(T)}
<1>1. SUFFICES ASSUME B # {} PROVE FALSE
  OBVIOUS
<1>2. PICK T \in B : \A U \in B : U \subseteq T => U = T
  <2>1. B \in SUBSET (SUBSET S)
    OBVIOUS
  <2> HIDE DEF B
  <2> QED
    BY <1>1, <2>1, SmallestSubset
<1>3. T # {}
  <2>1. Ok({})
    BY SumEmpty
  <2> QED
    BY <1>2, <2>1
<1>4. PICK x : x \in T
  BY <1>3
<1>5. SumFunctionOnSet(f, T) = f[x] + SumFunctionOnSet(f, T \ {x})
  BY <1>4, SumRemove, FS_Subset
<1>6. Ok(T \ {x}) /\ f[x] = 0
  BY <1>2, <1>4
<1> QED
  BY <1>2, <1>5, <1>6

LEMMA SumNat ==
  ASSUME NEW f, NEW S, IsFiniteSet(S), \A x \in S : f[x] \in Nat
  PROVE  SumFunctionOnSet(f, S) \in Nat
<1> DEFINE zero == [x \in S |-> 0]
<1>1. SumFunctionOnSet(zero, S) = 0
  BY SumZero
<1>2. SumFunctionOnSet(zero, S) <= SumFunctionOnSet(f, S)
  BY SumLeq
<1> QED
  BY <1>1, <1>2, SumInt

\* A part of a sum of naturals is not more than the sum.
LEMMA SumPart ==
  ASSUME NEW f, NEW S, IsFiniteSet(S), \A x \in S : f[x] \in Nat, NEW x \in S
  PROVE  f[x] <= SumFunctionOnSet(f, S)
<1>1. IsFiniteSet(S \ {x})
  BY FS_RemoveElement
<1>2. SumFunctionOnSet(f, S \ {x}) \in Nat
  BY <1>1, SumNat
<1>3. SumFunctionOnSet(f, S) = f[x] + SumFunctionOnSet(f, S \ {x})
  BY SumRemove
<1> QED
  BY <1>2, <1>3

\* Elements that count for nothing may be left out.
LEMMA SumWithout ==
  ASSUME NEW f, NEW S, NEW T, IsFiniteSet(S), T \subseteq S,
         \A x \in S : f[x] \in Int, \A x \in S \ T : f[x] = 0
  PROVE  SumFunctionOnSet(f, S) = SumFunctionOnSet(f, T)
<1> DEFINE Ok(U) == SumFunctionOnSet(f, T \cup U) = SumFunctionOnSet(f, T)
           B == {U \in SUBSET (S \ T) : ~Ok(U)}
<1>1. IsFiniteSet(T) /\ IsFiniteSet(S \ T) /\ S = T \cup (S \ T)
  BY FS_Subset
<1>2. SUFFICES ASSUME B # {} PROVE FALSE
  <2>1. CASE B = {}
    <3>1. Ok(S \ T)
      BY <2>1
    <3> QED
      BY <1>1, <3>1
  <2> QED
    BY <2>1
<1>3. PICK U \in B : \A V \in B : V \subseteq U => V = U
  <2>1. B \in SUBSET (SUBSET (S \ T))
    OBVIOUS
  <2> HIDE DEF B
  <2> QED
    BY <1>1, <1>2, <2>1, SmallestSubset
<1>4. U # {}
  BY <1>3
<1>5. PICK x : x \in U
  BY <1>4
<1>6. Ok(U \ {x}) /\ f[x] = 0
  <2>1. U \ {x} \notin B /\ U \ {x} \in SUBSET (S \ T)
    BY <1>3, <1>5
  <2> QED
    BY <1>5, <2>1
<1>7. IsFiniteSet(T \cup (U \ {x})) /\ x \notin T \cup (U \ {x})
      /\ (T \cup (U \ {x})) \cup {x} = T \cup U
  BY <1>5, FS_Subset
<1>8. SumFunctionOnSet(f, T \cup U) = f[x] + SumFunctionOnSet(f, T \cup (U \ {x}))
  <2> DEFINE W == T \cup (U \ {x})
  <2>1. \A y \in W \cup {x} : f[y] \in Int
    BY <1>5
  <2> HIDE DEF W
  <2>2. SumFunctionOnSet(f, W \cup {x}) = f[x] + SumFunctionOnSet(f, W)
    BY <1>7, <2>1, SumAdd DEF W
  <2> QED
    BY <1>7, <2>2 DEF W
<1>9. SumFunctionOnSet(f, T) \in Int
  BY <1>1, SumInt
<1> QED
  BY <1>3, <1>6, <1>8, <1>9

\* A part of what is not negative is no more than the whole.
LEMMA SumSubset ==
  ASSUME NEW f, NEW S, NEW T, IsFiniteSet(S), T \subseteq S, \A x \in S : f[x] \in Nat
  PROVE  SumFunctionOnSet(f, T) <= SumFunctionOnSet(f, S)
<1> DEFINE g == [x \in S |-> IF x \in T THEN f[x] ELSE 0]
<1>1. /\ \A x \in S : g[x] \in Int /\ f[x] \in Int /\ g[x] <= f[x]
      /\ \A x \in S \ T : g[x] = 0
      /\ \A x \in T : f[x] \in Int /\ g[x] = f[x]
  OBVIOUS
<1>2. IsFiniteSet(T)
  BY FS_Subset
<1> HIDE DEF g
<1>3. SumFunctionOnSet(g, S) <= SumFunctionOnSet(f, S)
  BY <1>1, SumLeq
<1>4. SumFunctionOnSet(g, S) = SumFunctionOnSet(g, T)
  BY <1>1, SumWithout
<1>5. SumFunctionOnSet(g, T) = SumFunctionOnSet(f, T)
  BY <1>1, <1>2, SumSame
<1> QED
  BY <1>3, <1>4, <1>5

\* Sorted into classes or not, the sum is the same.
LEMMA SumByClass ==
  ASSUME NEW m, NEW c, NEW R, IsFiniteSet(R), NEW S, IsFiniteSet(S),
         \A x \in R : m[x] \in Int /\ (c[x] \in S \/ m[x] = 0),
         NEW part, \A s \in S : \A x \in R : part[s][x] = IF c[x] = s THEN m[x] ELSE 0,
         NEW F, \A s \in S : F[s] = SumFunctionOnSet(part[s], R)
  PROVE  SumFunctionOnSet(F, S) = SumFunctionOnSet(m, R)
<1> DEFINE G(T) == [s \in S |-> SumFunctionOnSet(part[s], T)]
           Ok(T) == SumFunctionOnSet(G(T), S) = SumFunctionOnSet(m, T)
           B == {T \in SUBSET R : ~Ok(T)}
<1>1. ASSUME NEW T \in SUBSET R
      PROVE  /\ IsFiniteSet(T) /\ SumFunctionOnSet(m, T) \in Int
             /\ \A s \in S : G(T)[s] = SumFunctionOnSet(part[s], T) /\ G(T)[s] \in Int
  <2>1. IsFiniteSet(T)
    BY FS_Subset
  <2>2. SumFunctionOnSet(m, T) \in Int
    BY <2>1, SumInt
  <2>3. ASSUME NEW s \in S PROVE SumFunctionOnSet(part[s], T) \in Int
    <3>1. \A x \in T : part[s][x] \in Int
      OBVIOUS
    <3> QED
      BY <2>1, <3>1, SumInt
  <2> QED
    BY <2>1, <2>2, <2>3
<1>2. B = {}
  <2>1. SUFFICES ASSUME B # {} PROVE FALSE
    OBVIOUS
  <2>2. PICK T \in B : \A U \in B : U \subseteq T => U = T
    <3>1. B \in SUBSET (SUBSET R)
      OBVIOUS
    <3> HIDE DEF B
    <3> QED
      BY <2>1, <3>1, SmallestSubset
  <2>3. T # {}
    <3>1. \A s \in S : G({})[s] = 0
      BY SumEmpty
    <3>2. SumFunctionOnSet(G({}), S) = 0
      <4> HIDE DEF G
      <4> QED
        BY <3>1, SumZero
    <3>3. Ok({})
      BY <3>2, SumEmpty
    <3> QED
      BY <2>2, <3>3
  <2>4. PICK y : y \in T
    BY <2>3
  <2> DEFINE U == T \ {y}
  <2>5. /\ U \in SUBSET R /\ y \in R /\ y \notin U /\ T = U \cup {y} /\ T \in SUBSET R
        /\ Ok(U) /\ ~Ok(T)
    <3>1. /\ U \in SUBSET R /\ y \in R /\ y \notin U /\ T = U \cup {y} /\ T \in SUBSET R
          /\ U # T /\ U \subseteq T
      BY <2>2, <2>4
    <3> HIDE DEF U, Ok
    <3> QED
      BY <2>2, <3>1
  <2> HIDE DEF U
  <2>6. SumFunctionOnSet(m, T) = m[y] + SumFunctionOnSet(m, U)
    BY <1>1, <2>5, SumAdd
  <2>7. ASSUME NEW s \in S
        PROVE  G(T)[s] = part[s][y] + G(U)[s] /\ part[s][y] = IF c[y] = s THEN m[y] ELSE 0
    <3>1. \A x \in U \cup {y} : part[s][x] \in Int
      BY <2>5
    <3>2. part[s][y] = IF c[y] = s THEN m[y] ELSE 0
      BY <2>5
    <3>3. SumFunctionOnSet(part[s], U \cup {y}) = part[s][y] + SumFunctionOnSet(part[s], U)
      BY <1>1, <2>5, <3>1, SumAdd
    <3> QED
      BY <2>5, <3>2, <3>3
  <2>8. /\ \A s \in S : G(U)[s] \in Int /\ G(T)[s] \in Int
        /\ SumFunctionOnSet(m, U) \in Int /\ m[y] \in Int
    BY <1>1, <2>5
  <2> DEFINE g == G(U)
             h == G(T)
  <2>9. /\ \A s \in S : g[s] \in Int /\ h[s] \in Int
        /\ \A s \in S : s # c[y] => h[s] = g[s]
        /\ c[y] \in S => h[c[y]] = m[y] + g[c[y]]
        /\ m[y] = 0 => \A s \in S : h[s] = g[s]
    <3> HIDE DEF G
    <3> QED
      BY <2>7, <2>8
  <2>10. SumFunctionOnSet(g, S) = SumFunctionOnSet(m, U)
    BY <2>5
  <2>11. SumFunctionOnSet(h, S) # SumFunctionOnSet(m, T)
    BY <2>5
  <2> HIDE DEF g, h, G
  <2>12. SumFunctionOnSet(g, S) \in Int
    BY <2>9, SumInt
  <2>13. CASE c[y] \in S
    <3>1. SumFunctionOnSet(h, S) = SumFunctionOnSet(g, S) + h[c[y]] - g[c[y]]
      BY <2>9, <2>13, SumChange
    <3> QED
      BY <2>6, <2>8, <2>9, <2>10, <2>11, <2>12, <2>13, <3>1
  <2>14. CASE m[y] = 0
    <3>1. SumFunctionOnSet(h, S) = SumFunctionOnSet(g, S)
      BY <2>9, <2>14, SumSame
    <3> QED
      BY <2>6, <2>8, <2>10, <2>11, <2>12, <2>14, <3>1
  <2> QED
    BY <2>5, <2>13, <2>14
<1>3. Ok(R)
  BY <1>2
<1>4. \A s \in S : F[s] = G(R)[s] /\ F[s] \in Int /\ G(R)[s] \in Int
  BY <1>1
<1> DEFINE g == G(R)
<1>5. /\ SumFunctionOnSet(g, S) = SumFunctionOnSet(m, R)
      /\ \A s \in S : F[s] = g[s] /\ g[s] \in Int
  BY <1>3, <1>4
<1> HIDE DEF g
<1>6. SumFunctionOnSet(F, S) = SumFunctionOnSet(g, S)
  BY <1>5, SumSame
<1> QED
  BY <1>5, <1>6

---------------------------------------------------------------------------
(* Sets of numbers *)

\* A set of indices closed downwards is an initial interval.
LEMMA InitialInterval ==
  ASSUME NEW k \in Nat, NEW S \in SUBSET (1..k),
         \A i \in S : \A j \in 1..i : j \in S
  PROVE  \E m \in 0..k : S = 1..m /\ Cardinality(S) = m
<1> DEFINE B == {T \in SUBSET (1..k) : S \subseteq T /\ \E m \in 0..k : T = 1..m}
<1>1. IsFiniteSet(1..k)
  BY FS_Interval
<1>2. 1..k \in B
  OBVIOUS
<1>3. PICK T \in B : \A U \in B : U \subseteq T => U = T
  <2> DEFINE I == 1..k
  <2>1. B \in SUBSET (SUBSET I) /\ B # {} /\ IsFiniteSet(I)
    BY <1>1, <1>2
  <2> HIDE DEF B, I
  <2> QED
    BY <2>1, SmallestSubset
<1>4. PICK m \in 0..k : T = 1..m
  BY <1>3
<1>5. S = 1..m
  <2>1. CASE m = 0
    BY <1>3, <1>4, <2>1
  <2>2. CASE m # 0 /\ m \in S
    BY <1>3, <1>4, <2>2
  <2>3. CASE m # 0 /\ m \notin S
    <3>1. m - 1 \in 0..k /\ 1..(m - 1) \in SUBSET (1..k) /\ 1..(m - 1) \subseteq T
      BY <1>4, <2>3
    <3>2. S \subseteq 1..(m - 1)
      BY <1>3, <1>4, <2>3
    <3>3. 1..(m - 1) \in B
      BY <3>1, <3>2
    <3>4. m \in T /\ m \notin 1..(m - 1)
      BY <1>4, <2>3
    <3> QED
      BY <1>3, <3>1, <3>3, <3>4
  <2> QED
    BY <2>1, <2>2, <2>3
<1>6. Cardinality(1..m) = m
  BY FS_Interval
<1> QED
  BY <1>5, <1>6

LEMMA Largest ==
  ASSUME NEW k \in Nat, NEW S \in SUBSET (1..k), S # {}
  PROVE  \E m \in S : \A x \in S : x <= m
<1> DEFINE D == {j \in 1..k : \E x \in S : j <= x}
<1>1. D \in SUBSET (1..k) /\ \A i \in D : \A j \in 1..i : j \in D
  OBVIOUS
<1>2. S \subseteq D
  OBVIOUS
<1> HIDE DEF D
<1>3. PICK m \in 0..k : D = 1..m
  BY <1>1, InitialInterval
<1>4. m \in D /\ \A x \in S : x <= m
  <2>1. \A x \in S : x \in 1..m
    BY <1>2, <1>3
  <2>2. m \in 1..m
    <3>1. PICK x \in S : TRUE
      OBVIOUS
    <3>2. x \in 1..m /\ m \in Nat
      BY <2>1, <3>1
    <3> QED
      BY <3>2
  <2> QED
    BY <1>3, <2>1, <2>2
<1>5. PICK x \in S : m <= x
  BY <1>4 DEF D
<1>6. x = m
  BY <1>3, <1>4, <1>5
<1> QED
  BY <1>4, <1>6

\* The members of a set of numbers, one after the other.
Increasing(S) ==
  {s \in [1..Cardinality(S) -> S] : \A i, j \in DOMAIN s : i < j => s[i] < s[j]}

LEMMA Enumeration ==
  ASSUME NEW k \in Nat, NEW S \in SUBSET (1..k)
  PROVE  Increasing(S) # {}
<1> DEFINE I == 1..k
           B == {T \in SUBSET I : Increasing(T) = {}}
<1>1. SUFFICES ASSUME B # {} PROVE FALSE
  OBVIOUS
<1>2. IsFiniteSet(I)
  BY FS_Interval
<1>3. PICK T \in B : \A U \in B : U \subseteq T => U = T
  <2>1. B \in SUBSET (SUBSET I)
    OBVIOUS
  <2> HIDE DEF B, I
  <2> QED
    BY <1>1, <1>2, <2>1, SmallestSubset
<1>4. T \in SUBSET I /\ Increasing(T) = {} /\ IsFiniteSet(T) /\ Cardinality(T) \in Nat
  <2>1. T \in SUBSET I /\ Increasing(T) = {}
    BY <1>3
  <2> HIDE DEF B, I
  <2> QED
    BY <1>2, <2>1, FS_Subset, FS_CardinalityType
<1>5. T # {}
  <2> SUFFICES ASSUME T = {} PROVE FALSE
    OBVIOUS
  <2>1. Cardinality(T) = 0
    BY FS_EmptySet
  <2>2. [i \in 1..0 |-> 0] \in Increasing(T)
    BY <2>1 DEF Increasing
  <2> QED
    BY <1>4, <2>2
<1>6. PICK m \in T : \A x \in T : x <= m
  BY <1>4, <1>5, Largest
<1> DEFINE R == T \ {m}
<1>7. R \in SUBSET I /\ R \subseteq T /\ m \notin R /\ Cardinality(R) = Cardinality(T) - 1
  BY <1>4, <1>6, FS_RemoveElement
<1>8. PICK s \in [1..Cardinality(R) -> R] : \A i, j \in DOMAIN s : i < j => s[i] < s[j]
  <2>1. R \notin B
    BY <1>3, <1>6, <1>7
  <2> QED
    BY <1>7, <2>1 DEF Increasing
<1> DEFINE n == Cardinality(T)
           t == [i \in 1..n |-> IF i = n THEN m ELSE s[i]]
<1>9. \A i \in 1..n : i # n => i \in DOMAIN s /\ s[i] \in R /\ s[i] \in T /\ s[i] < m
  <2> SUFFICES ASSUME NEW i \in 1..n, i # n
               PROVE  i \in DOMAIN s /\ s[i] \in R /\ s[i] \in T /\ s[i] < m
    OBVIOUS
  <2>0. Cardinality(R) = n - 1 /\ n \in Nat
    BY <1>4, <1>7
  <2> HIDE DEF R, n
  <2>1. i \in 1..Cardinality(R)
    BY <2>0
  <2>2. s[i] \in R /\ i \in DOMAIN s
    BY <1>8, <2>1
  <2>3. s[i] \in T /\ s[i] # m /\ m \in T /\ s[i] <= m
    BY <1>6, <1>7, <2>2
  <2>4. s[i] \in 1..k /\ m \in 1..k
    BY <1>4, <2>3
  <2>5. s[i] < m
    BY <2>3, <2>4
  <2> QED
    BY <2>2, <2>3, <2>5
<1>10. t \in [1..n -> T]
  BY <1>6, <1>9
<1>11. ASSUME NEW i \in 1..n, NEW j \in 1..n, i < j PROVE t[i] < t[j]
  <2>1. i # n /\ n \in Nat
    BY <1>4, <1>11
  <2>2. CASE j = n
    BY <1>9, <2>1, <2>2
  <2>3. CASE j # n
    BY <1>8, <1>9, <1>11, <2>1, <2>3
  <2> QED
    BY <2>2, <2>3
<1>12. t \in Increasing(T)
  BY <1>10, <1>11 DEF Increasing
<1> QED
  BY <1>4, <1>12
=============================================================================
