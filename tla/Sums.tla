--------------------------------- MODULE Sums ---------------------------------
(***************************************************************************)
(* What the sums of the specifications come to, for every finite set.      *)
(*                                                                         *)
(* SumFunctionOnSet(f, S) is defined by recursion over the subsets of S.   *)
(* Its equation is proved here from the definition: a set for which it     *)
(* fails would have a smallest subset for which it fails (FS_StrictSubset- *)
(* OrderingWellFounded, WFMin), and neither needs an operator for a        *)
(* parameter, as the induction theorems of the library do.                 *)
(***************************************************************************)
EXTENDS FiniteSetsExt, FiniteSetTheorems, TLAPS

Picked(S) == CHOOSE x \in S : TRUE

Summed(f, g, s) == IF s = {} THEN 0 ELSE f[Picked(s)] + g[s \ {Picked(s)}]

\* g adds up f over every subset of S, as the definition of the fold has it.
AddsUp(g, f, S) == g = [s \in SUBSET S |-> Summed(f, g, s)]

Fold(f, S) == CHOOSE g : AddsUp(g, f, S)

LEMMA SumIsFold == ASSUME NEW f, NEW S PROVE SumFunctionOnSet(f, S) = Fold(f, S)[S]
BY DEF SumFunctionOnSet, FoldFunctionOnSet, MapThenFoldSet, Fold, AddsUp, Summed, Picked

\* Among sets there is a smallest one.
LEMMA Smallest ==
    ASSUME NEW S, IsFiniteSet(S), NEW T \in SUBSET SUBSET S, T # {}
    PROVE  \E s \in T : \A t \in T : t \subseteq s => t = s
<1>1. IsWellFoundedOn(StrictSubsetOrdering(S), FiniteSubsetsOf(S))
  BY FS_StrictSubsetOrderingWellFounded
<1>2. FiniteSubsetsOf(S) = SUBSET S
  BY FS_FiniteSubsetsOfFinite
<1>3. \E s \in T : \A t \in T : ~(<<t, s>> \in StrictSubsetOrdering(S))
  BY <1>1, <1>2, WFMin
<1> QED
  BY <1>3 DEF StrictSubsetOrdering

LEMMA AddsUpOnce ==
    ASSUME NEW f, NEW S, NEW T, IsFiniteSet(S), NEW g, NEW h, AddsUp(g, f, S), AddsUp(h, f, T),
           NEW s \in (SUBSET S) \cap (SUBSET T)
    PROVE  g[s] = h[s]
<1> DEFINE Bad == {t \in (SUBSET S) \cap (SUBSET T) : g[t] # h[t]}
<1>1. SUFFICES ASSUME Bad # {} PROVE FALSE
  OBVIOUS
<1>2. PICK t \in Bad : \A u \in Bad : u \subseteq t => u = t
  <2>1. Bad \in SUBSET SUBSET S
    OBVIOUS
  <2> HIDE DEF Bad
  <2> QED
    BY <1>1, <2>1, Smallest
<1>3. g[t] = Summed(f, g, t) /\ h[t] = Summed(f, h, t)
  BY DEF AddsUp
<1>4. t # {}
  BY <1>2, <1>3 DEF Summed
<1>5. Picked(t) \in t
  BY <1>4 DEF Picked
<1>6. g[t \ {Picked(t)}] = h[t \ {Picked(t)}]
  BY <1>2, <1>5
<1> QED
  BY <1>2, <1>3, <1>4, <1>6 DEF Summed

LEMMA FoldAddsUp == ASSUME NEW f, NEW S, IsFiniteSet(S) PROVE AddsUp(Fold(f, S), f, S)
<1> DEFINE Bad == {t \in SUBSET S : ~AddsUp(Fold(f, t), f, t)}
<1>1. SUFFICES ASSUME Bad # {} PROVE FALSE
  OBVIOUS
<1>2. PICK t \in Bad : \A u \in Bad : u \subseteq t => u = t
  <2>1. Bad \in SUBSET SUBSET S
    OBVIOUS
  <2> HIDE DEF Bad
  <2> QED
    BY <1>1, <2>1, Smallest
<1> DEFINE g == [s \in SUBSET t |-> Summed(f, [u \in SUBSET t |-> Fold(f, u)[u]], s)]
<1>3. ASSUME NEW s \in SUBSET t, s # t PROVE g[s] = Fold(f, s)[s]
  <2>1. AddsUp(Fold(f, s), f, s) /\ IsFiniteSet(s)
    BY <1>2, <1>3, FS_Subset
  <2>2. Fold(f, s)[s] = Summed(f, Fold(f, s), s)
    BY <2>1 DEF AddsUp
  <2>3. CASE s = {}
    BY <2>2, <2>3 DEF Summed
  <2>4. CASE s # {}
    <3> DEFINE u == s \ {Picked(s)}
    <3>1. u \in SUBSET t /\ u \in SUBSET s /\ u # t
      BY <1>3
    <3>2. AddsUp(Fold(f, u), f, u)
      BY <1>2, <3>1
    <3>3. Fold(f, s)[u] = Fold(f, u)[u]
      <4>1. u \in (SUBSET s) \cap (SUBSET u)
        BY <3>1
      <4> HIDE DEF u
      <4> QED
        BY <2>1, <3>2, <4>1, AddsUpOnce
    <3> QED
      BY <2>2, <2>4, <3>1, <3>3 DEF Summed
  <2> QED
    BY <2>3, <2>4
<1>4. ASSUME NEW s \in SUBSET t PROVE g[s] = Summed(f, g, s)
  <2>1. CASE s = {}
    BY <2>1 DEF Summed
  <2>2. CASE s # {}
    <3> DEFINE u == s \ {Picked(s)}
    <3>1. Picked(s) \in s
      BY <2>2 DEF Picked
    <3>2. u \in SUBSET t /\ u # t
      BY <3>1
    <3>3. g[u] = Fold(f, u)[u]
      BY <1>3, <3>2
    <3> HIDE DEF g
    <3>4. g[s] = Summed(f, [v \in SUBSET t |-> Fold(f, v)[v]], s)
      BY DEF g
    <3> QED
      BY <2>2, <3>2, <3>3, <3>4 DEF Summed
  <2> QED
    BY <2>1, <2>2
<1>5. AddsUp(g, f, t)
  <2>1. g = [s \in SUBSET t |-> g[s]]
    OBVIOUS
  <2> HIDE DEF g
  <2> QED
    BY <1>4, <2>1 DEF AddsUp
<1>6. AddsUp(Fold(f, t), f, t)
  BY <1>5 DEF Fold
<1> QED
  BY <1>2, <1>6

-----------------------------------------------------------------------------
(* The equation of the sum, and what follows from it *)

LEMMA SumEmpty == ASSUME NEW f PROVE SumFunctionOnSet(f, {}) = 0
<1>1. AddsUp(Fold(f, {}), f, {})
  BY FoldAddsUp, FS_EmptySet
<1> QED
  BY <1>1, SumIsFold DEF AddsUp, Summed

LEMMA SumStep ==
    ASSUME NEW f, NEW S, IsFiniteSet(S), S # {}
    PROVE  /\ Picked(S) \in S
           /\ SumFunctionOnSet(f, S) = f[Picked(S)] + SumFunctionOnSet(f, S \ {Picked(S)})
<1> DEFINE T == S \ {Picked(S)}
<1>1. Picked(S) \in S
  BY DEF Picked
<1>2. AddsUp(Fold(f, S), f, S) /\ AddsUp(Fold(f, T), f, T)
  BY FoldAddsUp, FS_Subset
<1>3. Fold(f, S)[S] = f[Picked(S)] + Fold(f, S)[T]
  BY <1>2 DEF AddsUp, Summed
<1>4. T \in (SUBSET S) \cap (SUBSET T)
  OBVIOUS
<1> HIDE DEF T
<1>5. Fold(f, S)[T] = Fold(f, T)[T]
  BY <1>2, <1>4, AddsUpOnce
<1> QED
  BY <1>1, <1>3, <1>5, SumIsFold DEF T

LEMMA SumInt ==
    ASSUME NEW f, NEW S, IsFiniteSet(S), \A x \in S : f[x] \in Int
    PROVE  SumFunctionOnSet(f, S) \in Int
<1> DEFINE Bad == {t \in SUBSET S : SumFunctionOnSet(f, t) \notin Int}
<1>1. SUFFICES ASSUME Bad # {} PROVE FALSE
  OBVIOUS
<1>2. PICK t \in Bad : \A u \in Bad : u \subseteq t => u = t
  <2>1. Bad \in SUBSET SUBSET S
    OBVIOUS
  <2> HIDE DEF Bad
  <2> QED
    BY <1>1, <2>1, Smallest
<1>3. t # {}
  BY SumEmpty
<1>4. IsFiniteSet(t)
  BY FS_Subset
<1>5. Picked(t) \in t /\ SumFunctionOnSet(f, t) = f[Picked(t)] + SumFunctionOnSet(f, t \ {Picked(t)})
  BY <1>3, <1>4, SumStep
<1>6. SumFunctionOnSet(f, t \ {Picked(t)}) \in Int
  BY <1>2, <1>5
<1> QED
  BY <1>5, <1>6

\* Any element may be the one that is added last.
LEMMA SumRemove ==
    ASSUME NEW f, NEW S, IsFiniteSet(S), \A x \in S : f[x] \in Int, NEW y \in S
    PROVE  SumFunctionOnSet(f, S) = f[y] + SumFunctionOnSet(f, S \ {y})
<1> DEFINE Bad == {t \in SUBSET S : \E x \in t :
                      SumFunctionOnSet(f, t) # f[x] + SumFunctionOnSet(f, t \ {x})}
<1>1. SUFFICES ASSUME Bad # {} PROVE FALSE
  OBVIOUS
<1>2. PICK t \in Bad : \A u \in Bad : u \subseteq t => u = t
  <2>1. Bad \in SUBSET SUBSET S
    OBVIOUS
  <2> HIDE DEF Bad
  <2> QED
    BY <1>1, <2>1, Smallest
<1>3. PICK x \in t : SumFunctionOnSet(f, t) # f[x] + SumFunctionOnSet(f, t \ {x})
  OBVIOUS
<1> DEFINE p == Picked(t)
<1>4. IsFiniteSet(t) /\ \A u \in SUBSET t : IsFiniteSet(u)
  BY FS_Subset
<1>5. p \in t /\ SumFunctionOnSet(f, t) = f[p] + SumFunctionOnSet(f, t \ {p})
  BY <1>3, <1>4, SumStep
<1> HIDE DEF p
<1>6. p # x
  BY <1>3, <1>5
<1>7. SumFunctionOnSet(f, t \ {p}) = f[x] + SumFunctionOnSet(f, (t \ {p}) \ {x})
  BY <1>2, <1>5, <1>6
<1>8. SumFunctionOnSet(f, t \ {x}) = f[p] + SumFunctionOnSet(f, (t \ {x}) \ {p})
  BY <1>2, <1>5, <1>6
<1>9. (t \ {p}) \ {x} = (t \ {x}) \ {p} /\ (t \ {p}) \ {x} \in SUBSET t
  OBVIOUS
<1>10. SumFunctionOnSet(f, (t \ {p}) \ {x}) \in Int
  BY <1>4, <1>9, SumInt
<1>11. f[p] \in Int /\ f[x] \in Int
  BY <1>5
<1>12. SumFunctionOnSet(f, t) = f[p] + (f[x] + SumFunctionOnSet(f, (t \ {p}) \ {x}))
  BY <1>5, <1>7
<1>13. SumFunctionOnSet(f, t \ {x}) = f[p] + SumFunctionOnSet(f, (t \ {p}) \ {x})
  BY <1>8, <1>9
<1>14. ASSUME NEW a \in Int, NEW b \in Int, NEW c \in Int PROVE a + (b + c) = b + (a + c)
  OBVIOUS
<1> QED
  BY <1>3, <1>10, <1>11, <1>12, <1>13, <1>14

LEMMA SumAdd ==
    ASSUME NEW f, NEW S, IsFiniteSet(S), NEW y, y \notin S, \A x \in S \cup {y} : f[x] \in Int
    PROVE  SumFunctionOnSet(f, S \cup {y}) = f[y] + SumFunctionOnSet(f, S)
<1>1. IsFiniteSet(S \cup {y}) /\ (S \cup {y}) \ {y} = S
  BY FS_AddElement
<1> QED
  BY <1>1, SumRemove

\* Functions that agree on a set add up to the same.
LEMMA SumSame ==
    ASSUME NEW f, NEW h, NEW S, IsFiniteSet(S), \A x \in S : f[x] = h[x]
    PROVE  SumFunctionOnSet(f, S) = SumFunctionOnSet(h, S)
<1> DEFINE Bad == {t \in SUBSET S : SumFunctionOnSet(f, t) # SumFunctionOnSet(h, t)}
<1>1. SUFFICES ASSUME Bad # {} PROVE FALSE
  OBVIOUS
<1>2. PICK t \in Bad : \A u \in Bad : u \subseteq t => u = t
  <2>1. Bad \in SUBSET SUBSET S
    OBVIOUS
  <2> HIDE DEF Bad
  <2> QED
    BY <1>1, <2>1, Smallest
<1>3. t # {} /\ IsFiniteSet(t)
  BY SumEmpty, FS_Subset
<1>4. /\ Picked(t) \in t
      /\ SumFunctionOnSet(f, t) = f[Picked(t)] + SumFunctionOnSet(f, t \ {Picked(t)})
      /\ SumFunctionOnSet(h, t) = h[Picked(t)] + SumFunctionOnSet(h, t \ {Picked(t)})
  BY <1>3, SumStep
<1>5. SumFunctionOnSet(f, t \ {Picked(t)}) = SumFunctionOnSet(h, t \ {Picked(t)})
  BY <1>2, <1>4
<1> QED
  BY <1>4, <1>5

\* One place changes, and the sum by as much.
LEMMA SumChanged ==
    ASSUME NEW f, NEW h, NEW S, IsFiniteSet(S), NEW y \in S, h[y] \in Int,
           \A x \in S : f[x] \in Int, \A x \in S \ {y} : h[x] = f[x]
    PROVE  SumFunctionOnSet(h, S) = SumFunctionOnSet(f, S) - f[y] + h[y]
<1> DEFINE T == S \ {y}
<1>1. IsFiniteSet(T) /\ \A x \in S : h[x] \in Int
  BY FS_Subset
<1>2. SumFunctionOnSet(f, S) = f[y] + SumFunctionOnSet(f, T)
  BY SumRemove
<1>3. SumFunctionOnSet(h, S) = h[y] + SumFunctionOnSet(h, T)
  BY <1>1, SumRemove
<1>4. SumFunctionOnSet(h, T) = SumFunctionOnSet(f, T)
  BY <1>1, SumSame
<1>5. SumFunctionOnSet(f, T) \in Int
  BY <1>1, SumInt
<1> QED
  BY <1>2, <1>3, <1>4, <1>5

LEMMA SumNone ==
    ASSUME NEW f, NEW S, IsFiniteSet(S), \A x \in S : f[x] = 0
    PROVE  SumFunctionOnSet(f, S) = 0
<1> DEFINE Bad == {t \in SUBSET S : SumFunctionOnSet(f, t) # 0}
<1>1. SUFFICES ASSUME Bad # {} PROVE FALSE
  OBVIOUS
<1>2. PICK t \in Bad : \A u \in Bad : u \subseteq t => u = t
  <2>1. Bad \in SUBSET SUBSET S
    OBVIOUS
  <2> HIDE DEF Bad
  <2> QED
    BY <1>1, <2>1, Smallest
<1>3. t # {} /\ IsFiniteSet(t)
  BY SumEmpty, FS_Subset
<1>4. Picked(t) \in t /\ SumFunctionOnSet(f, t) = f[Picked(t)] + SumFunctionOnSet(f, t \ {Picked(t)})
  BY <1>3, SumStep
<1>5. SumFunctionOnSet(f, t \ {Picked(t)}) = 0
  BY <1>2, <1>4
<1> QED
  BY <1>4, <1>5

\* A factor of each is one of the sum.
LEMMA SumScaled ==
    ASSUME NEW f, NEW h, NEW S, IsFiniteSet(S), NEW k \in Int,
           \A x \in S : f[x] \in Int /\ h[x] = k * f[x]
    PROVE  SumFunctionOnSet(h, S) = k * SumFunctionOnSet(f, S)
<1> DEFINE Bad == {t \in SUBSET S : SumFunctionOnSet(h, t) # k * SumFunctionOnSet(f, t)}
<1>1. SUFFICES ASSUME Bad # {} PROVE FALSE
  OBVIOUS
<1>2. PICK t \in Bad : \A u \in Bad : u \subseteq t => u = t
  <2>1. Bad \in SUBSET SUBSET S
    OBVIOUS
  <2> HIDE DEF Bad
  <2> QED
    BY <1>1, <2>1, Smallest
<1>3. t # {} /\ IsFiniteSet(t)
  <2>1. k * 0 = 0 /\ SumFunctionOnSet(h, {}) = 0 /\ SumFunctionOnSet(f, {}) = 0
    BY SumEmpty
  <2>2. t # {}
    BY <2>1
  <2> QED
    BY <2>2, FS_Subset
<1>4. PICK p : /\ p \in t /\ SumFunctionOnSet(f, t) = f[p] + SumFunctionOnSet(f, t \ {p})
               /\ SumFunctionOnSet(h, t) = h[p] + SumFunctionOnSet(h, t \ {p})
  BY <1>3, SumStep
<1>5. SumFunctionOnSet(h, t \ {p}) = k * SumFunctionOnSet(f, t \ {p})
  BY <1>2, <1>4
<1>6. f[p] \in Int /\ SumFunctionOnSet(f, t \ {p}) \in Int
  <2>1. IsFiniteSet(t \ {p}) /\ \A x \in t \ {p} : f[x] \in Int
    BY <1>3, FS_Subset
  <2> QED
    BY <1>4, <2>1, SumInt
<1>7. k * (f[p] + SumFunctionOnSet(f, t \ {p})) = k * f[p] + k * SumFunctionOnSet(f, t \ {p})
  BY <1>6
<1> QED
  BY <1>2, <1>4, <1>5, <1>7

\* The sum over two sets that have nothing in common.
LEMMA SumDisjoint ==
    ASSUME NEW f, NEW R, NEW S, IsFiniteSet(R), IsFiniteSet(S), R \cap S = {},
           \A x \in R \cup S : f[x] \in Int
    PROVE  SumFunctionOnSet(f, R \cup S) = SumFunctionOnSet(f, R) + SumFunctionOnSet(f, S)
<1> DEFINE Bad == {t \in SUBSET S : SumFunctionOnSet(f, R \cup t) # SumFunctionOnSet(f, R) + SumFunctionOnSet(f, t)}
<1>0. SumFunctionOnSet(f, R) \in Int
  BY SumInt
<1>1. SUFFICES ASSUME Bad # {} PROVE FALSE
  OBVIOUS
<1>2. PICK t \in Bad : \A u \in Bad : u \subseteq t => u = t
  <2>1. Bad \in SUBSET SUBSET S
    OBVIOUS
  <2> HIDE DEF Bad
  <2> QED
    BY <1>1, <2>1, Smallest
<1>3. t # {} /\ IsFiniteSet(t)
  <2>1. R \cup {} = R /\ SumFunctionOnSet(f, {}) = 0
    BY SumEmpty
  <2>2. {} \notin Bad
    <3>1. SumFunctionOnSet(f, R \cup {}) = SumFunctionOnSet(f, R) + SumFunctionOnSet(f, {})
      BY <1>0, <2>1
    <3> QED
      BY <3>1
  <2>3. t # {}
    <3> HIDE DEF Bad
    <3> QED
      BY <2>2
  <2> QED
    BY <2>3, FS_Subset
<1>4. PICK p : /\ p \in t /\ SumFunctionOnSet(f, t) = f[p] + SumFunctionOnSet(f, t \ {p})
  BY <1>3, SumStep
<1>5. SumFunctionOnSet(f, R \cup (t \ {p})) = SumFunctionOnSet(f, R) + SumFunctionOnSet(f, t \ {p})
  BY <1>2, <1>4
<1>6. f[p] \in Int /\ SumFunctionOnSet(f, t \ {p}) \in Int
  <2>1. IsFiniteSet(t \ {p}) /\ \A x \in t \ {p} : f[x] \in Int
    BY <1>3, FS_Subset
  <2> QED
    BY <1>4, <2>1, SumInt
<1>7. SumFunctionOnSet(f, R \cup t) = f[p] + SumFunctionOnSet(f, R \cup (t \ {p}))
  <2>1. IsFiniteSet(R \cup t) /\ \A x \in R \cup t : f[x] \in Int
    BY <1>3, FS_Union
  <2>2. (R \cup t) \ {p} = R \cup (t \ {p}) /\ p \in R \cup t
    BY <1>4
  <2>3. SumFunctionOnSet(f, R \cup t) = f[p] + SumFunctionOnSet(f, (R \cup t) \ {p})
    BY <2>1, <2>2, SumRemove
  <2> QED
    BY <2>2, <2>3
<1> QED
  BY <1>0, <1>2, <1>4, <1>5, <1>6, <1>7

\* What is counted part by part is counted once.
LEMMA SumOfParts ==
    ASSUME NEW f, NEW S, IsFiniteSet(S), \A x \in S : f[x] \in Int,
           NEW h, NEW T, IsFiniteSet(T), NEW part,
           \A y \in T : part[y] \in SUBSET S /\ h[y] = SumFunctionOnSet(f, part[y]),
           \A y, z \in T : y # z => part[y] \cap part[z] = {}
    PROVE  SumFunctionOnSet(h, T) = SumFunctionOnSet(f, UNION {part[y] : y \in T})
<1> DEFINE Whole(t) == UNION {part[y] : y \in t}
           Bad == {t \in SUBSET T : SumFunctionOnSet(h, t) # SumFunctionOnSet(f, Whole(t))}
<1>1. SUFFICES ASSUME Bad # {} PROVE FALSE
  OBVIOUS
<1>2. PICK t \in Bad : \A u \in Bad : u \subseteq t => u = t
  <2>1. Bad \in SUBSET SUBSET T
    OBVIOUS
  <2> HIDE DEF Bad
  <2> QED
    BY <1>1, <2>1, Smallest
<1>3. t # {} /\ IsFiniteSet(t)
  <2>1. Whole({}) = {}
    OBVIOUS
  <2> HIDE DEF Whole
  <2> QED
    BY <2>1, SumEmpty, FS_Subset
<1>4. PICK p : p \in t /\ SumFunctionOnSet(h, t) = h[p] + SumFunctionOnSet(h, t \ {p})
  BY <1>3, SumStep
<1> DEFINE rest == t \ {p}
<1>5. SumFunctionOnSet(h, rest) = SumFunctionOnSet(f, Whole(rest))
  <2>1. rest \in SUBSET T /\ rest \subseteq t /\ rest # t
    BY <1>4
  <2> HIDE DEF rest, Whole
  <2> QED
    BY <1>2, <2>1
<1>6. /\ Whole(t) = part[p] \cup Whole(rest) /\ part[p] \cap Whole(rest) = {}
      /\ Whole(rest) \in SUBSET S /\ part[p] \in SUBSET S
  BY <1>4
<1>7. SumFunctionOnSet(f, Whole(t)) = SumFunctionOnSet(f, part[p]) + SumFunctionOnSet(f, Whole(rest))
  <2> HIDE DEF Whole, rest
  <2>1. IsFiniteSet(part[p]) /\ IsFiniteSet(Whole(rest))
    BY <1>6, FS_Subset
  <2>2. \A x \in part[p] \cup Whole(rest) : f[x] \in Int
    BY <1>6
  <2>3. SumFunctionOnSet(f, part[p] \cup Whole(rest)) = SumFunctionOnSet(f, part[p]) + SumFunctionOnSet(f, Whole(rest))
    BY <1>6, <2>1, <2>2, SumDisjoint
  <2> QED
    BY <1>6, <2>3
<1>8. h[p] = SumFunctionOnSet(f, part[p])
  BY <1>4
<1>9. SumFunctionOnSet(h, t) # SumFunctionOnSet(f, Whole(t))
  BY <1>2
<1> HIDE DEF Whole, rest
<1> QED
  BY <1>4, <1>5, <1>7, <1>8, <1>9 DEF rest

-----------------------------------------------------------------------------
(* Sums written otherwise *)

\* The same with each element added after the others, as a fold may have it.
AddsLast(g, f, S) ==
    g = [s \in SUBSET S |-> IF s = {} THEN 0 ELSE g[s \ {Picked(s)}] + f[Picked(s)]]

LEMMA SumAddedLast ==
    ASSUME NEW f, NEW S, IsFiniteSet(S), \A x \in S : f[x] \in Int
    PROVE  (CHOOSE g : AddsLast(g, f, S))[S] = SumFunctionOnSet(f, S)
<1>0. \A s \in SUBSET S : IsFiniteSet(s)
  BY FS_Subset
<1>1. ASSUME NEW s \in SUBSET S, s # {}
      PROVE  /\ Picked(s) \in s
             /\ SumFunctionOnSet(f, s) = SumFunctionOnSet(f, s \ {Picked(s)}) + f[Picked(s)]
  <2>1. Picked(s) \in s /\ SumFunctionOnSet(f, s) = f[Picked(s)] + SumFunctionOnSet(f, s \ {Picked(s)})
    BY <1>0, <1>1, SumStep
  <2>2. f[Picked(s)] \in Int /\ SumFunctionOnSet(f, s \ {Picked(s)}) \in Int
    BY <1>0, <2>1, SumInt
  <2> QED
    BY <2>1, <2>2
<1> DEFINE h == [s \in SUBSET S |-> SumFunctionOnSet(f, s)]
<1>2. AddsLast(h, f, S)
  <2>1. ASSUME NEW s \in SUBSET S
        PROVE  h[s] = IF s = {} THEN 0 ELSE h[s \ {Picked(s)}] + f[Picked(s)]
    BY <1>1, SumEmpty
  <2> QED
    BY <2>1 DEF AddsLast
<1> DEFINE g == CHOOSE g : AddsLast(g, f, S)
<1>3. AddsLast(g, f, S)
  BY <1>2
<1> HIDE DEF g, h
<1>4. ASSUME NEW s \in SUBSET S PROVE g[s] = SumFunctionOnSet(f, s)
  <2> DEFINE Bad == {t \in SUBSET S : g[t] # SumFunctionOnSet(f, t)}
  <2>1. SUFFICES ASSUME Bad # {} PROVE FALSE
    OBVIOUS
  <2>2. PICK t \in Bad : \A u \in Bad : u \subseteq t => u = t
    <3>1. Bad \in SUBSET SUBSET S
      OBVIOUS
    <3> HIDE DEF Bad
    <3> QED
      BY <2>1, <3>1, Smallest
  <2>3. g[t] = IF t = {} THEN 0 ELSE g[t \ {Picked(t)}] + f[Picked(t)]
    BY <1>3 DEF AddsLast
  <2>4. t # {}
    BY <2>3, SumEmpty
  <2>5. Picked(t) \in t /\ SumFunctionOnSet(f, t) = SumFunctionOnSet(f, t \ {Picked(t)}) + f[Picked(t)]
    BY <1>1, <2>4
  <2>6. g[t \ {Picked(t)}] = SumFunctionOnSet(f, t \ {Picked(t)})
    BY <2>2, <2>5
  <2> QED
    BY <2>3, <2>4, <2>5, <2>6
<1> QED
  BY <1>4 DEF g

\* A sum of ones, taken or given.
LEMMA SumOfOnes ==
    ASSUME NEW f, NEW S, IsFiniteSet(S), \A x \in S : f[x] \in {1, -1}
    PROVE  SumFunctionOnSet(f, S) = Cardinality({x \in S : f[x] = 1}) - Cardinality({x \in S : f[x] = -1})
<1> DEFINE Up(t) == {x \in t : f[x] = 1}
           Down(t) == {x \in t : f[x] = -1}
           Bad == {t \in SUBSET S : SumFunctionOnSet(f, t) # Cardinality(Up(t)) - Cardinality(Down(t))}
<1>1. SUFFICES ASSUME Bad # {} PROVE FALSE
  OBVIOUS
<1>2. PICK t \in Bad : \A u \in Bad : u \subseteq t => u = t
  <2>1. Bad \in SUBSET SUBSET S
    OBVIOUS
  <2> HIDE DEF Bad
  <2> QED
    BY <1>1, <2>1, Smallest
<1>3. \A u \in SUBSET S : IsFiniteSet(u) /\ IsFiniteSet(Up(u)) /\ IsFiniteSet(Down(u))
  BY FS_Subset
<1>4. t # {}
  <2>1. CASE t = {}
    <3>1. Up(t) = {} /\ Down(t) = {}
      BY <2>1
    <3> QED
      BY <1>2, <2>1, <3>1, SumEmpty, FS_EmptySet
  <2> QED
    BY <2>1
<1>5. PICK p : /\ p \in t
               /\ SumFunctionOnSet(f, t) = f[p] + SumFunctionOnSet(f, t \ {p})
  BY <1>3, <1>4, SumStep
<1> DEFINE u == t \ {p}
<1>6. SumFunctionOnSet(f, u) = Cardinality(Up(u)) - Cardinality(Down(u)) /\ u \in SUBSET S
  BY <1>2, <1>5
<1>7. Cardinality(Up(u)) \in Nat /\ Cardinality(Down(u)) \in Nat
  BY <1>3, <1>6, FS_CardinalityType
<1>8. CASE f[p] = 1
  <2>1. Up(t) = Up(u) \cup {p} /\ p \notin Up(u) /\ Down(t) = Down(u)
    BY <1>5, <1>8
  <2>2. Cardinality(Up(u) \cup {p}) = Cardinality(Up(u)) + 1
    BY <1>3, <1>6, <2>1, FS_AddElement
  <2>3. SumFunctionOnSet(f, t) = 1 + (Cardinality(Up(u)) - Cardinality(Down(u)))
    BY <1>5, <1>6, <1>8
  <2>4. Cardinality(Up(t)) = Cardinality(Up(u)) + 1 /\ Cardinality(Down(t)) = Cardinality(Down(u))
    BY <2>1, <2>2
  <2>5. SumFunctionOnSet(f, t) # Cardinality(Up(t)) - Cardinality(Down(t))
    BY <1>2
  <2> HIDE DEF Up, Down, u
  <2> QED
    BY <1>7, <2>3, <2>4, <2>5
<1>9. CASE f[p] = -1
  <2>1. Down(t) = Down(u) \cup {p} /\ p \notin Down(u) /\ Up(t) = Up(u)
    BY <1>5, <1>9
  <2>2. Cardinality(Down(u) \cup {p}) = Cardinality(Down(u)) + 1
    BY <1>3, <1>6, <2>1, FS_AddElement
  <2>3. SumFunctionOnSet(f, t) = -1 + (Cardinality(Up(u)) - Cardinality(Down(u)))
    BY <1>5, <1>6, <1>9
  <2>4. Cardinality(Down(t)) = Cardinality(Down(u)) + 1 /\ Cardinality(Up(t)) = Cardinality(Up(u))
    BY <2>1, <2>2
  <2>5. SumFunctionOnSet(f, t) # Cardinality(Up(t)) - Cardinality(Down(t))
    BY <1>2
  <2> HIDE DEF Up, Down, u
  <2> QED
    BY <1>7, <2>3, <2>4, <2>5
<1> QED
  BY <1>5, <1>8, <1>9

-----------------------------------------------------------------------------
(* Sums of sums, of parts and of multiples *)

LEMMA SumPlus ==
    ASSUME NEW f, NEW g, NEW h, NEW S, IsFiniteSet(S),
           \A x \in S : f[x] \in Int /\ g[x] \in Int /\ h[x] = f[x] + g[x]
    PROVE  SumFunctionOnSet(h, S) = SumFunctionOnSet(f, S) + SumFunctionOnSet(g, S)
<1> DEFINE Bad == {t \in SUBSET S : SumFunctionOnSet(h, t) # SumFunctionOnSet(f, t) + SumFunctionOnSet(g, t)}
<1>1. SUFFICES ASSUME Bad # {} PROVE FALSE
  OBVIOUS
<1>2. PICK t \in Bad : \A u \in Bad : u \subseteq t => u = t
  <2>1. Bad \in SUBSET SUBSET S
    OBVIOUS
  <2> HIDE DEF Bad
  <2> QED
    BY <1>1, <2>1, Smallest
<1>3. t # {} /\ IsFiniteSet(t)
  <2>1. SumFunctionOnSet(h, {}) = 0 /\ SumFunctionOnSet(f, {}) = 0 /\ SumFunctionOnSet(g, {}) = 0
    BY SumEmpty
  <2>2. SumFunctionOnSet(h, {}) = SumFunctionOnSet(f, {}) + SumFunctionOnSet(g, {})
    BY <2>1
  <2>3. t # {}
    <3>1. {} \notin Bad
      BY <2>2
    <3> HIDE DEF Bad
    <3> QED
      BY <3>1
  <2> QED
    BY <2>3, FS_Subset
<1>4. PICK p : /\ p \in t /\ SumFunctionOnSet(f, t) = f[p] + SumFunctionOnSet(f, t \ {p})
               /\ SumFunctionOnSet(g, t) = g[p] + SumFunctionOnSet(g, t \ {p})
               /\ SumFunctionOnSet(h, t) = h[p] + SumFunctionOnSet(h, t \ {p})
  BY <1>3, SumStep
<1>5. SumFunctionOnSet(h, t \ {p}) = SumFunctionOnSet(f, t \ {p}) + SumFunctionOnSet(g, t \ {p})
  BY <1>2, <1>4
<1>6. /\ f[p] \in Int /\ SumFunctionOnSet(f, t \ {p}) \in Int
      /\ g[p] \in Int /\ SumFunctionOnSet(g, t \ {p}) \in Int
  <2>1. IsFiniteSet(t \ {p}) /\ \A x \in t \ {p} : f[x] \in Int /\ g[x] \in Int
    BY <1>3, FS_Subset
  <2> QED
    BY <1>4, <2>1, SumInt
<1> QED
  BY <1>2, <1>4, <1>5, <1>6

\* What is summed over a part, when the rest counts for nothing.
LEMMA SumWhere ==
    ASSUME NEW f, NEW g, NEW S, IsFiniteSet(S), \A x \in S : f[x] \in Int, NEW T, T \subseteq S,
           \A x \in T : f[x] = g[x], \A x \in S \ T : f[x] = 0
    PROVE  SumFunctionOnSet(g, T) = SumFunctionOnSet(f, S)
<1> PICK R : R = S \ T
  OBVIOUS
<1>1. IsFiniteSet(T) /\ IsFiniteSet(R) /\ T \cup R = S /\ T \cap R = {}
  BY FS_Subset
<1>2. SumFunctionOnSet(f, T \cup R) = SumFunctionOnSet(f, T) + SumFunctionOnSet(f, R)
  BY <1>1, SumDisjoint
<1>3. SumFunctionOnSet(f, R) = 0
  BY <1>1, SumNone
<1>4. SumFunctionOnSet(f, T) = SumFunctionOnSet(g, T) /\ SumFunctionOnSet(f, T) \in Int
  BY <1>1, SumSame, SumInt
<1>5. SumFunctionOnSet(f, S) = SumFunctionOnSet(f, T) + SumFunctionOnSet(f, R)
  BY <1>1, <1>2, Zenon
<1> QED
  BY <1>3, <1>4, <1>5

LEMMA SumOne ==
    ASSUME NEW f, NEW S, IsFiniteSet(S), NEW y \in S, f[y] \in Int, \A x \in S \ {y} : f[x] = 0
    PROVE  SumFunctionOnSet(f, S) = f[y]
<1> PICK R : R = S \ {y}
  OBVIOUS
<1>1. IsFiniteSet(R) /\ \A x \in S : f[x] \in Int
  BY FS_Subset
<1>2. SumFunctionOnSet(f, S) = f[y] + SumFunctionOnSet(f, R)
  BY <1>1, SumRemove
<1>3. SumFunctionOnSet(f, R) = 0
  BY <1>1, SumNone
<1> QED
  BY <1>2, <1>3

IsMultiple(n, q) == \E k \in Int : n = q * k

LEMMA SumMultiple ==
    ASSUME NEW f, NEW S, IsFiniteSet(S), NEW q \in Int, \A x \in S : IsMultiple(f[x], q)
    PROVE  IsMultiple(SumFunctionOnSet(f, S), q)
<1> DEFINE g == [x \in S |-> CHOOSE k \in Int : f[x] = q * k]
<1>1. \A x \in S : g[x] \in Int /\ f[x] = q * g[x]
  BY DEF IsMultiple
<1> HIDE DEF g
<1>2. SumFunctionOnSet(f, S) = q * SumFunctionOnSet(g, S)
  BY <1>1, SumScaled
<1>3. SumFunctionOnSet(g, S) \in Int
  BY <1>1, SumInt
<1> QED
  BY <1>2, <1>3 DEF IsMultiple

\* A set of records made of each of some values adds up as the values do.
Made(at, S) == {at[x] : x \in S}

LEMMA SumImage ==
    ASSUME NEW at, NEW S, IsFiniteSet(S), NEW h, NEW f,
           \A x \in S : f[x] \in Int /\ h[at[x]] = f[x], \A x, y \in S : at[x] = at[y] => x = y
    PROVE  SumFunctionOnSet(h, Made(at, S)) = SumFunctionOnSet(f, S)
<1> DEFINE map == [x \in S |-> at[x]]
           C == {at[x] : x \in S}
           back == [p \in C |-> CHOOSE x \in S : p = at[x]]
           part == [p \in C |-> {back[p]}]
<1>1. IsFiniteSet(C)
  <2>1. map \in Surjection(S, C)
    BY DEF Surjection
  <2> HIDE DEF map, C
  <2> QED
    BY <2>1, FS_Surjection
<1>2. ASSUME NEW p \in C
      PROVE  part[p] = {back[p]} /\ back[p] \in S /\ p = at[back[p]] /\ h[p] = f[back[p]]
  OBVIOUS
<1> HIDE DEF back
<1>3. ASSUME NEW x \in S PROVE at[x] \in C /\ part[at[x]] = {x}
  <2>1. at[x] \in C
    OBVIOUS
  <2>2. back[at[x]] = x
    BY <1>2, <2>1
  <2> QED
    BY <2>1, <2>2
<1> HIDE DEF C, part
<1>4. ASSUME NEW p \in C PROVE part[p] \in SUBSET S /\ h[p] = SumFunctionOnSet(f, part[p])
  <2> PICK x : x = back[p]
    OBVIOUS
  <2>1. part[p] = {x} /\ x \in S /\ h[p] = f[x] /\ f[x] \in Int
    BY <1>2
  <2>2. IsFiniteSet({x}) /\ \A y \in {x} \ {x} : f[y] = 0
    BY FS_Singleton
  <2>3. SumFunctionOnSet(f, {x}) = f[x]
    BY <2>1, <2>2, SumOne
  <2> QED
    BY <2>1, <2>3
<1>5. \A p, q \in C : p # q => part[p] \cap part[q] = {}
  BY <1>2
<1>6. UNION {part[p] : p \in C} = S
  BY <1>2, <1>3
<1>7. SumFunctionOnSet(h, C) = SumFunctionOnSet(f, UNION {part[p] : p \in C})
  BY <1>1, <1>4, <1>5, SumOfParts
<1>8. C = Made(at, S)
  BY DEF C, Made
<1> QED
  BY <1>6, <1>7, <1>8

-----------------------------------------------------------------------------
(* Division without remainder *)

LEMMA Whole ==
    ASSUME NEW n \in Nat, NEW q \in Nat \ {0}, n % q = 0
    PROVE  n = q * (n \div q) /\ n \div q \in Nat
<1>1. n \div q \in Nat /\ n = (q * (n \div q)) + (n % q)
  OBVIOUS
<1>2. q * (n \div q) \in Nat
  BY <1>1
<1> QED
  BY <1>1, <1>2

LEMMA Multiple ==
    ASSUME NEW n \in Int, NEW q \in Nat \ {0}
    PROVE  (q * n) \div q = n
<1> DEFINE m == (q * n) \div q
           rest == (q * n) % q
<1>1. q * n \in Int
  OBVIOUS
<1>2. m \in Int /\ rest \in 0..(q - 1) /\ q * n = (q * m) + rest
  BY <1>1
<1> HIDE DEF m, rest
<1>3. q * m \in Int /\ q * (m + 1) = q * m + q /\ q * (n + 1) = q * n + q
  BY <1>2
<1>4. ~(m < n)
  <2>1. m + 1 <= n => q * (m + 1) <= q * n
    BY <1>2
  <2> QED
    BY <1>1, <1>2, <1>3, <2>1
<1>5. ~(n < m)
  <2>1. n + 1 <= m => q * (n + 1) <= q * m
    BY <1>2
  <2> QED
    BY <1>1, <1>2, <1>3, <2>1
<1> QED
  BY <1>2, <1>4, <1>5 DEF m
===============================================================================
