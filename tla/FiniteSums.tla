----------------------------- MODULE FiniteSums -----------------------------
(***************************************************************************)
(* Facts about SumFunctionOnSet, the sum of a function's values over a     *)
(* finite set, which PageCache counts bytes with and Sampler probability.  *)
(* They are inductions over data; the provers cannot instantiate an        *)
(* induction rule, but they can take a minimal element of the set of       *)
(* counterexamples.                                                        *)
(***************************************************************************)
EXTENDS Functions, FiniteSetTheorems, WellFoundedInduction, TLAPS

-----------------------------------------------------------------------------
(* Induction. *)

\* Among the subsets of a finite set some are minimal.
LEMMA MinimalSubset ==
    ASSUME NEW S, IsFiniteSet(S), NEW T, T \subseteq SUBSET S, T # {}
    PROVE  \E U \in T : \A V \in T : V \subseteq U => V = U
  <1> DEFINE R == StrictSubsetOrdering(S)
  <1>1. IsWellFoundedOn(R, SUBSET S)
    BY FS_StrictSubsetOrderingWellFounded, FS_FiniteSubsetsOfFinite
  <1> HIDE DEF R
  <1>2. PICK U \in T : \A V \in T : ~(<<V, U>> \in R)
    BY <1>1, WFMin
  <1>3. ASSUME NEW V \in T, V \subseteq U PROVE V = U
    BY <1>2, <1>3 DEF R, StrictSubsetOrdering
  <1> QED BY <1>3

\* A set of numbers has a least one.
LEMMA LeastNumber ==
    ASSUME NEW T \in SUBSET Nat, T # {}
    PROVE  \E n \in T : \A m \in T : n <= m
  <1> DEFINE R == OpToRel(<, Nat)
  <1>1. IsWellFoundedOn(R, Nat)
    BY NatLessThanWellFounded
  <1>2. \A m, n \in Nat : m < n => <<m, n>> \in R
    BY DEF OpToRel
  <1> HIDE DEF R
  <1>3. PICK n \in T : \A m \in T : ~(<<m, n>> \in R)
    BY <1>1, WFMin
  <1>4. ASSUME NEW m \in T PROVE n <= m
    <2>1. ~(<<m, n>> \in R) /\ m \in Nat /\ n \in Nat
      BY <1>3
    <2>2. ~(m < n)
      BY <1>2, <2>1
    <2> QED BY <2>1, <2>2
  <1> QED BY <1>4

\* A set that holds 0 and every successor holds every number.
LEMMA HoldsAllNumbers ==
    ASSUME NEW T \in SUBSET Nat, 0 \in T, \A n \in T : n + 1 \in T
    PROVE  T = Nat
  <1>1. CASE Nat \ T = {}
    BY <1>1
  <1>2. CASE Nat \ T # {}
    <2>1. PICK n \in Nat \ T : \A m \in Nat \ T : n <= m
      BY <1>2, LeastNumber
    <2>2. n # 0 /\ n - 1 \in Nat
      BY <2>1
    <2>3. n - 1 \in T
      BY <2>1, <2>2
    <2>4. (n - 1) + 1 = n
      BY <2>1
    <2> QED BY <2>1, <2>3, <2>4
  <1> QED BY <1>1, <1>2

-----------------------------------------------------------------------------
(* The recursion by which the sum is defined has a solution, and only one. *)

\* g sums f over every subset of S.
Sums(f, g, S) ==
    g = [s \in SUBSET S |->
            IF s = {} THEN 0
            ELSE LET x == CHOOSE x \in s : TRUE IN f[x] + g[s \ {x}]]

LEMMA SumsDef == ASSUME NEW f, NEW S
                 PROVE  SumFunctionOnSet(f, S) = (CHOOSE g : Sums(f, g, S))[S]
  BY DEF SumFunctionOnSet, FoldFunctionOnSet, MapThenFoldSet, Sums

\* What sums f over the subsets of S sums it over those of a subset, too.
LEMMA SumsRestrict ==
    ASSUME NEW f, NEW S, NEW g, Sums(f, g, S), NEW U \in SUBSET S
    PROVE  Sums(f, [s \in SUBSET U |-> g[s]], U)
  <1> DEFINE h == [s \in SUBSET U |-> g[s]]
  <1>1. ASSUME NEW s \in SUBSET U
        PROVE  h[s] = IF s = {} THEN 0
                      ELSE LET x == CHOOSE x \in s : TRUE IN f[x] + h[s \ {x}]
    <2>1. g[s] = IF s = {} THEN 0
                 ELSE LET x == CHOOSE x \in s : TRUE IN f[x] + g[s \ {x}]
      BY DEF Sums
    <2>2. \A x : s \ {x} \in SUBSET U
      OBVIOUS
    <2> QED BY <2>1, <2>2
  <1> QED BY <1>1 DEF Sums

LEMMA SumsUnique ==
    ASSUME NEW f, NEW S, IsFiniteSet(S), NEW g, NEW h, Sums(f, g, S), Sums(f, h, S)
    PROVE  g = h
  <1> DEFINE Differ == {s \in SUBSET S : g[s] # h[s]}
  <1>1. ASSUME NEW s \in SUBSET S
        PROVE  /\ g[s] = IF s = {} THEN 0
                         ELSE LET x == CHOOSE x \in s : TRUE IN f[x] + g[s \ {x}]
               /\ h[s] = IF s = {} THEN 0
                         ELSE LET x == CHOOSE x \in s : TRUE IN f[x] + h[s \ {x}]
    BY DEF Sums
  <1>2. CASE Differ # {}
    <2> HIDE DEF Differ
    <2>0. Differ \subseteq SUBSET S
      BY DEF Differ
    <2>1. PICK s \in Differ : \A t \in Differ : t \subseteq s => t = s
      BY <1>2, <2>0, MinimalSubset
    <2> USE DEF Differ
    <2>2. s # {}
      BY <1>1
    <2> DEFINE x == CHOOSE x \in s : TRUE
    <2>3. x \in s
      BY <2>2
    <2>4. s \ {x} \in SUBSET S /\ s \ {x} \notin Differ
      BY <2>1, <2>3
    <2>5. g[s \ {x}] = h[s \ {x}]
      BY <2>4
    <2>6. g[s] = f[x] + g[s \ {x}] /\ h[s] = f[x] + h[s \ {x}]
      BY <1>1, <2>2
    <2> QED BY <2>5, <2>6
  <1>3. CASE Differ = {}
    BY <1>3 DEF Sums
  <1> QED BY <1>2, <1>3

LEMMA SumsExist ==
    ASSUME NEW f, NEW S, IsFiniteSet(S)
    PROVE  \E g : Sums(f, g, S)
  <1> DEFINE Bad == {U \in SUBSET S : ~ \E g : Sums(f, g, U)}
  <1>1. CASE Bad # {}
    <2> HIDE DEF Bad
    <2>0. Bad \subseteq SUBSET S
      BY DEF Bad
    <2>1. PICK U \in Bad : \A V \in Bad : V \subseteq U => V = U
      BY <1>1, <2>0, MinimalSubset
    <2> USE DEF Bad
    <2> DEFINE part(s) == CHOOSE g : Sums(f, g, s)
               c(s) == CHOOSE x \in s : TRUE
               g == [s \in SUBSET U |-> IF s = {} THEN 0
                                        ELSE f[c(s)] + part(s \ {c(s)})[s \ {c(s)}]]
    <2>2. ASSUME NEW s \in SUBSET U, s # U PROVE Sums(f, part(s), s)
      <3>1. s \notin Bad /\ s \in SUBSET S
        BY <2>1, <2>2
      <3>2. \E h : Sums(f, h, s)
        BY <3>1
      <3> QED BY <3>2
    <2> HIDE DEF part
    <2>3. ASSUME NEW s \in SUBSET U, s # {}
          PROVE  c(s) \in s /\ s \ {c(s)} \in SUBSET U /\ s \ {c(s)} # U
      BY <2>3
    <2>4. ASSUME NEW s \in SUBSET U, s # U PROVE g[s] = part(s)[s]
      <3>1. CASE s = {}
        BY <2>2, <2>4, <3>1 DEF Sums
      <3>2. CASE s # {}
        <4> DEFINE t == s \ {c(s)}
        <4>1. Sums(f, part(s), s) /\ Sums(f, part(t), t)
          BY <2>2, <2>3, <2>4, <3>2
        <4>2. t \in SUBSET s /\ s \in SUBSET s /\ IsFiniteSet(t)
          BY FS_Subset
        <4>3. Sums(f, [r \in SUBSET t |-> part(s)[r]], t)
          BY <4>1, <4>2, SumsRestrict
        <4>4. part(t) = [r \in SUBSET t |-> part(s)[r]]
          BY <4>1, <4>2, <4>3, SumsUnique
        <4>5. part(t)[t] = part(s)[t]
          BY <4>4
        <4>6. part(s)[s] = f[c(s)] + part(s)[t]
          BY <3>2, <4>1, <4>2 DEF Sums
        <4> QED BY <3>2, <4>5, <4>6
      <3> QED BY <3>1, <3>2
    <2>5. ASSUME NEW s \in SUBSET U, s # {}
          PROVE  g[s] = f[c(s)] + g[s \ {c(s)}]
      BY <2>3, <2>4, <2>5
    <2>6. Sums(f, g, U)
      <3>1. \A s \in SUBSET U :
               g[s] = IF s = {} THEN 0
                      ELSE LET x == CHOOSE x \in s : TRUE IN f[x] + g[s \ {x}]
        BY <2>5
      <3> HIDE DEF g
      <3>2. g = [s \in SUBSET U |-> g[s]]
        BY DEF g
      <3> QED BY <3>1, <3>2 DEF Sums
    <2> QED BY <2>6
  <1>2. CASE Bad = {}
    BY <1>2
  <1> QED BY <1>1, <1>2

LEMMA SumOver ==
    ASSUME NEW f, NEW S, IsFiniteSet(S), NEW g, Sums(f, g, S), NEW U \in SUBSET S
    PROVE  SumFunctionOnSet(f, U) = g[U]
  <1> DEFINE h == CHOOSE h : Sums(f, h, U)
  <1>1. Sums(f, [s \in SUBSET U |-> g[s]], U)
    BY SumsRestrict
  <1>2. IsFiniteSet(U)
    BY FS_Subset
  <1>3. Sums(f, h, U)
    BY <1>1
  <1>4. h = [s \in SUBSET U |-> g[s]]
    BY <1>1, <1>2, <1>3, SumsUnique
  <1> QED BY <1>4, SumsDef

-----------------------------------------------------------------------------
(* Sums. *)

LEMMA SumEmpty == ASSUME NEW f PROVE SumFunctionOnSet(f, {}) = 0
  <1>1. IsFiniteSet({})
    BY FS_EmptySet
  <1>2. PICK g : Sums(f, g, {})
    BY <1>1, SumsExist
  <1>3. SumFunctionOnSet(f, {}) = g[{}]
    BY <1>1, <1>2, SumOver
  <1> QED BY <1>2, <1>3 DEF Sums

LEMMA SumChosen ==
    ASSUME NEW f, NEW S, IsFiniteSet(S), S # {}
    PROVE  \E x \in S : SumFunctionOnSet(f, S) = f[x] + SumFunctionOnSet(f, S \ {x})
  <1> DEFINE x == CHOOSE x \in S : TRUE
  <1>1. PICK g : Sums(f, g, S)
    BY SumsExist
  <1>2. S \in SUBSET S /\ S \ {x} \in SUBSET S /\ x \in S
    OBVIOUS
  <1>3. SumFunctionOnSet(f, S) = g[S] /\ SumFunctionOnSet(f, S \ {x}) = g[S \ {x}]
    BY <1>1, <1>2, SumOver
  <1>4. g[S] = f[x] + g[S \ {x}]
    BY <1>1, <1>2 DEF Sums
  <1> QED BY <1>2, <1>3, <1>4

LEMMA SumInNat ==
    ASSUME NEW f, NEW S, IsFiniteSet(S), \A x \in S : f[x] \in Nat
    PROVE  SumFunctionOnSet(f, S) \in Nat
  <1> DEFINE Bad == {U \in SUBSET S : SumFunctionOnSet(f, U) \notin Nat}
  <1>1. CASE Bad # {}
    <2> HIDE DEF Bad
    <2>0. Bad \subseteq SUBSET S
      BY DEF Bad
    <2>1. PICK U \in Bad : \A V \in Bad : V \subseteq U => V = U
      BY <1>1, <2>0, MinimalSubset
    <2>2. U \in SUBSET S /\ SumFunctionOnSet(f, U) \notin Nat
      BY <2>1 DEF Bad
    <2>3. IsFiniteSet(U)
      BY <2>2, FS_Subset
    <2>4. U # {}
      BY <2>2, SumEmpty
    <2>5. PICK x \in U : SumFunctionOnSet(f, U) = f[x] + SumFunctionOnSet(f, U \ {x})
      BY <2>3, <2>4, SumChosen
    <2>6. SumFunctionOnSet(f, U \ {x}) \in Nat
      BY <2>1, <2>2, <2>5 DEF Bad
    <2>7. f[x] \in Nat
      BY <2>2, <2>5
    <2> QED BY <2>2, <2>5, <2>6, <2>7
  <1>2. CASE Bad = {}
    BY <1>2
  <1> QED BY <1>1, <1>2

\* Any element may be taken first.
LEMMA SumElement ==
    ASSUME NEW f, NEW S, IsFiniteSet(S), \A x \in S : f[x] \in Nat, NEW y \in S
    PROVE  SumFunctionOnSet(f, S) = f[y] + SumFunctionOnSet(f, S \ {y})
  <1> DEFINE sum(U) == SumFunctionOnSet(f, U)
             Bad == {U \in SUBSET S : \E z \in U : sum(U) # f[z] + sum(U \ {z})}
  <1>0. \A U \in SUBSET S : IsFiniteSet(U) /\ sum(U) \in Nat
    BY FS_Subset, SumInNat
  <1>1. CASE Bad # {}
    <2> HIDE DEF Bad
    <2>0. Bad \subseteq SUBSET S
      BY DEF Bad
    <2>1. PICK U \in Bad : \A V \in Bad : V \subseteq U => V = U
      BY <1>1, <2>0, MinimalSubset
    <2>2. PICK z \in U : U \in SUBSET S /\ sum(U) # f[z] + sum(U \ {z})
      BY <2>1 DEF Bad
    <2>3. PICK x \in U : sum(U) = f[x] + sum(U \ {x})
      BY <1>0, <2>2, SumChosen
    <2> HIDE DEF sum
    <2>4. x # z
      BY <2>2, <2>3
    <2>5. U \ {x} \in SUBSET S /\ U \ {x} \notin Bad /\ z \in U \ {x}
      BY <2>1, <2>2, <2>3, <2>4
    <2>6. sum(U \ {x}) = f[z] + sum((U \ {x}) \ {z})
      BY <2>5 DEF Bad
    <2>7. U \ {z} \in SUBSET S /\ U \ {z} \notin Bad /\ x \in U \ {z}
      BY <2>1, <2>2, <2>3, <2>4
    <2>8. sum(U \ {z}) = f[x] + sum((U \ {z}) \ {x})
      BY <2>7 DEF Bad
    <2>9. (U \ {x}) \ {z} = (U \ {z}) \ {x} /\ (U \ {x}) \ {z} \in SUBSET S
      BY <2>2
    <2>10. f[x] \in Nat /\ f[z] \in Nat /\ sum((U \ {x}) \ {z}) \in Nat
      BY <1>0, <2>2, <2>3, <2>9
    <2> DEFINE rest == sum((U \ {x}) \ {z})
    <2>11. sum(U) = f[x] + (f[z] + rest) /\ sum(U \ {z}) = f[x] + rest
      BY <2>3, <2>6, <2>8, <2>9
    <2>12. rest \in Nat
      BY <2>10
    <2> HIDE DEF rest
    <2> QED BY <2>2, <2>10, <2>11, <2>12
  <1>2. CASE Bad = {}
    BY <1>2
  <1> QED BY <1>1, <1>2

LEMMA SumAdd ==
    ASSUME NEW f, NEW S, IsFiniteSet(S), NEW y, y \notin S,
           \A x \in S \cup {y} : f[x] \in Nat
    PROVE  SumFunctionOnSet(f, S \cup {y}) = f[y] + SumFunctionOnSet(f, S)
  <1>1. IsFiniteSet(S \cup {y}) /\ (S \cup {y}) \ {y} = S /\ y \in S \cup {y}
    BY FS_AddElement
  <1>2. SumFunctionOnSet(f, S \cup {y})
            = f[y] + SumFunctionOnSet(f, (S \cup {y}) \ {y})
    BY <1>1, SumElement
  <1> QED BY <1>1, <1>2

\* Sums of functions that agree where they are summed.
LEMMA SumSame ==
    ASSUME NEW f, NEW g, NEW S, IsFiniteSet(S), \A x \in S : f[x] = g[x]
    PROVE  SumFunctionOnSet(f, S) = SumFunctionOnSet(g, S)
  <1>1. PICK h : Sums(f, h, S)
    BY SumsExist
  <1>2. Sums(g, h, S)
    <2>1. ASSUME NEW s \in SUBSET S
          PROVE  h[s] = IF s = {} THEN 0
                        ELSE LET x == CHOOSE x \in s : TRUE IN g[x] + h[s \ {x}]
      <3>1. CASE s = {}
        BY <1>1, <3>1 DEF Sums
      <3>2. CASE s # {}
        <4> DEFINE x == CHOOSE x \in s : TRUE
        <4>1. x \in S
          BY <3>2
        <4>2. h[s] = f[x] + h[s \ {x}]
          BY <1>1, <3>2 DEF Sums
        <4>3. f[x] = g[x]
          BY <4>1
        <4> QED BY <3>2, <4>2, <4>3
      <3> QED BY <3>1, <3>2
    <2>2. h = [s \in SUBSET S |-> h[s]]
      BY <1>1 DEF Sums
    <2> QED BY <2>1, <2>2 DEF Sums
  <1>3. S \in SUBSET S
    OBVIOUS
  <1>4. SumFunctionOnSet(f, S) = h[S] /\ SumFunctionOnSet(g, S) = h[S]
    BY <1>1, <1>2, <1>3, SumOver
  <1> QED BY <1>4

LEMMA SumUnion ==
    ASSUME NEW f, NEW S, IsFiniteSet(S), NEW T, IsFiniteSet(T), S \cap T = {},
           \A x \in S \cup T : f[x] \in Nat
    PROVE  SumFunctionOnSet(f, S \cup T)
              = SumFunctionOnSet(f, S) + SumFunctionOnSet(f, T)
  <1> DEFINE sum(U) == SumFunctionOnSet(f, U)
             Bad == {U \in SUBSET T : sum(S \cup U) # sum(S) + sum(U)}
  <1>0. \A U \in SUBSET T : IsFiniteSet(U) /\ sum(U) \in Nat
                           /\ IsFiniteSet(S \cup U) /\ sum(S \cup U) \in Nat
    <2>1. ASSUME NEW U \in SUBSET T
          PROVE  IsFiniteSet(U) /\ IsFiniteSet(S \cup U)
      BY FS_Subset, FS_Union
    <2>2. ASSUME NEW U \in SUBSET T PROVE sum(U) \in Nat /\ sum(S \cup U) \in Nat
      <3>1. IsFiniteSet(U) /\ IsFiniteSet(S \cup U)
        BY <2>1
      <3> QED BY <3>1, SumInNat
    <2> QED BY <2>1, <2>2
  <1>1. CASE Bad # {}
    <2> HIDE DEF Bad
    <2>0. Bad \subseteq SUBSET T
      BY DEF Bad
    <2>1. PICK U \in Bad : \A V \in Bad : V \subseteq U => V = U
      BY <1>1, <2>0, MinimalSubset
    <2>2. U \in SUBSET T /\ sum(S \cup U) # sum(S) + sum(U)
      BY <2>1 DEF Bad
    <2>3. sum(S) \in Nat /\ sum({}) = 0 /\ S \cup {} = S
      BY SumInNat, SumEmpty
    <2>4. U # {}
      BY <2>2, <2>3
    <2>5. PICK x \in U : sum(U) = f[x] + sum(U \ {x})
      BY <1>0, <2>2, <2>4, SumChosen
    <2>6. /\ x \notin S /\ x \in S \cup U /\ (S \cup U) \ {x} = S \cup (U \ {x})
          /\ \A z \in S \cup U : f[z] \in Nat
      BY <2>2, <2>5
    <2>7. sum(S \cup U) = f[x] + sum((S \cup U) \ {x})
      BY <1>0, <2>2, <2>6, SumElement
    <2>8. U \ {x} \in SUBSET T /\ U \ {x} \notin Bad
      BY <2>1, <2>2, <2>5
    <2> HIDE DEF sum
    <2>9. sum(S \cup (U \ {x})) = sum(S) + sum(U \ {x})
      BY <2>8 DEF Bad
    <2>10. f[x] \in Nat /\ sum(U \ {x}) \in Nat
      BY <1>0, <2>2, <2>5, <2>8
    <2> DEFINE rest == sum(U \ {x})
    <2>11. sum(S \cup U) = f[x] + (sum(S) + rest) /\ sum(U) = f[x] + rest
           /\ rest \in Nat
      BY <2>5, <2>6, <2>7, <2>9, <2>10
    <2> HIDE DEF rest
    <2> QED BY <2>2, <2>3, <2>10, <2>11
  <1>2. CASE Bad = {}
    BY <1>2
  <1> QED BY <1>1, <1>2

LEMMA SumSubset ==
    ASSUME NEW f, NEW S, IsFiniteSet(S), \A x \in S : f[x] \in Nat,
           NEW T \in SUBSET S
    PROVE  SumFunctionOnSet(f, T) <= SumFunctionOnSet(f, S)
  <1>1. /\ IsFiniteSet(T) /\ IsFiniteSet(S \ T) /\ T \cap (S \ T) = {}
        /\ T \cup (S \ T) = S
    BY FS_Subset
  <1>2. SumFunctionOnSet(f, S) = SumFunctionOnSet(f, T) + SumFunctionOnSet(f, S \ T)
    BY <1>1, SumUnion
  <1>3. SumFunctionOnSet(f, T) \in Nat /\ SumFunctionOnSet(f, S \ T) \in Nat
    BY <1>1, SumInNat
  <1> QED BY <1>2, <1>3

\* m sends the elements of S one by one to those of T, which g gives what f
\* gives their origins.
Moves(m, f, S, g, T) ==
    /\ \A x \in S : f[x] \in Nat /\ m[x] \in T /\ g[m[x]] = f[x]
    /\ \A x, y \in S : m[x] = m[y] => x = y
    /\ \A y \in T : \E x \in S : y = m[x]

LEMMA SumMoved ==
    ASSUME NEW m, NEW f, NEW S, NEW g, NEW T, IsFiniteSet(S), Moves(m, f, S, g, T)
    PROVE  IsFiniteSet(T) /\ SumFunctionOnSet(g, T) = SumFunctionOnSet(f, S)
  <1> USE DEF Moves
  <1> DEFINE image(U) == {m[x] : x \in U}
             Bad == {U \in SUBSET S :
                        ~(/\ IsFiniteSet(image(U))
                          /\ SumFunctionOnSet(g, image(U)) = SumFunctionOnSet(f, U))}
  <1>1. CASE Bad # {}
    <2> HIDE DEF Bad
    <2>0. Bad \subseteq SUBSET S
      BY DEF Bad
    <2>1. PICK U \in Bad : \A V \in Bad : V \subseteq U => V = U
      BY <1>1, <2>0, MinimalSubset
    <2>2. /\ U \in SUBSET S
          /\ ~(/\ IsFiniteSet(image(U))
               /\ SumFunctionOnSet(g, image(U)) = SumFunctionOnSet(f, U))
      BY <2>1 DEF Bad
    <2>3. U # {}
      <3>1. CASE U = {}
        <4>1. image(U) = {}
          BY <3>1
        <4> QED BY <2>2, <3>1, <4>1, SumEmpty, FS_EmptySet
      <3> QED BY <3>1
    <2>4. IsFiniteSet(U)
      BY <2>2, FS_Subset
    <2>5. PICK x \in U : SumFunctionOnSet(f, U) = f[x] + SumFunctionOnSet(f, U \ {x})
      BY <2>3, <2>4, SumChosen
    <2>6. U \ {x} \in SUBSET S /\ U \ {x} \notin Bad
      BY <2>1, <2>2, <2>5
    <2>7. /\ IsFiniteSet(image(U \ {x}))
          /\ SumFunctionOnSet(g, image(U \ {x})) = SumFunctionOnSet(f, U \ {x})
      BY <2>6 DEF Bad
    <2>8. image(U) = image(U \ {x}) \cup {m[x]} /\ m[x] \notin image(U \ {x})
      BY <2>2, <2>5
    <2>9. \A y \in image(U \ {x}) \cup {m[x]} : g[y] \in Nat
      BY <2>2, <2>5
    <2>10. g[m[x]] = f[x]
      BY <2>2, <2>5
    <2> DEFINE before == image(U \ {x})
    <2> HIDE DEF image
    <2>11. /\ IsFiniteSet(before) /\ image(U) = before \cup {m[x]} /\ m[x] \notin before
          /\ \A y \in before \cup {m[x]} : g[y] \in Nat
      BY <2>7, <2>8, <2>9
    <2>12. IsFiniteSet(image(U))
          /\ SumFunctionOnSet(g, image(U)) = g[m[x]] + SumFunctionOnSet(g, before)
      <3> HIDE DEF before
      <3>1. IsFiniteSet(before \cup {m[x]})
        BY <2>11, FS_AddElement
      <3>2. SumFunctionOnSet(g, before \cup {m[x]})
               = g[m[x]] + SumFunctionOnSet(g, before)
        BY <2>11, SumAdd
      <3> QED BY <2>11, <3>1, <3>2
    <2> QED BY <2>2, <2>5, <2>7, <2>10, <2>12
  <1>2. CASE Bad = {}
    <2>1. S \notin Bad /\ S \in SUBSET S
      BY <1>2
    <2>2. IsFiniteSet(image(S)) /\ SumFunctionOnSet(g, image(S)) = SumFunctionOnSet(f, S)
      BY <2>1
    <2>3. T = image(S)
      OBVIOUS
    <2> QED BY <2>2, <2>3
  <1> QED BY <1>1, <1>2

\* Zeros do not weigh.
LEMMA SumZeros ==
    ASSUME NEW f, NEW S, IsFiniteSet(S), \A x \in S : f[x] = 0
    PROVE  SumFunctionOnSet(f, S) = 0
  <1> DEFINE Bad == {U \in SUBSET S : SumFunctionOnSet(f, U) # 0}
  <1>1. SUFFICES ASSUME Bad # {} PROVE FALSE
    OBVIOUS
  <1>2. PICK U \in Bad : \A V \in Bad : V \subseteq U => V = U
    <2>1. Bad \subseteq SUBSET S
      OBVIOUS
    <2> HIDE DEF Bad
    <2> QED BY <1>1, <2>1, MinimalSubset
  <1>3. IsFiniteSet(U) /\ U # {}
    BY <1>2, FS_Subset, SumEmpty
  <1>4. PICK x \in U : SumFunctionOnSet(f, U) = f[x] + SumFunctionOnSet(f, U \ {x})
    BY <1>3, SumChosen
  <1>5. SumFunctionOnSet(f, U \ {x}) = 0
    BY <1>2
  <1> QED BY <1>2, <1>4, <1>5

=============================================================================
