-------------------------------- MODULE Sums --------------------------------
(***************************************************************************)
(* Sums over finite sets (SumFunctionOnSet of the community module         *)
(* Functions), and the induction over finite sets that they need, stated   *)
(* with a set in place of a predicate so that it can be cited.             *)
(***************************************************************************)
EXTENDS Functions, FiniteSetTheorems, WellFoundedInduction, TLAPS

(* If a set of subsets of S has each of which it has all smaller ones, it  *)
(* has them all.                                                           *)
LEMMA SubsetInduction ==
    ASSUME NEW S, IsFiniteSet(S), NEW Q,
           ASSUME NEW T \in SUBSET S, \A U \in SUBSET T : U # T => U \in Q
           PROVE  T \in Q
    PROVE  \A T \in SUBSET S : T \in Q
<1>. DEFINE R == StrictSubsetOrdering(S)
            B == (SUBSET S) \ Q
<1>1. IsWellFoundedOn(R, SUBSET S)
    BY FS_StrictSubsetOrderingWellFounded, FS_FiniteSubsetsOfFinite
<1>2. ASSUME B # {} PROVE FALSE
    <2>1. PICK T \in B : \A U \in B : <<U, T>> \notin R
        <3>. HIDE DEF R
        <3>1. B \subseteq SUBSET S
            OBVIOUS
        <3>. HIDE DEF B
        <3>. QED  BY <1>1, <1>2, <3>1, WFMin
    <2>2. T \in SUBSET S
        OBVIOUS
    <2>3. ASSUME NEW U \in SUBSET T, U # T PROVE U \in Q
        <3>1. <<U, T>> \in R
            BY <2>2, <2>3 DEF StrictSubsetOrdering
        <3>. QED  BY <2>1, <2>2, <3>1
    <2>. QED
        BY <2>2, <2>3
<1>. QED
    BY <1>2

(* The same for the natural numbers.                                       *)
LEMMA NumberInduction ==
    ASSUME NEW Q, 0 \in Q, \A m \in Nat : m \in Q => m + 1 \in Q
    PROVE  \A m \in Nat : m \in Q
<1>. DEFINE Less == {ss \in Nat \X Nat : ss[1] < ss[2]}
            B == Nat \ Q
<1>1. IsWellFoundedOn(Less, Nat)
    BY NatLessThanWellFounded DEF OpToRel
<1>2. ASSUME B # {} PROVE FALSE
    <2>1. PICK m \in B : \A k \in B : <<k, m>> \notin Less
        <3>1. B \subseteq Nat
            OBVIOUS
        <3>. HIDE DEF B, Less
        <3>. QED  BY <1>1, <1>2, <3>1, WFMin
    <2>2. m \in Nat /\ m # 0 /\ m - 1 \in Nat
        OBVIOUS
    <2>3. m - 1 \in Q
        <3>1. <<m - 1, m>> \in Less
            BY <2>2
        <3>. QED  BY <2>1, <2>2, <3>1
    <2>4. (m - 1) + 1 = m
        BY <2>2
    <2>. QED
        BY <2>2, <2>3, <2>4
<1>. QED
    BY <1>2

(***************************************************************************)
(* The recursion that SumFunctionOnSet is defined by has a solution, and   *)
(* only one.                                                               *)
(***************************************************************************)
Any(s) == CHOOSE x \in s : TRUE

LEMMA AnyIn == \A s : s # {} => Any(s) \in s
BY DEF Any

AddedUp(v, f, S) ==
    f = [s \in SUBSET S |-> IF s = {} THEN 0 ELSE v[Any(s)] + f[s \ {Any(s)}]]

LEMMA AddedUpMeans ==
    ASSUME NEW v, NEW f, NEW S, AddedUp(v, f, S), NEW s \in SUBSET S
    PROVE  f[s] = IF s = {} THEN 0 ELSE v[Any(s)] + f[s \ {Any(s)}]
BY Zenon DEF AddedUp

LEMMA AddedUpUnique ==
    ASSUME NEW v, NEW w, NEW S, NEW T, NEW f, NEW g,
           AddedUp(v, f, S), AddedUp(w, g, T),
           NEW U \in SUBSET S, U \in SUBSET T, IsFiniteSet(U),
           \A x \in U : v[x] = w[x]
    PROVE  f[U] = g[U]
<1>. DEFINE Q == {s \in SUBSET U : f[s] = g[s]}
<1>1. ASSUME NEW s \in SUBSET U, \A r \in SUBSET s : r # s => r \in Q
      PROVE  s \in Q
    <2>1. CASE s = {}
        <3>1. f[s] = 0 /\ g[s] = 0
            BY <2>1, AddedUpMeans
        <3>. QED  BY <3>1
    <2>2. CASE s # {}
        <3>1. Any(s) \in s
            BY <2>2, AnyIn
        <3>2. s \ {Any(s)} \in Q
            BY <1>1, <3>1
        <3>3. f[s] = v[Any(s)] + f[s \ {Any(s)}]
            BY <2>2, AddedUpMeans
        <3>4. g[s] = w[Any(s)] + g[s \ {Any(s)}]
            BY <2>2, AddedUpMeans
        <3>. QED  BY <3>1, <3>2, <3>3, <3>4
    <2>. QED  BY <2>1, <2>2
<1>2. U \in Q
    <2>. HIDE DEF Q
    <2>. QED  BY <1>1, SubsetInduction
<1>. QED
    BY <1>2

LEMMA AddedUpExists ==
    ASSUME NEW v, NEW S, IsFiniteSet(S)
    PROVE  \E f : AddedUp(v, f, S)
<1>. DEFINE Q == {s \in SUBSET S : \E f : AddedUp(v, f, s)}
            g(s) == CHOOSE f : AddedUp(v, f, s)
<1>1. ASSUME NEW T \in SUBSET S, \A r \in SUBSET T : r # T => r \in Q
      PROVE  T \in Q
    <2>. DEFINE h(s) == IF s = {} THEN 0
                        ELSE v[Any(s)] + g(s \ {Any(s)})[s \ {Any(s)}]
                f == [s \in SUBSET T |-> h(s)]
    <2>1. \A r \in SUBSET T : r # T => AddedUp(v, g(r), r)
        BY <1>1
    <2>2. ASSUME NEW r \in SUBSET T, r # T PROVE h(r) = g(r)[r]
        <3>1. CASE r = {}
            <4>1. g(r)[r] = 0
                <5>. HIDE DEF g
                <5>. QED  BY <2>1, <2>2, <3>1, AddedUpMeans
            <4>. QED  BY <3>1, <4>1
        <3>2. CASE r # {}
            <4>. DEFINE q == r \ {Any(r)}
            <4>1. Any(r) \in r
                BY <3>2, AnyIn
            <4>2. q \in SUBSET T /\ q # T /\ q \in SUBSET r /\ r \in SUBSET r
                  /\ q \in SUBSET q /\ IsFiniteSet(q)
                BY <2>2, <4>1, FS_Subset
            <4>. HIDE DEF g
            <4>3. g(r)[r] = v[Any(r)] + g(r)[q]
                BY <2>1, <2>2, <3>2, <4>2, AddedUpMeans
            <4>4. g(r)[q] = g(q)[q]
                <5>1. AddedUp(v, g(r), r) /\ AddedUp(v, g(q), q)
                    BY <2>1, <2>2, <4>2
                <5>. HIDE DEF q
                <5>. QED  BY <4>2, <5>1, AddedUpUnique
            <4>. QED  BY <3>2, <4>3, <4>4
        <3>. QED  BY <3>1, <3>2
    <2>3. AddedUp(v, f, T)
        <3>1. ASSUME NEW s \in SUBSET T
              PROVE  h(s) = IF s = {} THEN 0 ELSE v[Any(s)] + f[s \ {Any(s)}]
            <4>1. CASE s = {}
                BY <4>1
            <4>2. CASE s # {}
                <5>. DEFINE q == s \ {Any(s)}
                <5>1. q \in SUBSET T /\ q # T
                    BY <3>1, <4>2, AnyIn
                <5>2. f[q] = g(q)[q]
                    <6>1. f[q] = h(q) /\ h(q) = g(q)[q]
                        <7>. HIDE DEF h, q
                        <7>. QED  BY <2>2, <5>1
                    <6>. QED  BY <6>1
                <5>3. h(s) = v[Any(s)] + g(q)[q]
                    BY <4>2
                <5>. HIDE DEF g, h, f, q
                <5>. QED  BY <4>2, <5>2, <5>3 DEF q
            <4>. QED  BY <4>1, <4>2
        <3>. HIDE DEF h
        <3>. QED  BY <3>1 DEF AddedUp
    <2>. QED
        <3>. HIDE DEF f
        <3>. QED  BY <2>3
<1>2. S \in Q
    <2>. HIDE DEF Q
    <2>. QED  BY <1>1, SubsetInduction
<1>. QED
    BY <1>2

LEMMA SumChosen ==
    ASSUME NEW v, NEW S, IsFiniteSet(S)
    PROVE  \E g : AddedUp(v, g, S) /\ SumFunctionOnSet(v, S) = g[S]
<1>. DEFINE h == CHOOSE g : AddedUp(v, g, S)
<1>1. AddedUp(v, h, S)
    BY Zenon, AddedUpExists
<1>2. SumFunctionOnSet(v, S) = h[S]
    BY DEF SumFunctionOnSet, FoldFunctionOnSet, MapThenFoldSet, AddedUp, Any
<1>. HIDE DEF h
<1>. QED
    BY <1>1, <1>2

(***************************************************************************)
(* Sums.                                                                   *)
(***************************************************************************)
LEMMA SumEmpty ==
    ASSUME NEW v
    PROVE  SumFunctionOnSet(v, {}) = 0
<1>1. PICK g : AddedUp(v, g, {}) /\ SumFunctionOnSet(v, {}) = g[{}]
    BY SumChosen, FS_EmptySet
<1>. QED
    BY <1>1, AddedUpMeans

\* The sum depends on the values in S only.
LEMMA SumSame ==
    ASSUME NEW S, IsFiniteSet(S), NEW v, NEW w, \A x \in S : v[x] = w[x]
    PROVE  SumFunctionOnSet(v, S) = SumFunctionOnSet(w, S)
<1>1. PICK f : AddedUp(v, f, S) /\ SumFunctionOnSet(v, S) = f[S]
    BY SumChosen
<1>2. PICK g : AddedUp(w, g, S) /\ SumFunctionOnSet(w, S) = g[S]
    BY SumChosen
<1>3. f[S] = g[S]
    BY <1>1, <1>2, AddedUpUnique
<1>. QED
    BY <1>1, <1>2, <1>3

LEMMA SumStep ==
    ASSUME NEW v, NEW S, IsFiniteSet(S), S # {}
    PROVE  SumFunctionOnSet(v, S) = v[Any(S)] + SumFunctionOnSet(v, S \ {Any(S)})
<1>. DEFINE U == S \ {Any(S)}
<1>1. U \in SUBSET S /\ IsFiniteSet(U) /\ U \in SUBSET U
    BY FS_Subset
<1>2. PICK f : AddedUp(v, f, S) /\ SumFunctionOnSet(v, S) = f[S]
    BY SumChosen
<1>3. PICK g : AddedUp(v, g, U) /\ SumFunctionOnSet(v, U) = g[U]
    BY <1>1, SumChosen
<1>4. f[U] = g[U]
    <2>. HIDE DEF U
    <2>. QED  BY <1>1, <1>2, <1>3, AddedUpUnique
<1>5. f[S] = v[Any(S)] + f[U]
    BY <1>2, AddedUpMeans
<1>. HIDE DEF U
<1>. QED
    BY <1>2, <1>3, <1>4, <1>5 DEF U

LEMMA SumIsInt ==
    ASSUME NEW S, IsFiniteSet(S), NEW v, \A x \in S : v[x] \in Int
    PROVE  SumFunctionOnSet(v, S) \in Int
<1>. DEFINE Q == {s \in SUBSET S : SumFunctionOnSet(v, s) \in Int}
<1>1. ASSUME NEW s \in SUBSET S, \A r \in SUBSET s : r # s => r \in Q
      PROVE  s \in Q
    <2>1. CASE s = {}
        BY <2>1, SumEmpty
    <2>2. CASE s # {}
        <3>1. Any(s) \in s /\ IsFiniteSet(s)
            BY <2>2, AnyIn, FS_Subset
        <3>2. SumFunctionOnSet(v, s \ {Any(s)}) \in Int
            BY <1>1, <3>1
        <3>. QED  BY <2>2, <3>1, <3>2, SumStep
    <2>. QED  BY <2>1, <2>2
<1>2. S \in Q
    <2>. HIDE DEF Q
    <2>. QED  BY <1>1, SubsetInduction
<1>. QED
    BY <1>2

\* Whichever element is taken first.
LEMMA SumPick ==
    ASSUME NEW S, IsFiniteSet(S), NEW v, \A x \in S : v[x] \in Int
    PROVE  \A x \in S : SumFunctionOnSet(v, S) = v[x] + SumFunctionOnSet(v, S \ {x})
<1>. DEFINE Q == {s \in SUBSET S : \A x \in s :
                    SumFunctionOnSet(v, s) = v[x] + SumFunctionOnSet(v, s \ {x})}
<1>1. ASSUME NEW s \in SUBSET S, \A r \in SUBSET s : r # s => r \in Q
      PROVE  s \in Q
    <2>1. ASSUME NEW x \in s
          PROVE  SumFunctionOnSet(v, s) = v[x] + SumFunctionOnSet(v, s \ {x})
        <3>. DEFINE a == Any(s)
                    r == s \ {a}
                    q == s \ {x}
        <3>1. a \in s /\ IsFiniteSet(s) /\ IsFiniteSet(r) /\ IsFiniteSet(q)
            BY <2>1, AnyIn, FS_Subset
        <3>2. SumFunctionOnSet(v, s) = v[a] + SumFunctionOnSet(v, r)
            BY <2>1, <3>1, SumStep
        <3>3. CASE a = x
            BY <3>2, <3>3
        <3>4. CASE a # x
            <4>1. r \in Q /\ q \in Q /\ x \in r /\ a \in q /\ r \ {x} = q \ {a}
                BY <1>1, <2>1, <3>1, <3>4
            <4>2. /\ SumFunctionOnSet(v, r) = v[x] + SumFunctionOnSet(v, r \ {x})
                  /\ SumFunctionOnSet(v, q) = v[a] + SumFunctionOnSet(v, q \ {a})
                <5>. HIDE DEF r, q, a
                <5>. QED  BY <4>1
            <4>3. SumFunctionOnSet(v, r \ {x}) \in Int
                <5>1. IsFiniteSet(r \ {x}) /\ \A y \in r \ {x} : v[y] \in Int
                    BY <3>1, FS_Subset
                <5>. QED  BY <5>1, SumIsInt
            <4>4. v[a] \in Int /\ v[x] \in Int
                BY <2>1, <3>1
            <4>5. SumFunctionOnSet(v, r \ {x}) = SumFunctionOnSet(v, q \ {a})
                BY <4>1
            <4>. HIDE DEF r, q, a
            <4>. QED  BY <3>2, <4>2, <4>3, <4>4, <4>5 DEF q
        <3>. QED  BY <3>3, <3>4
    <2>. QED  BY <2>1
<1>2. S \in Q
    <2>. HIDE DEF Q
    <2>. QED  BY <1>1, SubsetInduction
<1>. QED
    BY <1>2

\* One value changed.
LEMMA SumChanged ==
    ASSUME NEW S, IsFiniteSet(S), NEW v, NEW w, NEW x \in S,
           \A y \in S : v[y] \in Int /\ w[y] \in Int,
           \A y \in S \ {x} : v[y] = w[y]
    PROVE  SumFunctionOnSet(w, S) = SumFunctionOnSet(v, S) - v[x] + w[x]
<1>1. IsFiniteSet(S \ {x})
    BY FS_Subset
<1>2. SumFunctionOnSet(v, S \ {x}) = SumFunctionOnSet(w, S \ {x})
    BY <1>1, SumSame
<1>3. SumFunctionOnSet(v, S \ {x}) \in Int
    BY <1>1, SumIsInt
<1>4. /\ SumFunctionOnSet(v, S) = v[x] + SumFunctionOnSet(v, S \ {x})
      /\ SumFunctionOnSet(w, S) = w[x] + SumFunctionOnSet(w, S \ {x})
    BY SumPick
<1>5. v[x] \in Int /\ w[x] \in Int
    OBVIOUS
<1>. QED
    BY <1>2, <1>3, <1>4, <1>5
\* Nothing but zeros.
LEMMA SumZero ==
    ASSUME NEW S, IsFiniteSet(S), NEW v, \A x \in S : v[x] = 0
    PROVE  SumFunctionOnSet(v, S) = 0
<1>. DEFINE Q == {s \in SUBSET S : SumFunctionOnSet(v, s) = 0}
<1>1. ASSUME NEW s \in SUBSET S, \A r \in SUBSET s : r # s => r \in Q
      PROVE  s \in Q
    <2>1. CASE s = {}
        BY <2>1, SumEmpty
    <2>2. CASE s # {}
        <3>1. Any(s) \in s /\ IsFiniteSet(s)
            BY <2>2, AnyIn, FS_Subset
        <3>2. SumFunctionOnSet(v, s \ {Any(s)}) = 0
            BY <1>1, <3>1
        <3>. QED  BY <2>2, <3>1, <3>2, SumStep
    <2>. QED  BY <2>1, <2>2
<1>2. S \in Q
    <2>. HIDE DEF Q
    <2>. QED  BY <1>1, SubsetInduction
<1>. QED
    BY <1>2
(* The sum over the numbers up to m + 1 is that up to m and one value more. *)
LEMMA SumAppend ==
    ASSUME NEW v, NEW m \in Nat, \A x \in 0..(m + 1) : v[x] \in Int
    PROVE  SumFunctionOnSet(v, 0..(m + 1)) = SumFunctionOnSet(v, 0..m) + v[m + 1]
<1>. DEFINE long == 0..(m + 1)
            short == 0..m
<1>1. long \ {m + 1} = short /\ m + 1 \in long
    OBVIOUS
<1>2. IsFiniteSet(long) /\ IsFiniteSet(short) /\ short \subseteq long
    BY FS_Interval
<1>. HIDE DEF long, short
<1>3. SumFunctionOnSet(v, long) = v[m + 1] + SumFunctionOnSet(v, long \ {m + 1})
    BY <1>1, <1>2, SumPick DEF long
<1>4. SumFunctionOnSet(v, long) = v[m + 1] + SumFunctionOnSet(v, short)
    BY Zenon, <1>1, <1>3
<1>5. SumFunctionOnSet(v, short) \in Int /\ v[m + 1] \in Int
    BY <1>1, <1>2, SumIsInt DEF long
<1>. QED
    BY <1>4, <1>5 DEF long, short

\* Nothing below zero.
LEMMA SumNotNegative ==
    ASSUME NEW S, IsFiniteSet(S), NEW v, \A x \in S : v[x] \in Nat
    PROVE  SumFunctionOnSet(v, S) \in Nat
<1>. DEFINE Q == {s \in SUBSET S : SumFunctionOnSet(v, s) \in Nat}
<1>1. ASSUME NEW s \in SUBSET S, \A r \in SUBSET s : r # s => r \in Q
      PROVE  s \in Q
    <2>1. CASE s = {}
        BY <2>1, SumEmpty
    <2>2. CASE s # {}
        <3>1. Any(s) \in s /\ IsFiniteSet(s)
            BY <2>2, AnyIn, FS_Subset
        <3>2. SumFunctionOnSet(v, s \ {Any(s)}) \in Nat /\ v[Any(s)] \in Nat
            BY <1>1, <3>1
        <3>. QED  BY <2>2, <3>1, <3>2, SumStep
    <2>. QED  BY <2>1, <2>2
<1>2. S \in Q
    <2>. HIDE DEF Q
    <2>. QED  BY <1>1, SubsetInduction
<1>. QED
    BY <1>2
=============================================================================
