----------------------------- MODULE Arithmetic -----------------------------
(***************************************************************************)
(* Facts about the integer arithmetic of the contracts, for any values:     *)
(* products and divisions that round down, as Solidity's do, and sums of    *)
(* balances over finite sets of accounts.                                   *)
(***************************************************************************)
EXTENDS ERC20, FiniteSetsExt, FiniteSetTheorems, TLAPS

(* What a division that rounds down returns: the quotient times the divisor *)
(* does not exceed the dividend, and misses it by less than the divisor.    *)
LEMMA DivBounds ==
  ASSUME NEW n \in Nat, NEW b \in Nat, b # 0
  PROVE  /\ n \div b \in Nat
         /\ (n \div b) * b <= n
         /\ n < (n \div b) * b + b
  BY Z3

(* A share of a out of b of an amount h, rounded down (previewRedeem and    *)
(* the vesting curves): it never exceeds h, it is all of h only when a is b *)
(* or h is zero, and what is left per unit of b does not fall.              *)
LEMMA ShareBounds ==
  ASSUME NEW a \in Nat, NEW h \in Nat, NEW b \in Nat, b # 0, a <= b
  PROVE  /\ (a * h) \div b \in Nat
         /\ (a * h) \div b <= h
         /\ (h - (a * h) \div b) * b >= h * (b - a)
         /\ a < b /\ h > 0 => (a * h) \div b < h
         /\ a = b => (a * h) \div b = h
  <1> DEFINE q == (a * h) \div b
  <1>1. a * h \in Nat
    OBVIOUS
  <1>2. q \in Nat /\ q * b <= a * h /\ a * h < q * b + b
    BY <1>1, DivBounds
  <1>3. a * h <= b * h
    BY Z3
  <1>4. q <= h
    BY <1>2, <1>3, Z3
  <1>5. (h - q) * b >= h * (b - a)
    BY <1>2, Z3
  <1>6. ASSUME a < b, h > 0 PROVE q < h
    BY <1>2, <1>6, Z3
  <1>7. ASSUME a = b PROVE q = h
    BY <1>2, <1>7, Z3
  <1> QED
    BY <1>2, <1>4, <1>5, <1>6, <1>7

(* A division that rounds down is monotone in the dividend.                 *)
LEMMA DivMonotone ==
  ASSUME NEW m \in Nat, NEW n \in Nat, NEW b \in Nat, b # 0, m <= n
  PROVE  m \div b <= n \div b
  BY Z3

(* A product is monotone in both factors.                                   *)
LEMMA FactorsMonotone ==
  ASSUME NEW h \in Nat, NEW k \in Nat, NEW b \in Nat, NEW c \in Nat,
         h <= k, b <= c
  PROVE  h * b \in Nat /\ k * c \in Nat /\ h * b <= k * c
  <1>1. h * b <= k * b
    BY Z3
  <1>2. k * b <= k * c
    BY Z3
  <1> QED
    BY <1>1, <1>2

(* A fraction h/b does not fall when its numerator grows.                   *)
LEMMA ProductMonotone ==
  ASSUME NEW h \in Nat, NEW k \in Nat, NEW b \in Nat, h <= k
  PROVE  k * b >= h * b
  BY Z3

-----------------------------------------------------------------------------
(***************************************************************************)
(* Sums over finite sets.  The sums of the models are MapThenSumSet of the  *)
(* community modules, a recursive function on the subsets of the set that   *)
(* takes out an element that CHOOSE picks.  The lemmas below show that the  *)
(* function exists and that the order does not matter, from the             *)
(* well-foundedness of the subsets of a finite set: the smallest counter-   *)
(* example of a claim is ruled out.                                         *)
(***************************************************************************)
SumOf(f, S) == MapThenSumSet(LAMBDA x : f[x], S)

Chosen(s) == CHOOSE x \in s : TRUE

(* The equation of the recursive function: g sums f over the subsets of S.  *)
Step(g, f, s)     == IF s = {} THEN 0 ELSE f[Chosen(s)] + g[s \ {Chosen(s)}]
SumsOver(g, f, S) == \A s \in SUBSET S : g[s] = Step(g, f, s)

LEMMA ChosenIn == ASSUME NEW s, s # {} PROVE Chosen(s) \in s
  BY DEF Chosen

(* Induction over the subsets of a finite set, for a set G of subsets.      *)
LEMMA SubsetInduction ==
  ASSUME NEW S, IsFiniteSet(S), NEW G,
         ASSUME NEW s \in SUBSET S, \A x \in s : s \ {x} \in G PROVE s \in G
  PROVE  SUBSET S \subseteq G
  <1> DEFINE R == StrictSubsetOrdering(S)
             B == (SUBSET S) \ G
  <1>1. IsWellFoundedOn(R, SUBSET S)
    BY FS_StrictSubsetOrderingWellFounded, FS_FiniteSubsetsOfFinite
  <1>2. SUFFICES ASSUME B # {} PROVE FALSE
    OBVIOUS
  <1>3. PICK s \in B : \A t \in B : ~ (<<t, s>> \in R)
    <2>1. B \subseteq SUBSET S
      OBVIOUS
    <2> HIDE DEF R, B
    <2> QED
      BY <1>1, <1>2, <2>1, WFMin
  <1>4. ASSUME NEW x \in s PROVE s \ {x} \notin B
    <2>1. /\ s \ {x} \in SUBSET S /\ s \in SUBSET S
          /\ s \ {x} \subseteq s /\ s \ {x} # s
      OBVIOUS
    <2>2. <<s \ {x}, s>> \in R
      BY <2>1, Zenon DEF StrictSubsetOrdering
    <2> QED
      BY <1>3, <2>2
  <1> QED
    BY <1>3, <1>4

(* Induction over the naturals, for a set G of naturals.                    *)
LEMMA NatSetInduction ==
  ASSUME NEW G, 0 \in G, ASSUME NEW n \in Nat, n \in G PROVE n + 1 \in G
  PROVE  Nat \subseteq G
  <1> DEFINE R == {p \in Nat \X Nat : p[1] < p[2]}
             B == Nat \ G
  <1>1. SUFFICES ASSUME B # {} PROVE FALSE
    OBVIOUS
  <1>2. PICK n \in B : \A m \in B : ~ (<<m, n>> \in R)
    <2>1. IsWellFoundedOn(R, Nat)
      BY NatLessThanWellFounded DEF OpToRel
    <2>2. B \subseteq Nat
      OBVIOUS
    <2> HIDE DEF R, B
    <2> QED
      BY <1>1, <2>1, <2>2, WFMin
  <1>3. n # 0 /\ n \in Nat /\ n - 1 \in Nat
    BY <1>2
  <1>4. <<n - 1, n>> \in R
    BY <1>3
  <1>5. n - 1 \in G
    BY <1>2, <1>3, <1>4
  <1>6. (n - 1) + 1 \in G
    BY <1>3, <1>5
  <1> QED
    BY <1>2, <1>6

(* The recursive function exists: it is built up by the number of elements. *)
LEMMA SumsExist ==
  ASSUME NEW S, IsFiniteSet(S), NEW f
  PROVE  \E g : g = [s \in SUBSET S |-> Step(g, f, s)]
  <1> DEFINE UpTo(g, n) ==
        \A s \in SUBSET S : Cardinality(s) <= n => g[s] = Step(g, f, s)
      G == {n \in Nat : \E g : UpTo(g, n)}
  <1>1. ASSUME NEW s \in SUBSET S
        PROVE  /\ Cardinality(s) \in Nat
               /\ Cardinality(s) <= Cardinality(S)
               /\ Cardinality(s) = 0 <=> s = {}
               /\ s # {} => /\ s \ {Chosen(s)} \in SUBSET S
                           /\ Cardinality(s \ {Chosen(s)}) = Cardinality(s) - 1
    BY FS_Subset, FS_CardinalityType, FS_EmptySet, FS_RemoveElement, ChosenIn
  <1>2. 0 \in G
    <2> DEFINE g == [s \in SUBSET S |-> 0]
    <2>1. ASSUME NEW s \in SUBSET S, Cardinality(s) <= 0
          PROVE  g[s] = Step(g, f, s)
      <3>1. Cardinality(s) \in Nat /\ (Cardinality(s) = 0 <=> s = {})
        BY <1>1
      <3>2. s = {}
        BY <2>1, <3>1
      <3> QED
        BY <3>2 DEF Step
    <2> QED
      BY <2>1
  <1>3. ASSUME NEW n \in Nat, n \in G PROVE n + 1 \in G
    <2>1. PICK g : UpTo(g, n)
      BY <1>3
    <2> DEFINE h == [s \in SUBSET S |->
                       IF Cardinality(s) <= n THEN g[s] ELSE Step(g, f, s)]
    <2>2. ASSUME NEW s \in SUBSET S, Cardinality(s) <= n + 1
          PROVE  h[s] = Step(h, f, s)
      <3>1. h[s] = Step(g, f, s)
        BY <2>1
      <3>2. CASE s = {}
        BY <3>1, <3>2 DEF Step
      <3>3. CASE s # {}
        <4>1. /\ s \ {Chosen(s)} \in SUBSET S
              /\ Cardinality(s \ {Chosen(s)}) = Cardinality(s) - 1
              /\ Cardinality(s) \in Nat
          BY <1>1, <3>3
        <4>2. Cardinality(s \ {Chosen(s)}) <= n
          BY <2>2, <4>1
        <4>3. h[s \ {Chosen(s)}] = g[s \ {Chosen(s)}]
          BY <4>1, <4>2
        <4> QED
          BY <3>1, <3>3, <4>3 DEF Step
      <3> QED
        BY <3>2, <3>3
    <2> HIDE DEF h
    <2> QED
      BY <2>2
  <1>4. Cardinality(S) \in G
    <2>1. Cardinality(S) \in Nat
      BY FS_CardinalityType
    <2> HIDE DEF G
    <2>2. Nat \subseteq G
      BY <1>2, <1>3, NatSetInduction
    <2> QED
      BY <2>1, <2>2
  <1>5. PICK g : \A s \in SUBSET S : g[s] = Step(g, f, s)
    BY <1>1, <1>4
  <1> DEFINE h == [s \in SUBSET S |-> g[s]]
  <1>6. ASSUME NEW s \in SUBSET S PROVE Step(g, f, s) = Step(h, f, s)
    <2>1. h[s \ {Chosen(s)}] = g[s \ {Chosen(s)}]
      OBVIOUS
    <2> HIDE DEF h
    <2> QED
      BY <2>1 DEF Step
  <1>7. h = [s \in SUBSET S |-> Step(h, f, s)]
    <2>1. ASSUME NEW s \in SUBSET S PROVE g[s] = Step(h, f, s)
      BY <1>5, <1>6
    <2> QED
      BY <2>1
  <1> QED
    BY <1>7

(* Two such functions agree on the subsets on which what they sum agrees.   *)
LEMMA SumsAgree ==
  ASSUME NEW S, IsFiniteSet(S), NEW f, NEW e, NEW g, NEW h,
         SumsOver(g, f, S), SumsOver(h, e, S), \A x \in S : f[x] = e[x]
  PROVE  g[S] = h[S]
  <1> DEFINE G == {s \in SUBSET S : g[s] = h[s]}
  <1>1. ASSUME NEW s \in SUBSET S, \A x \in s : s \ {x} \in G
        PROVE  s \in G
    <2>1. g[s] = Step(g, f, s) /\ h[s] = Step(h, e, s)
      BY DEF SumsOver
    <2>2. CASE s = {}
      BY <2>1, <2>2 DEF Step
    <2>3. CASE s # {}
      <3>1. Chosen(s) \in s
        BY <2>3, ChosenIn
      <3>2. g[s \ {Chosen(s)}] = h[s \ {Chosen(s)}] /\ f[Chosen(s)] = e[Chosen(s)]
        BY <1>1, <3>1
      <3> QED
        BY <2>1, <2>3, <3>2 DEF Step
    <2> QED
      BY <2>2, <2>3
  <1> HIDE DEF G
  <1>2. SUBSET S \subseteq G
    BY <1>1, SubsetInduction
  <1> QED
    BY <1>2 DEF G

(* A sum is the value of any function that satisfies the equation.          *)
LEMMA SumIs ==
  ASSUME NEW S, IsFiniteSet(S), NEW f
  PROVE  /\ \E g : SumsOver(g, f, S) /\ SumOf(f, S) = g[S]
         /\ \A g : SumsOver(g, f, S) => SumOf(f, S) = g[S]
  <1> DEFINE Is(g) == g = [s \in SUBSET S |-> Step(g, f, s)]
             it == CHOOSE g : Is(g)
  <1>1. SumOf(f, S) = it[S]
    BY DEF SumOf, MapThenSumSet, MapThenFoldSet, Step, Chosen
  <1>2. Is(it)
    <2>1. \E g : Is(g)
      BY SumsExist
    <2> HIDE DEF Is
    <2> QED
      BY <2>1
  <1>3. SumsOver(it, f, S)
    <2> HIDE DEF it
    <2> QED
      BY <1>2 DEF SumsOver
  <1> HIDE DEF it
  <1> QED
    BY <1>1, <1>3, SumsAgree

LEMMA SumEmpty == ASSUME NEW f PROVE SumOf(f, {}) = 0
  <1>1. PICK g : SumsOver(g, f, {}) /\ SumOf(f, {}) = g[{}]
    BY SumIs, FS_EmptySet
  <1> QED
    BY <1>1 DEF SumsOver, Step

(* One of these functions is defined on the subsets of the set alone.       *)
LEMMA SumsFunction ==
  ASSUME NEW S, IsFiniteSet(S), NEW f
  PROVE  \E h : SumsOver(h, f, S) /\ h = [s \in SUBSET S |-> h[s]]
  <1>1. PICK g : SumsOver(g, f, S)
    BY SumIs
  <1> DEFINE h == [s \in SUBSET S |-> g[s]]
  <1>2. ASSUME NEW s \in SUBSET S PROVE h[s] = Step(h, f, s)
    <2>1. h[s] = Step(g, f, s)
      BY <1>1 DEF SumsOver
    <2>2. h[s \ {Chosen(s)}] = g[s \ {Chosen(s)}]
      OBVIOUS
    <2> HIDE DEF h
    <2> QED
      BY <2>1, <2>2 DEF Step
  <1>3. h = [s \in SUBSET S |-> h[s]]
    OBVIOUS
  <1> HIDE DEF h
  <1> QED
    BY <1>2, <1>3 DEF SumsOver

(* Only the values on the set count.                                        *)
LEMMA SumSame ==
  ASSUME NEW S, IsFiniteSet(S), NEW f, NEW e, \A x \in S : f[x] = e[x]
  PROVE  SumOf(f, S) = SumOf(e, S)
  <1>1. PICK g : SumsOver(g, f, S) /\ SumOf(f, S) = g[S]
    BY SumIs
  <1>2. PICK h : SumsOver(h, e, S) /\ SumOf(e, S) = h[S]
    BY SumIs
  <1> QED
    BY <1>1, <1>2, SumsAgree

(* A sum is an integer, and any of its terms may be taken out first.        *)
LEMMA SumTake ==
  ASSUME NEW S, IsFiniteSet(S), NEW f, \A x \in S : f[x] \in Int
  PROVE  /\ SumOf(f, S) \in Int
         /\ \A x \in S : SumOf(f, S) = f[x] + SumOf(f, S \ {x})
  <1>1. PICK g : SumsOver(g, f, S) /\ SumOf(f, S) = g[S]
    BY SumIs
  <1> DEFINE I == {s \in SUBSET S : g[s] \in Int}
             G == {s \in SUBSET S : \A x \in s : g[s] = f[x] + g[s \ {x}]}
  <1>2. ASSUME NEW s \in SUBSET S, s # {}
        PROVE  Chosen(s) \in s /\ g[s] = f[Chosen(s)] + g[s \ {Chosen(s)}]
    BY <1>1, <1>2, ChosenIn DEF SumsOver, Step
  <1>3. ASSUME NEW s \in SUBSET S, \A x \in s : s \ {x} \in I
        PROVE  s \in I
    <2>1. CASE s = {}
      <3>1. g[s] = 0
        BY <1>1, <2>1 DEF SumsOver, Step
      <3> QED
        BY <3>1
    <2>2. CASE s # {}
      <3>1. g[s \ {Chosen(s)}] \in Int /\ f[Chosen(s)] \in Int
        BY <1>2, <1>3, <2>2
      <3>2. f[Chosen(s)] + g[s \ {Chosen(s)}] \in Int
        BY <3>1
      <3> QED
        BY <1>2, <2>2, <3>2
    <2> QED
      BY <2>1, <2>2
  <1>4. SUBSET S \subseteq I
    <2> HIDE DEF I
    <2> QED
      BY <1>3, SubsetInduction
  <1>5. ASSUME NEW s \in SUBSET S, \A x \in s : s \ {x} \in G
        PROVE  s \in G
    <2> SUFFICES ASSUME NEW x \in s
                 PROVE  g[s] = f[x] + g[s \ {x}]
      OBVIOUS
    <2> DEFINE c == Chosen(s)
    <2>1. c \in s /\ g[s] = f[c] + g[s \ {c}]
      BY <1>2
    <2> HIDE DEF c
    <2>2. CASE x = c
      BY <2>1, <2>2
    <2>3. CASE x # c
      <3>1. g[s \ {c}] = f[x] + g[(s \ {c}) \ {x}]
        BY <1>5, <2>1, <2>3
      <3>2. g[s \ {x}] = f[c] + g[(s \ {x}) \ {c}]
        BY <1>5, <2>1, <2>3
      <3>3. (s \ {x}) \ {c} = (s \ {c}) \ {x}
        OBVIOUS
      <3>4. g[(s \ {c}) \ {x}] \in Int /\ f[x] \in Int /\ f[c] \in Int
        BY <1>4, <2>1
      <3>5. \A p, q, r \in Int : p + (q + r) = q + (p + r)
        OBVIOUS
      <3>6. g[s] = f[c] + (f[x] + g[(s \ {c}) \ {x}])
        BY <2>1, <3>1
      <3>7. g[s \ {x}] = f[c] + g[(s \ {c}) \ {x}]
        BY <3>2, <3>3
      <3> QED
        BY <3>4, <3>5, <3>6, <3>7
    <2> QED
      BY <2>2, <2>3
  <1>6. SUBSET S \subseteq G
    <2> HIDE DEF G
    <2> QED
      BY <1>5, SubsetInduction
  <1>7. ASSUME NEW x \in S PROVE SumOf(f, S) = f[x] + SumOf(f, S \ {x})
    <2>1. SumsOver(g, f, S \ {x})
      BY <1>1 DEF SumsOver
    <2>2. SumOf(f, S \ {x}) = g[S \ {x}]
      BY <2>1, SumIs, FS_RemoveElement
    <2> QED
      BY <1>1, <1>6, <2>2
  <1> QED
    BY <1>1, <1>4, <1>7

LEMMA SumZero ==
  ASSUME NEW S, IsFiniteSet(S), NEW f, \A x \in S : f[x] = 0
  PROVE  SumOf(f, S) = 0
  <1> DEFINE G == {s \in SUBSET S : SumOf(f, s) = 0}
  <1>1. ASSUME NEW s \in SUBSET S, \A x \in s : s \ {x} \in G
        PROVE  s \in G
    <2>1. CASE s = {}
      BY <2>1, SumEmpty
    <2>2. CASE s # {}
      <3>1. PICK x : x \in s
        BY <2>2
      <3>2. \A y \in s : f[y] \in Int
        OBVIOUS
      <3>3. SumOf(f, s) = f[x] + SumOf(f, s \ {x})
        BY <3>1, <3>2, FS_Subset, SumTake
      <3>4. f[x] = 0 /\ SumOf(f, s \ {x}) = 0
        BY <1>1, <3>1
      <3>5. SumOf(f, s) = 0
        BY <3>3, <3>4
      <3> QED
        BY <3>5
    <2> QED
      BY <2>1, <2>2
  <1> HIDE DEF G
  <1>2. SUBSET S \subseteq G
    BY <1>1, SubsetInduction
  <1> QED
    BY <1>2 DEF G

(* A sum with one term replaced.                                            *)
LEMMA SumUpdate ==
  ASSUME NEW S, IsFiniteSet(S), NEW f, NEW e, NEW x \in S,
         \A y \in S : f[y] \in Int, e[x] \in Int,
         \A y \in S \ {x} : e[y] = f[y]
  PROVE  /\ SumOf(f, S) \in Int
         /\ SumOf(e, S) \in Int
         /\ SumOf(e, S) = SumOf(f, S) - f[x] + e[x]
  <1>1. IsFiniteSet(S \ {x})
    BY FS_RemoveElement
  <1>2. SumOf(e, S \ {x}) = SumOf(f, S \ {x})
    BY <1>1, SumSame
  <1>3. SumOf(f, S \ {x}) \in Int
    BY <1>1, SumTake
  <1>4. /\ SumOf(f, S) \in Int
        /\ SumOf(f, S) = f[x] + SumOf(f, S \ {x})
    BY SumTake
  <1>5. \A y \in S : e[y] \in Int
    OBVIOUS
  <1>6. /\ SumOf(e, S) \in Int
        /\ SumOf(e, S) = e[x] + SumOf(e, S \ {x})
    BY <1>5, SumTake
  <1>7. f[x] \in Int /\ e[x] \in Int
    OBVIOUS
  <1> QED
    BY <1>2, <1>3, <1>4, <1>6, <1>7

(* The same, with the hypotheses as one.                                    *)
Replaces(e, f, x, S) ==
  /\ \A y \in S : f[y] \in Int
  /\ e[x] \in Int
  /\ \A y \in S \ {x} : e[y] = f[y]

LEMMA SumReplaced ==
  ASSUME NEW S, IsFiniteSet(S), NEW f, NEW e, NEW x \in S, Replaces(e, f, x, S)
  PROVE  SumOf(e, S) = SumOf(f, S) - f[x] + e[x]
  <1>1. /\ \A y \in S : f[y] \in Int
        /\ e[x] \in Int
        /\ \A y \in S \ {x} : e[y] = f[y]
    BY DEF Replaces
  <1> QED
    BY <1>1, SumUpdate

(* A sum with one term that grows.                                          *)
LEMMA SumGrows ==
  ASSUME NEW S, IsFiniteSet(S), NEW f, NEW e, NEW x \in S, NEW n \in Int,
         \A y \in S : f[y] \in Int, e[x] = f[x] + n,
         \A y \in S \ {x} : e[y] = f[y]
  PROVE  SumOf(f, S) \in Int /\ SumOf(e, S) = SumOf(f, S) + n
  <1>1. f[x] \in Int /\ e[x] \in Int /\ \A y \in S : e[y] \in Int
    OBVIOUS
  <1>2. IsFiniteSet(S \ {x})
    BY FS_RemoveElement
  <1>3. SumOf(e, S \ {x}) = SumOf(f, S \ {x}) /\ SumOf(f, S \ {x}) \in Int
    BY <1>2, SumSame, SumTake
  <1>4. SumOf(f, S) \in Int /\ SumOf(f, S) = f[x] + SumOf(f, S \ {x})
    BY SumTake
  <1>5. SumOf(e, S) = e[x] + SumOf(e, S \ {x})
    BY <1>1, SumTake
  <1> QED
    BY <1>1, <1>3, <1>4, <1>5

(* A sum does not fall when no term does.                                   *)
LEMMA SumMonotone ==
  ASSUME NEW S, IsFiniteSet(S), NEW f, NEW e,
         \A x \in S : f[x] \in Int /\ e[x] \in Int /\ f[x] <= e[x]
  PROVE  SumOf(f, S) \in Int /\ SumOf(e, S) \in Int /\ SumOf(f, S) <= SumOf(e, S)
  <1> DEFINE G == {s \in SUBSET S : SumOf(f, s) <= SumOf(e, s)}
  <1>1. ASSUME NEW s \in SUBSET S
        PROVE  SumOf(f, s) \in Int /\ SumOf(e, s) \in Int
    BY FS_Subset, SumTake
  <1>2. ASSUME NEW s \in SUBSET S, \A x \in s : s \ {x} \in G
        PROVE  s \in G
    <2>1. CASE s = {}
      <3>1. SumOf(f, s) = 0 /\ SumOf(e, s) = 0
        BY <2>1, SumEmpty
      <3> QED
        BY <3>1
    <2>2. CASE s # {}
      <3>1. PICK x : x \in s
        BY <2>2
      <3>2. /\ SumOf(f, s) = f[x] + SumOf(f, s \ {x})
            /\ SumOf(e, s) = e[x] + SumOf(e, s \ {x})
        BY <3>1, FS_Subset, SumTake
      <3>3. SumOf(f, s \ {x}) \in Int /\ SumOf(e, s \ {x}) \in Int
        BY <1>1
      <3>4. SumOf(f, s \ {x}) <= SumOf(e, s \ {x})
        BY <1>2, <3>1
      <3>5. f[x] \in Int /\ e[x] \in Int /\ f[x] <= e[x]
        BY <3>1
      <3>6. SumOf(f, s) <= SumOf(e, s)
        BY <3>2, <3>3, <3>4, <3>5
      <3> QED
        BY <3>6
    <2> QED
      BY <2>1, <2>2
  <1>3. SUBSET S \subseteq G
    <2> HIDE DEF G
    <2> QED
      BY <1>2, SubsetInduction
  <1> QED
    BY <1>1, <1>3

(* A sum of naturals is a natural, and no term exceeds it.                  *)
LEMMA SumNat ==
  ASSUME NEW S, IsFiniteSet(S), NEW f, \A x \in S : f[x] \in Nat
  PROVE  /\ SumOf(f, S) \in Nat
         /\ \A x \in S : f[x] <= SumOf(f, S)
  <1> DEFINE G == {s \in SUBSET S : SumOf(f, s) \in Nat}
  <1>1. ASSUME NEW s \in SUBSET S, NEW x \in s
        PROVE  SumOf(f, s) = f[x] + SumOf(f, s \ {x})
    BY FS_Subset, SumTake
  <1>2. ASSUME NEW s \in SUBSET S, \A x \in s : s \ {x} \in G
        PROVE  s \in G
    <2>1. CASE s = {}
      <3>1. SumOf(f, s) = 0
        BY <2>1, SumEmpty
      <3> QED
        BY <3>1
    <2>2. CASE s # {}
      <3>1. PICK x : x \in s
        BY <2>2
      <3>2. SumOf(f, s \ {x}) \in Nat /\ f[x] \in Nat
        BY <1>2, <3>1
      <3>3. SumOf(f, s) \in Nat
        BY <1>1, <3>1, <3>2
      <3> QED
        BY <3>3
    <2> QED
      BY <2>1, <2>2
  <1>3. SUBSET S \subseteq G
    <2> HIDE DEF G
    <2> QED
      BY <1>2, SubsetInduction
  <1>4. ASSUME NEW x \in S PROVE f[x] <= SumOf(f, S)
    <2>1. SumOf(f, S) = f[x] + SumOf(f, S \ {x})
      BY <1>1
    <2>2. SumOf(f, S \ {x}) \in Nat /\ f[x] \in Nat
      BY <1>3
    <2> QED
      BY <2>1, <2>2
  <1> QED
    BY <1>3, <1>4

(* A sum of naturals over fewer elements is no larger.                      *)
LEMMA SumSubset ==
  ASSUME NEW S, IsFiniteSet(S), NEW T \in SUBSET S, NEW f, \A x \in S : f[x] \in Nat
  PROVE  SumOf(f, T) \in Nat /\ SumOf(f, S) \in Nat /\ SumOf(f, T) <= SumOf(f, S)
  <1> DEFINE G == {s \in SUBSET S : SumOf(f, s \ T) + SumOf(f, s \cap T) = SumOf(f, s)}
  <1>1. ASSUME NEW s \in SUBSET S
        PROVE  IsFiniteSet(s) /\ SumOf(f, s) \in Nat
    BY FS_Subset, SumNat
  <1>2. ASSUME NEW s \in SUBSET S, \A x \in s : s \ {x} \in G
        PROVE  s \in G
    <2>1. CASE s = {}
      <3>1. s \ T = {} /\ s \cap T = {}
        BY <2>1
      <3>2. SumOf(f, s) = 0 /\ SumOf(f, s \ T) = 0 /\ SumOf(f, s \cap T) = 0
        BY <2>1, <3>1, SumEmpty
      <3> QED
        BY <3>2
    <2>2. CASE s # {}
      <3>1. PICK x : x \in s
        BY <2>2
      <3> DEFINE r == s \ {x}
      <3>2. /\ f[x] \in Nat /\ SumOf(f, s) = f[x] + SumOf(f, r)
            /\ SumOf(f, r \ T) + SumOf(f, r \cap T) = SumOf(f, r)
            /\ SumOf(f, r) \in Nat /\ SumOf(f, r \ T) \in Nat
            /\ SumOf(f, r \cap T) \in Nat
        BY <1>1, <1>2, <3>1, SumTake
      <3>3. SumOf(f, s \ T) = SumOf(f, r \ T) + (IF x \in T THEN 0 ELSE f[x])
        <4>1. CASE x \in T
          <5>1. s \ T = r \ T
            BY <4>1
          <5>2. SumOf(f, s \ T) = SumOf(f, r \ T)
            BY <5>1, Zenon
          <5> QED
            BY <3>2, <4>1, <5>2
        <4>2. CASE x \notin T
          <5>1. x \in s \ T /\ (s \ T) \ {x} = r \ T /\ s \ T \in SUBSET S
            BY <3>1, <4>2
          <5>2. SumOf(f, s \ T) = f[x] + SumOf(f, r \ T)
            BY <1>1, <5>1, SumTake
          <5> QED
            BY <3>2, <4>2, <5>2
        <4> QED
          BY <4>1, <4>2
      <3>4. SumOf(f, s \cap T) = SumOf(f, r \cap T) + (IF x \in T THEN f[x] ELSE 0)
        <4>1. CASE x \notin T
          <5>1. s \cap T = r \cap T
            BY <4>1
          <5>2. SumOf(f, s \cap T) = SumOf(f, r \cap T)
            BY <5>1, Zenon
          <5> QED
            BY <3>2, <4>1, <5>2
        <4>2. CASE x \in T
          <5>1. x \in s \cap T /\ (s \cap T) \ {x} = r \cap T /\ s \cap T \in SUBSET S
            BY <3>1, <4>2
          <5>2. SumOf(f, s \cap T) = f[x] + SumOf(f, r \cap T)
            BY <1>1, <5>1, SumTake
          <5> QED
            BY <3>2, <4>2, <5>2
        <4> QED
          BY <4>1, <4>2
      <3>5. SumOf(f, s \ T) + SumOf(f, s \cap T) = SumOf(f, s)
        <4> HIDE DEF r
        <4> QED
          BY <3>2, <3>3, <3>4
      <3> QED
        BY <3>5
    <2> QED
      BY <2>1, <2>2
  <1>3. S \in G
    <2> HIDE DEF G
    <2> QED
      BY <1>2, SubsetInduction
  <1>4. S \cap T = T /\ S \ T \in SUBSET S
    OBVIOUS
  <1>5. SumOf(f, S \ T) + SumOf(f, T) = SumOf(f, S)
    BY <1>3, <1>4
  <1>6. SumOf(f, S \ T) \in Nat /\ SumOf(f, T) \in Nat /\ SumOf(f, S) \in Nat
    BY <1>1, <1>4
  <1> QED
    BY <1>5, <1>6

LEMMA NaturalBalances ==
  ASSUME NEW D, NEW f \in [D -> Nat]
  PROVE  f \in [D -> Int]
  OBVIOUS

(* What a transfer leaves on every account; one of an account to itself     *)
(* changes nothing.                                                         *)
LEMMA MoveValues ==
  ASSUME NEW D, NEW f \in [D -> Int], NEW from \in D, NEW to \in D, NEW n \in Int
  PROVE  /\ Move(f, from, to, n) \in [D -> Int]
         /\ \A x \in D : Move(f, from, to, n)[x] =
              f[x] - (IF x = from THEN n ELSE 0) + (IF x = to THEN n ELSE 0)
         /\ from = to => Move(f, from, to, n) = f
  <1>1. Move(f, from, to, n) \in [D -> Int]
    BY DEF Move
  <1>2. \A x \in D : Move(f, from, to, n)[x] =
           f[x] - (IF x = from THEN n ELSE 0) + (IF x = to THEN n ELSE 0)
    BY DEF Move
  <1>3. ASSUME from = to PROVE Move(f, from, to, n) = f
    <2>1. \A x \in D : Move(f, from, to, n)[x] = f[x]
      BY <1>2, <1>3
    <2> QED
      BY <1>1, <2>1
  <1> QED
    BY <1>1, <1>2, <1>3

(* A transfer changes a sum of balances by what it moves in and out of the  *)
(* accounts that are summed.                                                *)
LEMMA SumMove ==
  ASSUME NEW D, NEW f \in [D -> Int], NEW S \in SUBSET D, IsFiniteSet(S),
         NEW from \in D, NEW to \in D, NEW n \in Int
  PROVE  /\ SumOf(f, S) \in Int
         /\ SumOf(Move(f, from, to, n), S) =
              SumOf(f, S) - (IF from \in S THEN n ELSE 0)
                          + (IF to \in S THEN n ELSE 0)
  <1> DEFINE g == [f EXCEPT ![from] = @ - n]
             h == [g EXCEPT ![to] = @ + n]
  <1>1. /\ g \in [D -> Int] /\ h \in [D -> Int]
        /\ g[from] = f[from] - n /\ h[to] = g[to] + n
        /\ \A x \in D \ {from} : g[x] = f[x]
        /\ \A x \in D \ {to} : h[x] = g[x]
    OBVIOUS
  <1>2. h = Move(f, from, to, n)
    BY DEF Move
  <1> HIDE DEF g, h
  <1>3. SumOf(f, S) \in Int /\ SumOf(g, S) \in Int
    BY <1>1, SumTake
  <1>4. SumOf(g, S) = SumOf(f, S) - (IF from \in S THEN n ELSE 0)
    <2>1. CASE from \in S
      <3>1. SumOf(g, S) = SumOf(f, S) - f[from] + g[from]
        BY <1>1, <2>1, SumUpdate
      <3>2. f[from] \in Int
        OBVIOUS
      <3> QED
        BY <1>1, <1>3, <2>1, <3>1, <3>2
    <2>2. CASE from \notin S
      <3>1. SumOf(g, S) = SumOf(f, S)
        BY <1>1, <2>2, SumSame
      <3> QED
        BY <1>3, <2>2, <3>1
    <2> QED
      BY <2>1, <2>2
  <1>5. SumOf(h, S) = SumOf(g, S) + (IF to \in S THEN n ELSE 0)
    <2>1. CASE to \in S
      <3>1. SumOf(h, S) = SumOf(g, S) - g[to] + h[to]
        BY <1>1, <2>1, SumUpdate
      <3>2. g[to] \in Int
        BY <1>1
      <3> QED
        BY <1>1, <1>3, <2>1, <3>1, <3>2
    <2>2. CASE to \notin S
      <3>1. SumOf(h, S) = SumOf(g, S)
        BY <1>1, <2>2, SumSame
      <3> QED
        BY <1>3, <2>2, <3>1
    <2> QED
      BY <2>1, <2>2
  <1> QED
    BY <1>2, <1>3, <1>4, <1>5
=============================================================================
