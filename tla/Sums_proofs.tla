---------------------------- MODULE Sums_proofs ----------------------------
(***************************************************************************)
(* Sums over finite sets (SumFunctionOnSet of module Functions), for the   *)
(* proofs of the modules whose accounts have to add up.                    *)
(*                                                                         *)
(* An induction theorem that takes a predicate cannot be used here, one    *)
(* that takes the SET of the values already dealt with can: the two        *)
(* induction lemmas below are of that form, and follow from the fact that  *)
(* the natural numbers are well founded.                                   *)
(***************************************************************************)
EXTENDS Functions, FiniteSetTheorems, WellFoundedInduction, TLAPS

LEMMA LeastOf ==
  ASSUME NEW T, T \subseteq Nat, T # {}
  PROVE  \E x \in T : \A y \in T : x <= y
<1>1. IsWellFoundedOn(OpToRel(<, Nat), Nat)
  BY NatLessThanWellFounded
<1>2. PICK x \in T : \A y \in T : ~ (<<y, x>> \in OpToRel(<, Nat))
  BY <1>1, WFMin
<1>3. \A y \in T : ~ (y < x)
  BY <1>2 DEF OpToRel
<1> QED  BY <1>3

(***************************************************************************)
(* Induction over the natural numbers and over the subsets of a finite     *)
(* set.                                                                    *)
(***************************************************************************)
LEMMA CountingUp ==
  ASSUME NEW Q, 0 \in Q, \A n \in Nat : n \in Q => n + 1 \in Q
  PROVE  \A n \in Nat : n \in Q
<1> DEFINE T == {n \in Nat : ~ (n \in Q)}
<1> SUFFICES ASSUME T # {} PROVE FALSE
  OBVIOUS
<1>1. PICK x \in T : \A y \in T : x <= y
  BY LeastOf
<1>2. x # 0 /\ x \in Nat
  OBVIOUS
<1>3. x - 1 \in Nat /\ x - 1 \in Q
  BY <1>1, <1>2
<1>4. (x - 1) + 1 \in Q
  BY <1>3
<1> QED  BY <1>2, <1>4

LEMMA FewerFirst ==
  ASSUME NEW S, IsFiniteSet(S), NEW Q,
         \A R \in SUBSET S : (\A x \in R : R \ {x} \in Q) => R \in Q
  PROVE  S \in Q
<1> DEFINE Bad == {R \in SUBSET S : ~ (R \in Q)}
           Sizes == {Cardinality(R) : R \in Bad}
<1> SUFFICES ASSUME ~ (S \in Q) PROVE FALSE
  OBVIOUS
<1>1. \A R \in SUBSET S : IsFiniteSet(R) /\ Cardinality(R) \in Nat
  BY FS_Subset, FS_CardinalityType
<1>2. Sizes \subseteq Nat /\ Sizes # {}
  BY <1>1
<1>3. PICK n \in Sizes : \A m \in Sizes : n <= m
  BY <1>2, LeastOf
<1>4. PICK R \in Bad : n = Cardinality(R)
  BY <1>3
<1>5. ASSUME NEW x \in R PROVE R \ {x} \in Q
  <2>1. IsFiniteSet(R) /\ Cardinality(R \ {x}) = Cardinality(R) - 1 /\ Cardinality(R) \in Nat
    BY <1>1, <1>5, FS_RemoveElement
  <2>2. ~ (Cardinality(R \ {x}) \in Sizes)
    BY <1>3, <1>4, <2>1
  <2> QED  BY <2>2
<1> QED  BY <1>4, <1>5
-----------------------------------------------------------------------------
(***************************************************************************)
(* The recursive function that SumFunctionOnSet evaluates at S.            *)
(***************************************************************************)
Pick(s) == CHOOSE x \in s : TRUE

Summand(f, it, s) == IF s = {} THEN 0 ELSE f[Pick(s)] + it[s \ {Pick(s)}]

Iterate(f, S) == CHOOSE it : it = [s \in SUBSET S |-> Summand(f, it, s)]

LEMMA SumIterates ==
  ASSUME NEW f, NEW S
  PROVE  SumFunctionOnSet(f, S) = Iterate(f, S)[S]
BY DEF SumFunctionOnSet, FoldFunctionOnSet, MapThenFoldSet, Iterate, Summand, Pick

(***************************************************************************)
(* The function exists: for the subsets of at most n elements, by          *)
(* induction on n.                                                         *)
(***************************************************************************)
LEMMA IterateEquation ==
  ASSUME NEW f, NEW S, IsFiniteSet(S)
  PROVE  \A s \in SUBSET S : Iterate(f, S)[s] = Summand(f, Iterate(f, S), s)
<1> DEFINE UpTo(n) == {s \in SUBSET S : Cardinality(s) <= n}
           Q == {n \in Nat : \E g : g = [s \in UpTo(n) |-> Summand(f, g, s)]}
<1>1. \A s \in SUBSET S : IsFiniteSet(s) /\ Cardinality(s) \in Nat
  BY FS_Subset, FS_CardinalityType
<1>2. 0 \in Q
  <2> DEFINE g == [s \in UpTo(0) |-> 0]
  <2>1. \A s \in UpTo(0) : s = {}
    BY <1>1, FS_EmptySet
  <2>2. g = [s \in UpTo(0) |-> Summand(f, g, s)]
    BY <2>1 DEF Summand
  <2> QED  BY <2>2
<1>3. ASSUME NEW n \in Nat, n \in Q PROVE n + 1 \in Q
  <2>1. PICK g : g = [s \in UpTo(n) |-> Summand(f, g, s)]
    BY <1>3
  <2> DEFINE h == [s \in UpTo(n + 1) |-> Summand(f, g, s)]
  <2>2. ASSUME NEW s \in UpTo(n + 1) PROVE Summand(f, g, s) = Summand(f, h, s)
    <3>1. CASE s = {}
      BY <3>1 DEF Summand
    <3>2. CASE s # {}
      <4> DEFINE r == s \ {Pick(s)}
      <4>1. Pick(s) \in s
        BY <3>2 DEF Pick
      <4>2. Cardinality(r) = Cardinality(s) - 1 /\ Cardinality(s) \in Nat
        BY <1>1, <4>1, FS_RemoveElement
      <4>3. r \in UpTo(n) /\ r \in UpTo(n + 1)
        BY <4>2, <2>2
      <4>4. h[r] = Summand(f, g, r) /\ g[r] = Summand(f, g, r)
        <5> HIDE DEF r
        <5>1. h[r] = Summand(f, g, r)
          BY <4>3
        <5>2. g[r] = Summand(f, g, r)
          BY <4>3, <2>1
        <5> QED  BY <5>1, <5>2
      <4> QED  BY <4>4, <3>2 DEF Summand
    <3> QED  BY <3>1, <3>2
  <2>3. h = [s \in UpTo(n + 1) |-> Summand(f, h, s)]
    BY <2>2
  <2> HIDE DEF h
  <2> QED  BY <2>3
<1>4. Cardinality(S) \in Q
  <2>1. Cardinality(S) \in Nat
    BY FS_CardinalityType
  <2> HIDE DEF Q
  <2> QED  BY <1>2, <1>3, <2>1, CountingUp
<1>5. UpTo(Cardinality(S)) = SUBSET S
  BY <1>1, FS_Subset
<1>6. \E g : g = [s \in SUBSET S |-> Summand(f, g, s)]
  BY <1>4, <1>5
<1>7. Iterate(f, S) = [s \in SUBSET S |-> Summand(f, Iterate(f, S), s)]
  BY <1>6 DEF Iterate
<1> HIDE DEF Q
<1> QED  BY <1>7, Zenon

(***************************************************************************)
(* It does not depend on the set that the subset is taken from.            *)
(***************************************************************************)
LEMMA IterateAgrees ==
  ASSUME NEW f, NEW S, IsFiniteSet(S), NEW R \in SUBSET S
  PROVE  Iterate(f, S)[R] = Iterate(f, R)[R]
<1>1. IsFiniteSet(R)
  BY FS_Subset
<1>2. \A s \in SUBSET S : Iterate(f, S)[s] = Summand(f, Iterate(f, S), s)
  BY IterateEquation
<1>h. \A s \in SUBSET R : Iterate(f, R)[s] = Summand(f, Iterate(f, R), s)
  BY <1>1, IterateEquation
<1> DEFINE g == Iterate(f, S)
           h == Iterate(f, R)
           Q == {s \in SUBSET R : g[s] = h[s]}
<1>3. ASSUME NEW s \in SUBSET R, \A x \in s : s \ {x} \in Q PROVE s \in Q
  <2>1. g[s] = Summand(f, g, s) /\ h[s] = Summand(f, h, s)
    BY <1>2, <1>h
  <2>2. Summand(f, g, s) = Summand(f, h, s)
    <3>1. CASE s = {}
      BY <3>1 DEF Summand
    <3>2. CASE s # {}
      <4>1. Pick(s) \in s
        BY <3>2 DEF Pick
      <4>2. g[s \ {Pick(s)}] = h[s \ {Pick(s)}]
        BY <4>1, <1>3
      <4> QED  BY <4>2 DEF Summand
    <3> QED  BY <3>1, <3>2
  <2> QED  BY <2>1, <2>2
<1>4. R \in Q
  <2> HIDE DEF Q
  <2> QED  BY <1>1, <1>3, FewerFirst
<1> QED  BY <1>4

(***************************************************************************)
(* The sum's own recursion.                                                *)
(***************************************************************************)
LEMMA SumEmpty ==
  ASSUME NEW f
  PROVE  SumFunctionOnSet(f, {}) = 0
<1>2. Iterate(f, {})[{}] = Summand(f, Iterate(f, {}), {})
  BY FS_EmptySet, IterateEquation
<1> QED  BY <1>2, SumIterates DEF Summand

LEMMA SumPicked ==
  ASSUME NEW f, NEW S, IsFiniteSet(S), S # {}
  PROVE  SumFunctionOnSet(f, S) = f[Pick(S)] + SumFunctionOnSet(f, S \ {Pick(S)})
<1> DEFINE R == S \ {Pick(S)}
           g == Iterate(f, S)
<1>2. g[S] = Summand(f, g, S)
  BY IterateEquation
<1>3. g[R] = Iterate(f, R)[R]
  BY IterateAgrees
<1> QED  BY <1>2, <1>3, SumIterates DEF Summand

(***************************************************************************)
(* The facts that the other modules use.  f need only have integer values  *)
(* on the set that is summed over.                                         *)
(***************************************************************************)
Summable(f, S) == IsFiniteSet(S) /\ \A x \in S : f[x] \in Int

LEMMA SumInt ==
  ASSUME NEW f, NEW S, Summable(f, S)
  PROVE  SumFunctionOnSet(f, S) \in Int
<1> DEFINE Q == {R \in SUBSET S : SumFunctionOnSet(f, R) \in Int}
<1>1. ASSUME NEW R \in SUBSET S, \A x \in R : R \ {x} \in Q PROVE R \in Q
  <2>1. CASE R = {}
    BY <2>1, SumEmpty
  <2>2. CASE R # {}
    <3>1. IsFiniteSet(R) /\ Pick(R) \in R
      BY <2>2, FS_Subset DEF Summable, Pick
    <3>2. SumFunctionOnSet(f, R) = f[Pick(R)] + SumFunctionOnSet(f, R \ {Pick(R)})
      BY <3>1, <2>2, SumPicked
    <3>3. f[Pick(R)] \in Int /\ SumFunctionOnSet(f, R \ {Pick(R)}) \in Int
      BY <3>1, <1>1 DEF Summable
    <3> QED  BY <3>2, <3>3
  <2> QED  BY <2>1, <2>2
<1>2. S \in Q
  <2> HIDE DEF Q
  <2> QED  BY <1>1, FewerFirst DEF Summable
<1> QED  BY <1>2

LEMMA SummableSubset ==
  ASSUME NEW f, NEW S, Summable(f, S), NEW R \in SUBSET S
  PROVE  Summable(f, R)
BY FS_Subset DEF Summable

(***************************************************************************)
(* Any element may be taken out first.                                     *)
(***************************************************************************)
LEMMA SumTakeOut ==
  ASSUME NEW f, NEW S, Summable(f, S), NEW x \in S
  PROVE  SumFunctionOnSet(f, S) = f[x] + SumFunctionOnSet(f, S \ {x})
<1> DEFINE Sum(R) == SumFunctionOnSet(f, R)
           Q == {R \in SUBSET S : \A y \in R : Sum(R) = f[y] + Sum(R \ {y})}
<1>1. ASSUME NEW R \in SUBSET S, \A y \in R : R \ {y} \in Q PROVE R \in Q
  <2> SUFFICES ASSUME NEW y \in R PROVE Sum(R) = f[y] + Sum(R \ {y})
    OBVIOUS
  <2> DEFINE p == Pick(R)
             T == R \ {p, y}
  <2>1. p \in R /\ IsFiniteSet(R)
    BY FS_Subset DEF Pick, Summable
  <2>2. Sum(R) = f[p] + Sum(R \ {p})
    BY <2>1, SumPicked
  <2>3. CASE y = p
    BY <2>2, <2>3
  <2>4. CASE y # p
    <3>1. (R \ {p}) \ {y} = T /\ (R \ {y}) \ {p} = T
      OBVIOUS
    <3>2. y \in R \ {p} /\ R \ {p} \in Q
      BY <2>1, <2>4, <1>1
    <3>3. Sum(R \ {p}) = f[y] + Sum(T)
      BY <3>1, <3>2
    <3>4. p \in R \ {y} /\ R \ {y} \in Q
      BY <2>1, <2>4, <1>1
    <3>5. Sum(R \ {y}) = f[p] + Sum(T)
      BY <3>1, <3>4
    <3>6. f[p] \in Int /\ f[y] \in Int
      BY <2>1 DEF Summable
    <3>7. Sum(T) \in Int
      BY SumInt, SummableSubset
    <3> HIDE DEF Sum, T, p
    <3> QED  BY <2>2, <3>3, <3>5, <3>6, <3>7
  <2> QED  BY <2>3, <2>4
<1>2. S \in Q
  <2> HIDE DEF Q
  <2> QED  BY <1>1, FewerFirst DEF Summable
<1> QED  BY <1>2

LEMMA SumSame ==
  ASSUME NEW f, NEW g, NEW S, Summable(f, S), \A x \in S : f[x] = g[x]
  PROVE  SumFunctionOnSet(f, S) = SumFunctionOnSet(g, S)
<1> DEFINE Q == {R \in SUBSET S : SumFunctionOnSet(f, R) = SumFunctionOnSet(g, R)}
<1>1. ASSUME NEW R \in SUBSET S, \A x \in R : R \ {x} \in Q PROVE R \in Q
  <2>1. CASE R = {}
    BY <2>1, SumEmpty
  <2>2. CASE R # {}
    <3>1. IsFiniteSet(R) /\ Pick(R) \in R
      BY <2>2, FS_Subset DEF Summable, Pick
    <3>2. SumFunctionOnSet(f, R) = f[Pick(R)] + SumFunctionOnSet(f, R \ {Pick(R)})
      BY <3>1, <2>2, SumPicked
    <3>3. SumFunctionOnSet(g, R) = g[Pick(R)] + SumFunctionOnSet(g, R \ {Pick(R)})
      BY <3>1, <2>2, SumPicked
    <3>4. f[Pick(R)] = g[Pick(R)]
      BY <3>1
    <3>5. R \ {Pick(R)} \in Q
      BY <3>1, <1>1
    <3> QED  BY <3>2, <3>3, <3>4, <3>5
  <2> QED  BY <2>1, <2>2
<1>2. S \in Q
  <2> HIDE DEF Q
  <2> QED  BY <1>1, FewerFirst DEF Summable
<1> QED  BY <1>2

(***************************************************************************)
(* One value changes, two values change.                                   *)
(***************************************************************************)
LEMMA SumChangeOne ==
  ASSUME NEW f, NEW g, NEW S, Summable(f, S), NEW x \in S, g[x] \in Int,
         \A y \in S \ {x} : f[y] = g[y]
  PROVE  SumFunctionOnSet(g, S) = SumFunctionOnSet(f, S) - f[x] + g[x]
<1> DEFINE R == S \ {x}
<1>1. Summable(g, S)
  <2>1. ASSUME NEW y \in S PROVE g[y] \in Int
    BY DEF Summable
  <2> QED  BY <2>1 DEF Summable
<1>2. SumFunctionOnSet(f, S) = f[x] + SumFunctionOnSet(f, R)
  BY SumTakeOut
<1>3. SumFunctionOnSet(g, S) = g[x] + SumFunctionOnSet(g, R)
  BY <1>1, SumTakeOut
<1>4. Summable(f, R)
  BY SummableSubset
<1>5. SumFunctionOnSet(f, R) = SumFunctionOnSet(g, R)
  BY <1>4, SumSame
<1>6. SumFunctionOnSet(f, R) \in Int /\ f[x] \in Int
  BY <1>4, SumInt DEF Summable
<1> QED  BY <1>2, <1>3, <1>5, <1>6

LEMMA SumZero ==
  ASSUME NEW f, NEW S, IsFiniteSet(S), \A x \in S : f[x] = 0
  PROVE  SumFunctionOnSet(f, S) = 0
<1> DEFINE Q == {R \in SUBSET S : SumFunctionOnSet(f, R) = 0}
<1>1. ASSUME NEW R \in SUBSET S, \A x \in R : R \ {x} \in Q PROVE R \in Q
  <2>1. CASE R = {}
    BY <2>1, SumEmpty
  <2>2. CASE R # {}
    <3>1. IsFiniteSet(R) /\ Pick(R) \in R
      BY <2>2, FS_Subset DEF Pick
    <3>2. SumFunctionOnSet(f, R) = f[Pick(R)] + SumFunctionOnSet(f, R \ {Pick(R)})
      BY <3>1, <2>2, SumPicked
    <3>3. f[Pick(R)] = 0 /\ SumFunctionOnSet(f, R \ {Pick(R)}) = 0
      BY <3>1, <1>1
    <3> QED  BY <3>2, <3>3
  <2> QED  BY <2>1, <2>2
<1>2. S \in Q
  <2> HIDE DEF Q
  <2> QED  BY <1>1, FewerFirst
<1> QED  BY <1>2

(***************************************************************************)
(* Pointwise comparison.                                                   *)
(***************************************************************************)
LEMMA SumMonotone ==
  ASSUME NEW f, NEW g, NEW S, Summable(f, S), Summable(g, S), \A x \in S : f[x] <= g[x]
  PROVE  SumFunctionOnSet(f, S) <= SumFunctionOnSet(g, S)
<1> DEFINE Q == {R \in SUBSET S : SumFunctionOnSet(f, R) <= SumFunctionOnSet(g, R)}
<1>1. ASSUME NEW R \in SUBSET S, \A x \in R : R \ {x} \in Q PROVE R \in Q
  <2>1. CASE R = {}
    BY <2>1, SumEmpty
  <2>2. CASE R # {}
    <3> DEFINE p == Pick(R)
               T == R \ {p}
    <3>1. p \in R
      BY <2>2 DEF Pick
    <3>2. Summable(f, R) /\ Summable(g, R) /\ Summable(f, T) /\ Summable(g, T)
      BY SummableSubset
    <3>3. SumFunctionOnSet(f, R) = f[p] + SumFunctionOnSet(f, T)
      BY <3>1, <3>2, SumTakeOut
    <3>4. SumFunctionOnSet(g, R) = g[p] + SumFunctionOnSet(g, T)
      BY <3>1, <3>2, SumTakeOut
    <3>5. f[p] <= g[p] /\ f[p] \in Int /\ g[p] \in Int
      BY <3>1 DEF Summable
    <3>6. SumFunctionOnSet(f, T) <= SumFunctionOnSet(g, T)
      BY <3>1, <1>1
    <3>7. SumFunctionOnSet(f, T) \in Int /\ SumFunctionOnSet(g, T) \in Int
      BY <3>2, SumInt
    <3> HIDE DEF p, T
    <3>8. SumFunctionOnSet(f, R) <= SumFunctionOnSet(g, R)
      BY <3>3, <3>4, <3>5, <3>6, <3>7
    <3> QED  BY <3>8
  <2> QED  BY <2>1, <2>2
<1>2. S \in Q
  <2> HIDE DEF Q
  <2> QED  BY <1>1, FewerFirst DEF Summable
<1> QED  BY <1>2

LEMMA SumNat ==
  ASSUME NEW f, NEW S, IsFiniteSet(S), \A x \in S : f[x] \in Nat
  PROVE  SumFunctionOnSet(f, S) \in Nat /\ \A x \in S : f[x] <= SumFunctionOnSet(f, S)
<1> DEFINE z == [x \in S |-> 0]
<1>1. Summable(f, S) /\ Summable(z, S)
  BY DEF Summable
<1>2. ASSUME NEW R \in SUBSET S
      PROVE  SumFunctionOnSet(f, R) \in Nat
  <2>1. Summable(f, R) /\ Summable(z, R)
    BY <1>1, SummableSubset
  <2>2. SumFunctionOnSet(z, R) = 0
    BY <2>1, SumZero DEF Summable
  <2>3. \A x \in R : z[x] <= f[x]
    OBVIOUS
  <2>4. SumFunctionOnSet(z, R) <= SumFunctionOnSet(f, R)
    <3> HIDE DEF z
    <3> QED  BY <2>1, <2>3, SumMonotone
  <2>5. SumFunctionOnSet(f, R) \in Int
    BY <2>1, SumInt
  <2> QED  BY <2>2, <2>4, <2>5
<1>3. ASSUME NEW x \in S PROVE f[x] <= SumFunctionOnSet(f, S)
  <2>1. SumFunctionOnSet(f, S) = f[x] + SumFunctionOnSet(f, S \ {x})
    BY <1>1, SumTakeOut
  <2>2. SumFunctionOnSet(f, S \ {x}) \in Nat /\ f[x] \in Nat
    BY <1>2
  <2> QED  BY <2>1, <2>2
<1> QED  BY <1>2, <1>3

(***************************************************************************)
(* One more element.                                                       *)
(***************************************************************************)
LEMMA SumPutIn ==
  ASSUME NEW f, NEW S, Summable(f, S), NEW x, ~ (x \in S), f[x] \in Int
  PROVE  SumFunctionOnSet(f, S \cup {x}) = f[x] + SumFunctionOnSet(f, S)
<1>1. Summable(f, S \cup {x})
  BY FS_AddElement DEF Summable
<1>2. (S \cup {x}) \ {x} = S
  OBVIOUS
<1> QED  BY <1>1, <1>2, SumTakeOut

(***************************************************************************)
(* A map whose value under k is inserted or replaced.                      *)
(***************************************************************************)
LEMMA SumInserted ==
  ASSUME NEW f, NEW g, NEW k, Summable(f, DOMAIN f), DOMAIN g = DOMAIN f \cup {k},
         g[k] \in Int, \A x \in DOMAIN f \ {k} : g[x] = f[x]
  PROVE  /\ SumFunction(g)
              = SumFunction(f) - (IF k \in DOMAIN f THEN f[k] ELSE 0) + g[k]
         /\ SumFunction(f) \in Int
<1> DEFINE S == DOMAIN f
<1>1. SumFunction(f) = SumFunctionOnSet(f, S) /\ SumFunction(g) = SumFunctionOnSet(g, S \cup {k})
  BY DEF SumFunction
<1>2. SumFunctionOnSet(f, S) \in Int
  <2> HIDE DEF S
  <2> QED  BY SumInt DEF S
<1>3. CASE k \in S
  <2>1. \A y \in S \ {k} : f[y] = g[y]
    OBVIOUS
  <2>2. SumFunctionOnSet(g, S) = SumFunctionOnSet(f, S) - f[k] + g[k]
    <3>1. Summable(f, S)
      OBVIOUS
    <3> HIDE DEF S
    <3> QED  BY <1>3, <2>1, <3>1, SumChangeOne
  <2>3. S \cup {k} = S
    BY <1>3
  <2> HIDE DEF S
  <2> QED  BY <1>1, <1>2, <1>3, <2>2, <2>3 DEF S
<1>4. CASE ~ (k \in S)
  <2>1. \A x \in S : f[x] = g[x]
    BY <1>4
  <2>2. Summable(f, S)
    OBVIOUS
  <2> HIDE DEF S
  <2>3. SumFunctionOnSet(f, S) = SumFunctionOnSet(g, S)
    BY <2>1, <2>2, SumSame
  <2>4. Summable(g, S)
    BY <2>1, <2>2 DEF Summable
  <2>5. SumFunctionOnSet(g, S \cup {k}) = g[k] + SumFunctionOnSet(g, S)
    BY <1>4, <2>4, SumPutIn
  <2> QED  BY <1>1, <1>2, <1>4, <2>3, <2>5 DEF S
<1> QED  BY <1>3, <1>4

(***************************************************************************)
(* Taking amounts g from some of the summands; the sum over a subset.      *)
(***************************************************************************)
LEMMA SumMinus ==
  ASSUME NEW f, NEW g, NEW h, NEW S, NEW R \in SUBSET S, Summable(f, S), Summable(g, R),
         \A x \in S : h[x] = IF x \in R THEN f[x] - g[x] ELSE f[x]
  PROVE  SumFunctionOnSet(h, S) = SumFunctionOnSet(f, S) - SumFunctionOnSet(g, R)
<1> DEFINE P(T) == SumFunctionOnSet(h, T)
                     = SumFunctionOnSet(f, T) - SumFunctionOnSet(g, T \cap R)
           Q == {T \in SUBSET S : P(T)}
<1>1. ASSUME NEW x \in S PROVE f[x] \in Int /\ h[x] \in Int
  <2>1. f[x] \in Int
    BY DEF Summable
  <2>2. CASE x \in R
    <3>1. g[x] \in Int /\ h[x] = f[x] - g[x]
      BY <2>2 DEF Summable
    <3> QED  BY <2>1, <3>1
  <2>3. CASE ~ (x \in R)
    BY <2>1, <2>3
  <2> QED  BY <2>1, <2>2, <2>3
<1>2. Summable(h, S)
  BY <1>1 DEF Summable
<1>3. ASSUME NEW T \in SUBSET S, \A x \in T : T \ {x} \in Q PROVE T \in Q
  <2>1. CASE T = {}
    <3>1. T \cap R = {}
      BY <2>1
    <3>2. SumFunctionOnSet(h, T) = 0 /\ SumFunctionOnSet(f, T) = 0 /\ SumFunctionOnSet(g, T \cap R) = 0
      BY <2>1, <3>1, SumEmpty
    <3> QED  BY <3>2
  <2>2. CASE T # {}
    <3>1. PICK x \in T : TRUE
      BY <2>2
    <3> DEFINE U == T \ {x}
    <3>2. Summable(h, T) /\ Summable(f, T) /\ Summable(f, U) /\ Summable(g, T \cap R) /\ Summable(g, U \cap R)
      BY <1>2, SummableSubset
    <3>3. SumFunctionOnSet(h, T) = h[x] + SumFunctionOnSet(h, U)
      BY <3>2, SumTakeOut
    <3>4. SumFunctionOnSet(f, T) = f[x] + SumFunctionOnSet(f, U)
      BY <3>2, SumTakeOut
    <3>5. SumFunctionOnSet(h, U) = SumFunctionOnSet(f, U) - SumFunctionOnSet(g, U \cap R)
      BY <1>3
    <3>6. SumFunctionOnSet(f, U) \in Int /\ SumFunctionOnSet(g, U \cap R) \in Int
      BY <3>2, SumInt
    <3>7. CASE x \in R
      <4>1. (T \cap R) \ {x} = U \cap R /\ x \in T \cap R
        BY <3>7
      <4>2. SumFunctionOnSet(g, T \cap R) = g[x] + SumFunctionOnSet(g, U \cap R)
        BY <3>2, <4>1, SumTakeOut
      <4>3. g[x] \in Int /\ f[x] \in Int /\ h[x] = f[x] - g[x]
        BY <1>1, <3>7 DEF Summable
      <4> HIDE DEF U
      <4>4. SumFunctionOnSet(h, T) = SumFunctionOnSet(f, T) - SumFunctionOnSet(g, T \cap R)
        BY <3>3, <3>4, <3>5, <3>6, <4>2, <4>3
      <4> QED  BY <4>4
    <3>8. CASE ~ (x \in R)
      <4>1. T \cap R = U \cap R
        BY <3>8
      <4>2. f[x] \in Int /\ h[x] = f[x]
        BY <1>1, <3>8
      <4> HIDE DEF U
      <4>3. SumFunctionOnSet(h, T) = SumFunctionOnSet(f, T) - SumFunctionOnSet(g, T \cap R)
        BY <3>3, <3>4, <3>5, <3>6, <4>1, <4>2
      <4> QED  BY <4>3
    <3> QED  BY <3>7, <3>8
  <2> QED  BY <2>1, <2>2
<1>4. S \in Q
  <2> HIDE DEF Q
  <2> QED  BY <1>3, FewerFirst DEF Summable
<1>5. S \cap R = R
  OBVIOUS
<1> QED  BY <1>4, <1>5

LEMMA SumPart ==
  ASSUME NEW f, NEW S, IsFiniteSet(S), \A x \in S : f[x] \in Nat, NEW R \in SUBSET S
  PROVE  SumFunctionOnSet(f, R) <= SumFunctionOnSet(f, S)
<1> DEFINE h == [x \in S |-> IF x \in R THEN f[x] - f[x] ELSE f[x]]
<1>1. Summable(f, S) /\ Summable(f, R)
  BY FS_Subset DEF Summable
<1>2. \A x \in S : h[x] = IF x \in R THEN f[x] - f[x] ELSE f[x]
  OBVIOUS
<1>3. \A x \in S : h[x] \in Nat
  OBVIOUS
<1> HIDE DEF h
<1>4. SumFunctionOnSet(h, S) = SumFunctionOnSet(f, S) - SumFunctionOnSet(f, R)
  BY <1>1, <1>2, SumMinus
<1>5. SumFunctionOnSet(h, S) \in Nat
  BY <1>3, SumNat
<1>6. SumFunctionOnSet(f, S) \in Int /\ SumFunctionOnSet(f, R) \in Int
  BY <1>1, SumInt
<1> QED  BY <1>4, <1>5, <1>6
=============================================================================
