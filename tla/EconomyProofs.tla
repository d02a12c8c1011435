---------------------------- MODULE EconomyProofs ----------------------------
(***************************************************************************)
(* Proofs about Economy, for every genesis, every existential deposit, all *)
(* amounts and every width of a vote.  The issuance is an integer to the   *)
(* invariant IInv; that it never falls below zero follows at the end, from *)
(* the sum over all accounts.                                              *)
(***************************************************************************)
EXTENDS Economy, SequenceTheorems, FiniteSetTheorems, WellFoundedInduction, TLAPS

-----------------------------------------------------------------------------
(* Sums over finite sets *)

\* Induction over the naturals, for the members of a set.
LEMMA NatByStep ==
  ASSUME NEW X, 0 \in X, \A n \in Nat : n \in X => n + 1 \in X
  PROVE  Nat \subseteq X
<1> DEFINE bad == Nat \ X
<1>1. SUFFICES ASSUME bad # {} PROVE FALSE
  OBVIOUS
<1>2. bad \subseteq Nat
  OBVIOUS
<1> HIDE DEF bad
<1>3. PICK n \in bad : \A m \in bad : ~(<<m, n>> \in OpToRel(<, Nat))
  BY <1>1, <1>2, WFMin, NatLessThanWellFounded
<1>4. n \in Nat /\ n # 0
  BY <1>2 DEF bad
<1>5. n - 1 \in Nat /\ n - 1 < n /\ (n - 1) + 1 = n
  BY <1>4
<1>6. <<n - 1, n>> \in OpToRel(<, Nat)
  BY <1>4, <1>5, Zenon DEF OpToRel
<1>7. n - 1 \notin bad
  BY <1>3, <1>6
<1>8. (n - 1) + 1 \in X
  BY <1>5, <1>7 DEF bad
<1> QED
  BY <1>5, <1>8 DEF bad

\* Induction over the subsets of a finite set, one element at a time.
LEMMA SubsetInduction ==
  ASSUME NEW S, IsFiniteSet(S), NEW X,
         \A T \in SUBSET S : (\A a \in T : T \ {a} \in X) => T \in X
  PROVE  SUBSET S \subseteq X
<1> DEFINE N == {n \in Nat : \A T \in SUBSET S : Cardinality(T) <= n => T \in X}
<1>1. \A T \in SUBSET S : IsFiniteSet(T) /\ Cardinality(T) \in Nat
  BY FS_Subset, FS_CardinalityType
<1>2. 0 \in N
  <2>1. SUFFICES ASSUME NEW T \in SUBSET S, Cardinality(T) <= 0 PROVE T \in X
    OBVIOUS
  <2>2. Cardinality(T) = 0
    BY <1>1, <2>1
  <2>3. T = {}
    BY <1>1, <2>2, FS_EmptySet
  <2> QED
    BY <2>3
<1>3. ASSUME NEW n \in Nat, n \in N PROVE n + 1 \in N
  <2>1. SUFFICES ASSUME NEW T \in SUBSET S, Cardinality(T) <= n + 1 PROVE T \in X
    OBVIOUS
  <2>2. SUFFICES ASSUME NEW a \in T PROVE T \ {a} \in X
    OBVIOUS
  <2>3. Cardinality(T \ {a}) = Cardinality(T) - 1
    BY <1>1, FS_RemoveElement
  <2>4. Cardinality(T \ {a}) <= n
    BY <1>1, <2>1, <2>3
  <2> QED
    BY <1>3, <2>4
<1>4. Nat \subseteq N
  <2> HIDE DEF N
  <2> QED
    BY <1>2, <1>3, NatByStep
<1>5. SUFFICES ASSUME NEW T \in SUBSET S PROVE T \in X
  OBVIOUS
<1>6. Cardinality(T) \in N /\ Cardinality(T) <= Cardinality(T)
  BY <1>1, <1>4
<1> QED
  BY <1>6

\* The recursion by which SumFunctionOnSet adds up: an element is picked, the
\* others follow.
Picked(s) == CHOOSE x \in s : TRUE
Added(f, sum, s) == IF s = {} THEN 0 ELSE f[Picked(s)] + sum[s \ {Picked(s)}]
Sums(f, S, sum)  == sum = [s \in SUBSET S |-> Added(f, sum, s)]

LEMMA SumDefinition ==
  ASSUME NEW f, NEW S
  PROVE  SumFunctionOnSet(f, S) = (CHOOSE sum : Sums(f, S, sum))[S]
  BY DEF SumFunctionOnSet, FoldFunctionOnSet, MapThenFoldSet, Sums, Added, Picked

LEMMA PickedIn ==
  ASSUME NEW s, s # {}
  PROVE  Picked(s) \in s
  BY DEF Picked

\* The recursion has a solution over a finite set: one that is right for the sets
\* of up to n elements gives one for n + 1.
LEMMA SumExists ==
  ASSUME NEW f, NEW S, IsFiniteSet(S)
  PROVE  \E sum : Sums(f, S, sum)
<1> DEFINE Small(n) == {s \in SUBSET S : Cardinality(s) <= n}
           Right(n, g) == \A s \in Small(n) : g[s] = Added(f, g, s)
           N == {n \in Nat : \E g : Right(n, g)}
<1>1. \A T \in SUBSET S : IsFiniteSet(T) /\ Cardinality(T) \in Nat
  BY FS_Subset, FS_CardinalityType
<1>2. 0 \in N
  <2> DEFINE g == [s \in SUBSET S |-> 0]
  <2>1. SUFFICES ASSUME NEW s \in Small(0) PROVE g[s] = Added(f, g, s)
    OBVIOUS
  <2>2. s \in SUBSET S /\ Cardinality(s) = 0
    BY <1>1
  <2>3. s = {}
    BY <1>1, <2>2, FS_EmptySet
  <2> QED
    BY <2>2, <2>3 DEF Added
<1>3. ASSUME NEW n \in Nat, n \in N PROVE n + 1 \in N
  <2>1. PICK g : Right(n, g)
    BY <1>3
  <2> DEFINE h == [s \in SUBSET S |-> Added(f, g, s)]
  <2>2. SUFFICES ASSUME NEW s \in Small(n + 1) PROVE h[s] = Added(f, h, s)
    <3>1. n + 1 \in Nat /\ (\E k : Right(n + 1, k)) => n + 1 \in N
      OBVIOUS
    <3>2. Right(n + 1, h) => \E k : Right(n + 1, k)
      <4> HIDE DEF h, Right
      <4> QED
        OBVIOUS
    <3>3. (\A s \in Small(n + 1) : h[s] = Added(f, h, s)) => Right(n + 1, h)
      OBVIOUS
    <3> HIDE DEF h, Right, N
    <3> QED
      BY <3>1, <3>2, <3>3
  <2>3. s \in SUBSET S /\ Cardinality(s) <= n + 1 /\ h[s] = Added(f, g, s)
    OBVIOUS
  <2>4. CASE s = {}
    BY <2>3, <2>4 DEF Added
  <2>5. CASE s # {}
    <3> DEFINE r == s \ {Picked(s)}
    <3>1. Picked(s) \in s
      BY <2>5, PickedIn
    <3>2. Cardinality(r) = Cardinality(s) - 1
      BY <1>1, <2>3, <3>1, FS_RemoveElement
    <3>3. r \in Small(n)
      BY <1>1, <2>3, <3>2
    <3>4. h[r] = Added(f, g, r) /\ g[r] = Added(f, g, r)
      BY <2>1, <3>3
    <3>5. h[s] = f[Picked(s)] + g[r] /\ Added(f, h, s) = f[Picked(s)] + h[r]
      BY <2>3, <2>5 DEF Added
    <3> QED
      BY <3>4, <3>5
  <2> QED
    BY <2>4, <2>5
<1>4. Nat \subseteq N
  <2> HIDE DEF N
  <2> QED
    BY <1>2, <1>3, NatByStep
<1>5. Cardinality(S) \in N /\ Small(Cardinality(S)) = SUBSET S
  <2>1. \A s \in SUBSET S : Cardinality(s) <= Cardinality(S)
    BY FS_Subset
  <2>2. Cardinality(S) \in Nat
    BY FS_CardinalityType
  <2> QED
    BY <1>4, <2>1, <2>2
<1>6. PICK g : \A s \in SUBSET S : g[s] = Added(f, g, s)
  BY <1>5
<1> DEFINE sum == [s \in SUBSET S |-> g[s]]
<1>7. ASSUME NEW s \in SUBSET S PROVE sum[s] = Added(f, sum, s)
  BY <1>6 DEF Added
<1>8. Sums(f, S, sum)
  <2>1. sum = [s \in SUBSET S |-> sum[s]]
    OBVIOUS
  <2> HIDE DEF sum
  <2> QED
    BY <1>7, <2>1 DEF Sums
<1> QED
  BY <1>8

\* It has only one.
LEMMA SumUnique ==
  ASSUME NEW f, NEW S, IsFiniteSet(S), NEW sum, Sums(f, S, sum), NEW tot, Sums(f, S, tot)
  PROVE  sum = tot
<1> DEFINE X == {T \in SUBSET S : sum[T] = tot[T]}
<1>1. /\ sum = [s \in SUBSET S |-> Added(f, sum, s)]
      /\ tot = [s \in SUBSET S |-> Added(f, tot, s)]
  BY DEF Sums
<1>2. \A T \in SUBSET S : sum[T] = Added(f, sum, T) /\ tot[T] = Added(f, tot, T)
  BY <1>1
<1>3. ASSUME NEW T \in SUBSET S, \A a \in T : T \ {a} \in X
      PROVE  T \in X
  <2>1. CASE T = {}
    BY <1>2, <2>1 DEF Added
  <2>2. CASE T # {}
    <3>1. Picked(T) \in T
      BY <2>2, PickedIn
    <3>2. sum[T \ {Picked(T)}] = tot[T \ {Picked(T)}]
      BY <1>3, <3>1
    <3> QED
      BY <1>2, <2>2, <3>2 DEF Added
  <2> QED
    BY <2>1, <2>2
<1>4. SUBSET S \subseteq X
  <2> HIDE DEF X
  <2> QED
    BY <1>3, SubsetInduction
<1>5. \A T \in SUBSET S : sum[T] = tot[T]
  BY <1>4
<1>6. DOMAIN sum = SUBSET S /\ DOMAIN tot = SUBSET S
  BY <1>1
<1>7. sum = [s \in SUBSET S |-> sum[s]] /\ tot = [s \in SUBSET S |-> tot[s]]
  BY <1>1, <1>6
<1> QED
  BY <1>5, <1>7

\* So SumFunctionOnSet is that solution, for the set and all its subsets.
LEMMA SumIsSolution ==
  ASSUME NEW f, NEW S, IsFiniteSet(S)
  PROVE  \E sum : /\ Sums(f, S, sum)
                  /\ \A T \in SUBSET S : SumFunctionOnSet(f, T) = sum[T]
<1>1. PICK sum : Sums(f, S, sum)
  BY SumExists
<1>2. sum = [s \in SUBSET S |-> Added(f, sum, s)]
  BY <1>1 DEF Sums
<1>3. ASSUME NEW T \in SUBSET S PROVE SumFunctionOnSet(f, T) = sum[T]
  <2> DEFINE part == [s \in SUBSET T |-> sum[s]]
             own  == CHOOSE g : Sums(f, T, g)
  <2>1. IsFiniteSet(T)
    BY FS_Subset
  <2>2. Sums(f, T, own)
    BY <2>1, SumExists
  <2>3. ASSUME NEW s \in SUBSET T PROVE part[s] = Added(f, part, s)
    <3>1. s \in SUBSET S /\ s \ {Picked(s)} \in SUBSET T
      OBVIOUS
    <3>2. sum[s] = Added(f, sum, s)
      BY <1>2, <3>1
    <3>3. part[s] = sum[s] /\ part[s \ {Picked(s)}] = sum[s \ {Picked(s)}]
      BY <3>1
    <3> QED
      BY <3>2, <3>3 DEF Added
  <2>4. Sums(f, T, part)
    <3>1. part = [s \in SUBSET T |-> part[s]]
      OBVIOUS
    <3> HIDE DEF part
    <3> QED
      BY <2>3, <3>1 DEF Sums
  <2>5. own = part
    <3> HIDE DEF own, part
    <3> QED
      BY <2>1, <2>2, <2>4, SumUnique
  <2>6. SumFunctionOnSet(f, T) = own[T]
    BY SumDefinition
  <2> QED
    BY <2>5, <2>6
<1> QED
  BY <1>1, <1>3

\* Nothing adds up to nothing.
LEMMA SumEmpty ==
  ASSUME NEW f
  PROVE  SumFunctionOnSet(f, {}) = 0
<1>1. IsFiniteSet({}) /\ {} \in SUBSET {}
  BY FS_EmptySet
<1>2. PICK sum : Sums(f, {}, sum) /\ \A T \in SUBSET {} : SumFunctionOnSet(f, T) = sum[T]
  BY <1>1, SumIsSolution
<1> QED
  BY <1>1, <1>2 DEF Sums, Added

\* Whichever element is taken first, the sum is its value and the sum of the
\* others.
LEMMA SumSplit ==
  ASSUME NEW S, IsFiniteSet(S), NEW f, \A x \in S : f[x] \in Int
  PROVE  /\ SumFunctionOnSet(f, S) \in Int
         /\ \A a \in S : SumFunctionOnSet(f, S) = f[a] + SumFunctionOnSet(f, S \ {a})
<1>1. PICK sum : Sums(f, S, sum) /\ \A T \in SUBSET S : SumFunctionOnSet(f, T) = sum[T]
  BY SumIsSolution
<1>2. /\ sum[{}] = 0
      /\ \A T \in SUBSET S : T # {} => sum[T] = f[Picked(T)] + sum[T \ {Picked(T)}]
  <2>1. sum = [s \in SUBSET S |-> Added(f, sum, s)]
    BY <1>1 DEF Sums
  <2>2. \A T \in SUBSET S : sum[T] = Added(f, sum, T)
    BY <2>1
  <2> QED
    BY <2>2 DEF Added
<1>3. \A T \in SUBSET S : sum[T] \in Int
  <2> DEFINE X == {T \in SUBSET S : sum[T] \in Int}
  <2>1. ASSUME NEW T \in SUBSET S, \A a \in T : T \ {a} \in X
        PROVE  T \in X
    <3>1. CASE T = {}
      BY <1>2, <3>1
    <3>2. CASE T # {}
      <4>1. Picked(T) \in T
        BY <3>2, PickedIn
      <4>2. sum[T \ {Picked(T)}] \in Int /\ f[Picked(T)] \in Int
        BY <2>1, <4>1
      <4>3. sum[T] = f[Picked(T)] + sum[T \ {Picked(T)}]
        BY <1>2, <3>2
      <4>4. sum[T] \in Int
        BY <4>2, <4>3
      <4> QED
        BY <4>4
    <3> QED
      BY <3>1, <3>2
  <2>2. SUBSET S \subseteq X
    <3> HIDE DEF X
    <3> QED
      BY <2>1, SubsetInduction
  <2> QED
    BY <2>2
<1> DEFINE Splits(T) == \A a \in T : sum[T] = f[a] + sum[T \ {a}]
           X == {T \in SUBSET S : Splits(T)}
<1>4. ASSUME NEW T \in SUBSET S, \A a \in T : T \ {a} \in X
      PROVE  T \in X
  <2>1. SUFFICES ASSUME NEW a \in T PROVE sum[T] = f[a] + sum[T \ {a}]
    OBVIOUS
  <2> DEFINE p == Picked(T)
             r == T \ {p, a}
  <2>2. p \in T /\ sum[T] = f[p] + sum[T \ {p}]
    BY <1>2, PickedIn
  <2> HIDE DEF p
  <2>3. CASE a = p
    BY <2>2, <2>3
  <2>4. CASE a # p
    <3>1. (T \ {p}) \ {a} = r /\ (T \ {a}) \ {p} = r
      OBVIOUS
    <3>2. T \ {p} \in X /\ T \ {a} \in X
      BY <1>4, <2>2
    <3>3. sum[T \ {p}] = f[a] + sum[r]
      BY <2>4, <3>1, <3>2
    <3>4. sum[T \ {a}] = f[p] + sum[r]
      BY <2>2, <2>4, <3>1, <3>2
    <3>5. sum[r] \in Int /\ f[a] \in Int /\ f[p] \in Int
      BY <1>3, <2>2
    <3> HIDE DEF r
    <3> QED
      BY <2>2, <3>3, <3>4, <3>5
  <2> QED
    BY <2>3, <2>4
<1>5. SUBSET S \subseteq X
  <2> HIDE DEF X
  <2> QED
    BY <1>4, SubsetInduction
<1>6. S \in X /\ \A a \in S : S \ {a} \in SUBSET S
  BY <1>5
<1> QED
  BY <1>1, <1>3, <1>6

\* Functions that agree on a set have the same sum over it.
LEMMA SumAgrees ==
  ASSUME NEW S, IsFiniteSet(S), NEW f, NEW g, \A x \in S : f[x] \in Int /\ g[x] = f[x]
  PROVE  SumFunctionOnSet(f, S) = SumFunctionOnSet(g, S)
<1> DEFINE X == {T \in SUBSET S : SumFunctionOnSet(f, T) = SumFunctionOnSet(g, T)}
<1>1. ASSUME NEW T \in SUBSET S, \A a \in T : T \ {a} \in X
      PROVE  T \in X
  <2>1. CASE T = {}
    BY <2>1, SumEmpty
  <2>2. CASE T # {}
    <3>1. PICK a \in T : TRUE
      BY <2>2
    <3>2. IsFiniteSet(T) /\ \A x \in T : f[x] \in Int /\ g[x] \in Int
      BY FS_Subset
    <3>3. /\ SumFunctionOnSet(f, T) = f[a] + SumFunctionOnSet(f, T \ {a})
          /\ SumFunctionOnSet(g, T) = g[a] + SumFunctionOnSet(g, T \ {a})
      BY <3>2, SumSplit
    <3>4. SumFunctionOnSet(f, T \ {a}) = SumFunctionOnSet(g, T \ {a}) /\ f[a] = g[a]
      BY <1>1
    <3> QED
      BY <3>3, <3>4
  <2> QED
    BY <2>1, <2>2
<1>2. SUBSET S \subseteq X
  <2> HIDE DEF X
  <2> QED
    BY <1>1, SubsetInduction
<1>3. S \in X
  BY <1>2
<1> QED
  BY <1>3

\* A sum changes with the one value that changes.
LEMMA SumChanges ==
  ASSUME NEW S, IsFiniteSet(S), NEW f \in [S -> Int], NEW g \in [S -> Int],
         NEW a \in S, \A x \in S \ {a} : g[x] = f[x]
  PROVE  /\ SumFunction(f) \in Int /\ SumFunction(g) \in Int
         /\ SumFunction(g) - SumFunction(f) = g[a] - f[a]
<1> DEFINE rest == SumFunctionOnSet(f, S \ {a})
<1>1. IsFiniteSet(S \ {a}) /\ \A x \in S \ {a} : f[x] \in Int
  BY FS_RemoveElement
<1>2. rest \in Int
  BY <1>1, SumSplit
<1>3. SumFunctionOnSet(g, S \ {a}) = rest
  BY <1>1, SumAgrees
<1>4. /\ SumFunctionOnSet(f, S) = f[a] + rest
      /\ SumFunctionOnSet(g, S) = g[a] + rest
  <2>1. \A x \in S : f[x] \in Int /\ g[x] \in Int
    OBVIOUS
  <2> QED
    BY <1>3, <2>1, SumSplit
<1>5. SumFunction(f) = SumFunctionOnSet(f, S) /\ SumFunction(g) = SumFunctionOnSet(g, S)
  BY DEF SumFunction
<1>6. f[a] \in Int /\ g[a] \in Int
  OBVIOUS
<1> HIDE DEF rest
<1> QED
  BY <1>2, <1>4, <1>5, <1>6

\* A larger set has the larger sum, as long as nothing is negative.
LEMMA SumGrows ==
  ASSUME NEW S, IsFiniteSet(S), NEW f, \A x \in S : f[x] \in Nat, NEW R \in SUBSET S
  PROVE  /\ SumFunctionOnSet(f, R) \in Nat
         /\ SumFunctionOnSet(f, R) <= SumFunctionOnSet(f, S)
<1> DEFINE Sum(T) == SumFunctionOnSet(f, T)
<1>1. \A T \in SUBSET S : IsFiniteSet(T) /\ \A x \in T : f[x] \in Nat /\ f[x] \in Int
  BY FS_Subset
<1>2. \A T \in SUBSET S : Sum(T) \in Int /\ \A a \in T : Sum(T) = f[a] + Sum(T \ {a})
  BY <1>1, SumSplit
<1>3. Sum({}) = 0
  BY SumEmpty
<1> HIDE DEF Sum
<1> DEFINE Grows(T) == Sum(T) \in Nat /\ (R \subseteq T => Sum(R) <= Sum(T))
           X == {T \in SUBSET S : Grows(T)}
<1>4. ASSUME NEW T \in SUBSET S, \A a \in T : T \ {a} \in X
      PROVE  T \in X
  <2>1. CASE T = {}
    <3>1. Sum(T) = 0 /\ (R \subseteq T => Sum(R) = 0)
      BY <1>3, <2>1
    <3> QED
      BY <3>1
  <2>2. CASE T # {}
    <3>1. PICK a \in T : R \subseteq T => a \notin R \/ R = T
      BY <2>2
    <3>2. Sum(T) = f[a] + Sum(T \ {a}) /\ f[a] \in Nat /\ Sum(R) \in Int
      BY <1>1, <1>2
    <3>3. Grows(T \ {a})
      BY <1>4
    <3>4. Sum(T) \in Nat /\ Sum(T \ {a}) <= Sum(T)
      BY <3>2, <3>3
    <3>5. ASSUME R \subseteq T PROVE Sum(R) <= Sum(T)
      <4>1. CASE R = T
        BY <3>4, <4>1
      <4>2. CASE R # T
        <5>1. R \subseteq T \ {a}
          BY <3>1, <3>5, <4>2
        <5>2. Sum(R) <= Sum(T \ {a}) /\ Sum(T \ {a}) \in Nat
          BY <3>3, <5>1
        <5> QED
          BY <3>2, <3>4, <5>2
      <4> QED
        BY <4>1, <4>2
    <3> QED
      BY <3>4, <3>5
  <2> QED
    BY <2>1, <2>2
<1>5. SUBSET S \subseteq X
  <2> HIDE DEF X
  <2> QED
    BY <1>4, SubsetInduction
<1>6. S \in X /\ R \in X
  BY <1>5
<1> QED
  BY <1>6 DEF Sum

-----------------------------------------------------------------------------
(* CurrencyToVoteHandler *)

\* Division by the factor, whatever it is: the quotient and the remainder.
LEMMA DivModInt ==
  ASSUME NEW x \in Int, NEW f \in Nat \ {0}
  PROVE  /\ x \div f \in Int
         /\ x % f \in 0 .. f - 1
         /\ x = f * (x \div f) + (x % f)
  OBVIOUS

\* The same for what is never negative.
LEMMA DivMod ==
  ASSUME NEW x \in Nat, NEW f \in Nat \ {0}
  PROVE  /\ x \div f \in Nat
         /\ x % f \in 0 .. f - 1
         /\ x = f * (x \div f) + (x % f)
  OBVIOUS

\* The factor is positive and the issuance is below one factor more.
LEMMA FactorBounds ==
  ASSUME NEW total \in Int
  PROVE  /\ Factor(total) \in Nat \ {0}
         /\ total < (Factor(total) + 1) * MaxVote
<1> DEFINE quotient == total \div MaxVote
<1>1. /\ quotient \in Int /\ total % MaxVote \in 0 .. MaxVote - 1
      /\ total = MaxVote * quotient + (total % MaxVote)
  BY DivModInt, MaxVoteAssumption
<1>2. Factor(total) = IF quotient > 1 THEN quotient ELSE 1
  BY DEF Factor
<1>3. Factor(total) \in Nat \ {0} /\ quotient <= Factor(total)
  BY <1>1, <1>2
<1>4. MaxVote * quotient <= MaxVote * Factor(total)
  BY <1>1, <1>3, MaxVoteAssumption
<1> QED
  BY <1>1, <1>3, <1>4, MaxVoteAssumption

\* The cast to u64 drops nothing of a stake that is not a majority of the
\* issuance: the votes are the quotient itself.
THEOREM MinorityUncast ==
  ASSUME NEW total \in Int, NEW x \in Nat, 2 * x <= total
  PROVE  ToVote(x, total) = x \div Factor(total)
<1> DEFINE f == Factor(total)
           q == x \div f
<1>1. f \in Nat \ {0} /\ total < (f + 1) * MaxVote
  BY FactorBounds
<1>2. q \in Nat /\ x % f \in 0 .. f - 1 /\ x = f * q + (x % f)
  BY <1>1, DivMod
<1> HIDE DEF f, q
<1>3. q <= MaxVote
  <2>1. SUFFICES ASSUME q >= MaxVote + 1 PROVE FALSE
    BY <1>2, MaxVoteAssumption
  <2>2. f * q >= f * (MaxVote + 1)
    BY <1>1, <1>2, <2>1, MaxVoteAssumption
  <2>3. f * (MaxVote + 1) = f * MaxVote + f
    BY <1>1, MaxVoteAssumption
  <2>4. (f + 1) * MaxVote = f * MaxVote + MaxVote
    BY <1>1, MaxVoteAssumption
  <2>5. f * MaxVote >= MaxVote
    BY <1>1, MaxVoteAssumption
  <2>6. f * MaxVote \in Nat /\ f * q \in Nat
    BY <1>1, <1>2, MaxVoteAssumption
  <2> QED
    BY <1>1, <1>2, <2>2, <2>3, <2>4, <2>5, <2>6, MaxVoteAssumption
<1>4. q % (MaxVote + 1) = q
  BY <1>2, <1>3, MaxVoteAssumption
<1> QED
  BY <1>4 DEF ToVote, f, q

\* Votes turned back into a balance never exceed the stake, whatever the cast
\* does, and a stake that is not a majority loses less than the factor.
THEOREM RoundTrip ==
  ASSUME NEW total \in Int, NEW x \in Nat
  PROVE  LET back == ToBalance(ToVote(x, total), total)
         IN  /\ ToVote(x, total) \in 0 .. MaxVote
             /\ back \in Nat /\ back <= x
             /\ 2 * x <= total => x - back < Factor(total)
<1> DEFINE f == Factor(total)
           q == x \div f
           v == ToVote(x, total)
<1>1. f \in Nat \ {0}
  BY FactorBounds
<1>2. q \in Nat /\ x % f \in 0 .. f - 1 /\ x = f * q + (x % f)
  BY <1>1, DivMod
<1>3. v = q % (MaxVote + 1)
  BY DEF ToVote
<1>4. 2 * x <= total => v = q
  BY MinorityUncast
<1>5. ToBalance(v, total) = v * f
  BY DEF ToBalance
<1> HIDE DEF f, q, v
<1>6. v \in 0 .. MaxVote /\ v <= q
  <2> DEFINE m == MaxVote + 1
  <2>1. m \in Nat \ {0} /\ v = q % m
    BY <1>3, MaxVoteAssumption
  <2> HIDE DEF m
  <2>2. /\ q \div m \in Nat /\ q % m \in 0 .. m - 1
        /\ q = m * (q \div m) + (q % m)
    BY <1>2, <2>1, DivMod
  <2>3. m * (q \div m) \in Nat
    BY <2>1, <2>2
  <2>4. v \in 0 .. m - 1 /\ v <= q
    BY <1>2, <2>1, <2>2, <2>3
  <2> QED
    BY <2>4, MaxVoteAssumption DEF m
<1>7. v * f \in Nat /\ v * f <= f * q /\ f * q \in Nat
  BY <1>1, <1>2, <1>6, MaxVoteAssumption
<1>8. v * f <= x
  BY <1>2, <1>7
<1>9. ASSUME 2 * x <= total PROVE x - v * f < f
  BY <1>1, <1>2, <1>4, <1>9
<1> QED
  BY <1>5, <1>6, <1>7, <1>8, <1>9 DEF v, f

\* Votes rank stakes: one that is not a majority gets more votes than another
\* as soon as it is a factor larger.
THEOREM RankKept ==
  ASSUME NEW total \in Int, NEW w \in Nat, NEW l \in Nat,
         2 * l <= total, ToVote(w, total) >= ToVote(l, total)
  PROVE  l - w < Factor(total)
<1> DEFINE f  == Factor(total)
           vw == ToVote(w, total)
           vl == ToVote(l, total)
<1>1. f \in Nat \ {0}
  BY FactorBounds
<1>2. vw \in Nat /\ vw * f <= w /\ vl \in Nat /\ l - vl * f < f
  BY RoundTrip, MaxVoteAssumption DEF ToBalance
<1> HIDE DEF f, vw, vl
<1>3. vl <= vw
  BY <1>2 DEF vw, vl
<1>4. vl * f <= vw * f /\ vl * f \in Nat /\ vw * f \in Nat
  BY <1>1, <1>2, <1>3
<1> QED
  BY <1>1, <1>2, <1>4 DEF f

-----------------------------------------------------------------------------
(* Fees *)

\* The coefficient of the weight vanishes, so no weight costs anything.
LEMMA WeightIsFree ==
  ASSUME NEW weight \in Nat
  PROVE  WeightFee(weight) = 0
<1> DEFINE p == U_MITO
           q == MITO * ExtrinsicBaseWeight
<1>1. p \in Nat \ {0} /\ q \in Nat \ {0} /\ Billion \in Nat \ {0} /\ p * Billion < q
  BY FeesAssumption
<1>2. Polynomial = [coeffFrac |-> ((p % q) * Billion) \div q, coeffInteger |-> p \div q]
  BY DEF Polynomial, FromRational
<1> HIDE DEF p, q
<1>3. p <= p * Billion /\ p * Billion \in Nat
  BY <1>1
<1>4. p < q
  BY <1>1, <1>3
<1>5. p \div q = 0 /\ p % q = p
  BY <1>1, <1>4
<1>6. (p * Billion) \div q = 0
  BY <1>1, <1>3
<1>7. Polynomial.coeffFrac = 0 /\ Polynomial.coeffInteger = 0
  BY <1>2, <1>5, <1>6
<1>8. weight * 0 = 0 /\ 0 \div Billion = 0
  BY <1>1
<1> QED
  BY <1>7, <1>8 DEF WeightFee

\* A transaction costs its length.
LEMMA FeeIsLength ==
  ASSUME NEW length \in Nat, NEW weight \in Nat, NEW m \in Nat
  PROVE  Fee(length, weight, m) = U_MITO * length /\ U_MITO * length \in Nat
<1>1. WeightFee(weight) = 0 /\ WeightFee(ExtrinsicBaseWeight) = 0
  BY WeightIsFree, FeesAssumption
<1>2. (m * 0) \div One = 0 /\ 1 * U_MITO = U_MITO /\ U_MITO * length \in Nat
  BY FeesAssumption
<1> QED
  BY <1>1, <1>2 DEF Fee, TransactionByteFee

-----------------------------------------------------------------------------
(* The invariant *)

\* The fees that were charged are what the lengths cost.
FeesByLength == \A c \in charged : c.fee = U_MITO * c.length

Typed ==
  /\ genesis \in Genesises
  /\ free \in [Accounts -> Int]
  /\ bonded \in [Accounts -> Nat]
  /\ issuance \in Int
  /\ multiplier \in Nat
  /\ era \in [issuance : Int, stake : [Accounts -> Nat], votes : [Accounts -> Nat],
              winners : SUBSET Accounts, exposure : [Accounts -> Nat]]

IInv ==
  /\ Typed
  /\ StakeBacked
  /\ ExposureFaithful
  /\ ElectedByStake
  /\ FeesByLength

\* The least of three numbers.
LEMMA LeastOfThree ==
  ASSUME NEW x \in Int, NEW y \in Int, NEW z \in Int
  PROVE  /\ Min({x, y, z}) \in {x, y, z}
         /\ Min({x, y, z}) <= x /\ Min({x, y, z}) <= y /\ Min({x, y, z}) <= z
<1>1. \E m \in {x, y, z} : \A n \in {x, y, z} : m <= n
  <2>1. CASE x <= y /\ x <= z
    BY <2>1
  <2>2. CASE y <= x /\ y <= z
    BY <2>2
  <2>3. CASE z <= x /\ z <= y
    BY <2>3
  <2> QED
    BY <2>1, <2>2, <2>3
<1> QED
  BY <1>1 DEF Min

\* An account that is settled keeps what it had, or nothing.
LEMMA SettledBounds ==
  ASSUME NEW b \in Int
  PROVE  /\ Settled(b) \in Int
         /\ b >= ExistentialDeposit => Settled(b) = b
         /\ b >= 0 => Settled(b) >= 0
  BY EconomyAssumption DEF Settled

\* Settling takes nothing that is not there: there is no negative dust.
LEMMA SettledAtMost ==
  ASSUME NEW b \in Int, b >= 0
  PROVE  Settled(b) \in Int /\ Settled(b) <= b
  BY EconomyAssumption DEF Settled

-----------------------------------------------------------------------------
(* One lemma per action *)

LEMMA ChargeStep ==
  ASSUME IInv, NEW a \in Accounts, NEW length \in Lengths, NEW weight \in Weights,
         Charge(a, length, weight)
  PROVE  IInv'
<1> DEFINE fee == Fee(length, weight, multiplier)
<1>1. length \in Nat /\ weight \in Nat /\ multiplier \in Nat
  BY EconomyAssumption DEF IInv, Typed
<1>2. fee = U_MITO * length /\ fee \in Nat
  BY <1>1, FeeIsLength
<1>3. /\ fee <= free[a] - bonded[a]
      /\ free' = [free EXCEPT ![a] = @ - fee]
      /\ issuance' = issuance - fee
      /\ charged' = charged \cup {[length |-> length, fee |-> fee]}
      /\ UNCHANGED <<genesis, bonded, multiplier, era>>
  BY DEF Charge, Liquid
<1> HIDE DEF fee
<1>4. Typed' /\ StakeBacked'
  BY <1>2, <1>3 DEF IInv, Typed, StakeBacked
<1>5. ExposureFaithful' /\ ElectedByStake'
  BY <1>3 DEF IInv, ExposureFaithful, ElectedByStake, Majority
<1>6. FeesByLength'
  BY <1>2, <1>3 DEF IInv, FeesByLength
<1> QED
  BY <1>4, <1>5, <1>6 DEF IInv

LEMMA TransferStep ==
  ASSUME IInv, NEW a \in Accounts, NEW b \in Accounts, NEW amount \in Amounts,
         Transfer(a, b, amount)
  PROVE  IInv'
<1> DEFINE rest == free[a] - amount
<1>1. amount \in Nat /\ free[a] \in Int /\ bonded[a] \in Nat /\ rest \in Int
  BY EconomyAssumption DEF IInv, Typed
<1>2. /\ a # b /\ amount <= free[a] - bonded[a]
      /\ rest >= ExistentialDeposit \/ bonded[a] = 0
      /\ free' = [free EXCEPT ![a] = Settled(rest), ![b] = @ + amount]
      /\ issuance' = issuance - (rest - Settled(rest))
      /\ UNCHANGED <<genesis, bonded, multiplier, era, charged>>
  BY DEF Transfer, Liquid, Dust
<1>3. rest >= bonded[a]
  BY <1>1, <1>2
<1> HIDE DEF rest
<1>4. Settled(rest) \in Int /\ bonded[a] <= Settled(rest)
  BY <1>1, <1>2, <1>3, SettledBounds
<1>5. Typed' /\ StakeBacked'
  BY <1>1, <1>2, <1>4 DEF IInv, Typed, StakeBacked
<1>6. ExposureFaithful' /\ ElectedByStake' /\ FeesByLength'
  BY <1>2 DEF IInv, ExposureFaithful, ElectedByStake, Majority, FeesByLength
<1> QED
  BY <1>5, <1>6 DEF IInv

LEMMA AdjustStep ==
  ASSUME IInv, NEW m \in Multipliers, AdjustMultiplier(m)
  PROVE  IInv'
  BY EconomyAssumption DEF AdjustMultiplier, IInv, Typed, StakeBacked, ExposureFaithful,
     ElectedByStake, Majority, FeesByLength

LEMMA BondStep ==
  ASSUME IInv, NEW a \in Accounts, NEW amount, Bond(a, amount)
  PROVE  IInv'
<1>1. free[a] \in Int /\ bonded[a] \in Nat /\ bonded[a] <= free[a]
  BY DEF IInv, Typed, StakeBacked
<1>2. /\ amount \in {0} \cup ExistentialDeposit .. free[a]
      /\ bonded' = [bonded EXCEPT ![a] = amount]
      /\ UNCHANGED <<genesis, free, issuance, multiplier, era, charged>>
  BY DEF Bond
<1>3. amount \in Nat /\ amount <= free[a]
  BY <1>1, <1>2, EconomyAssumption
<1>4. Typed' /\ StakeBacked'
  BY <1>2, <1>3 DEF IInv, Typed, StakeBacked
<1>5. ExposureFaithful' /\ ElectedByStake' /\ FeesByLength'
  BY <1>2 DEF IInv, ExposureFaithful, ElectedByStake, Majority, FeesByLength
<1> QED
  BY <1>4, <1>5 DEF IInv

LEMMA RewardStep ==
  ASSUME IInv, NEW a \in Accounts, NEW amount \in Amounts, Reward(a, amount)
  PROVE  IInv'
<1>1. amount \in Nat
  BY EconomyAssumption
<1>2. /\ free' = [free EXCEPT ![a] = @ + amount]
      /\ issuance' = issuance + amount
      /\ UNCHANGED <<genesis, bonded, multiplier, era, charged>>
  BY DEF Reward
<1>3. Typed' /\ StakeBacked'
  BY <1>1, <1>2 DEF IInv, Typed, StakeBacked
<1>4. ExposureFaithful' /\ ElectedByStake' /\ FeesByLength'
  BY <1>2 DEF IInv, ExposureFaithful, ElectedByStake, Majority, FeesByLength
<1> QED
  BY <1>3, <1>4 DEF IInv

LEMMA SlashStep ==
  ASSUME IInv, NEW a \in Accounts, NEW reporter \in Accounts, NEW amount \in Amounts,
         NEW paid \in Nat, SlashValidator(a, amount, reporter, paid)
  PROVE  IInv'
<1> DEFINE most  == Min({amount, era.exposure[a], bonded[a]})
           slash == IF bonded[a] - most <= ExistentialDeposit THEN bonded[a] ELSE most
           rest  == free[a] - slash
<1>1. /\ amount \in Nat /\ free[a] \in Int /\ bonded[a] \in Nat /\ era.exposure[a] \in Nat
      /\ bonded[a] <= free[a] /\ ExistentialDeposit \in Nat
  BY EconomyAssumption DEF IInv, Typed, StakeBacked
<1>2. most \in Nat /\ most <= bonded[a]
  <2>1. amount \in Int /\ era.exposure[a] \in Int /\ bonded[a] \in Int
    BY <1>1
  <2>2. most \in {amount, era.exposure[a], bonded[a]} /\ most <= bonded[a]
    BY <2>1, LeastOfThree
  <2> HIDE DEF most
  <2> QED
    BY <1>1, <2>2
<1>3. /\ reporter # a
      /\ free' = [free EXCEPT ![a] = Settled(rest), ![reporter] = @ + paid]
      /\ bonded' = [bonded EXCEPT ![a] = @ - slash]
      /\ issuance' = issuance - (slash - paid) - (rest - Settled(rest))
      /\ UNCHANGED <<genesis, multiplier, era, charged>>
  BY DEF SlashValidator, Dust
<1> HIDE DEF most
<1>4. /\ slash \in Nat /\ slash <= bonded[a] /\ rest \in Int /\ rest >= bonded[a] - slash
      /\ bonded[a] - slash = 0 \/ bonded[a] - slash > ExistentialDeposit
  BY <1>1, <1>2
<1> HIDE DEF slash, rest
<1>5. Settled(rest) \in Int /\ bonded[a] - slash <= Settled(rest)
  BY <1>1, <1>4, SettledBounds
<1>6. Typed' /\ StakeBacked'
  BY <1>1, <1>3, <1>4, <1>5 DEF IInv, Typed, StakeBacked
<1>7. ExposureFaithful' /\ ElectedByStake' /\ FeesByLength'
  BY <1>3 DEF IInv, ExposureFaithful, ElectedByStake, Majority, FeesByLength
<1> QED
  BY <1>6, <1>7 DEF IInv

LEMMA ElectStep ==
  ASSUME IInv, NEW winners \in SUBSET Accounts, Elect(winners)
  PROVE  IInv'
<1> DEFINE votes    == [a \in Accounts |-> ToVote(bonded[a], issuance)]
           exposure == [a \in Accounts |-> IF a \in winners
                                           THEN ToBalance(votes[a], issuance) ELSE 0]
<1>1. /\ winners \subseteq {a \in Accounts : bonded[a] > 0}
      /\ \A w \in winners, l \in {a \in Accounts : bonded[a] > 0} \ winners :
            votes[w] >= votes[l]
      /\ era' = [issuance |-> issuance, stake |-> bonded, votes |-> votes,
                 winners |-> winners, exposure |-> exposure]
      /\ UNCHANGED <<genesis, free, bonded, issuance, multiplier, charged>>
  BY DEF Elect
<1>2. issuance \in Int /\ \A a \in Accounts : bonded[a] \in Nat
  BY DEF IInv, Typed
<1>3. Factor(issuance) \in Nat \ {0}
  BY <1>2, FactorBounds
<1>4. \A a \in Accounts : votes[a] = ToVote(bonded[a], issuance) /\ votes[a] \in Nat
  <2>1. SUFFICES ASSUME NEW a \in Accounts PROVE ToVote(bonded[a], issuance) \in Nat
    OBVIOUS
  <2>2. ToVote(bonded[a], issuance) \in 0 .. MaxVote
    BY <1>2, RoundTrip
  <2> QED
    BY <2>2, MaxVoteAssumption
<1>5. \A a \in winners : exposure[a] = ToBalance(votes[a], issuance)
  OBVIOUS
<1>6. \A a \in Accounts : ToBalance(ToVote(bonded[a], issuance), issuance) \in Nat
  BY <1>2, RoundTrip
<1>7. exposure \in [Accounts -> Nat] /\ votes \in [Accounts -> Nat]
  BY <1>4, <1>6
<1> HIDE DEF votes, exposure
<1>8. Typed' /\ StakeBacked' /\ FeesByLength'
  BY <1>1, <1>7 DEF IInv, Typed, StakeBacked, FeesByLength
<1>9. ExposureFaithful'
  <2>1. SUFFICES ASSUME NEW a \in winners
                 PROVE  /\ exposure[a] <= bonded[a]
                        /\ 2 * bonded[a] <= issuance => bonded[a] - exposure[a] < Factor(issuance)
    BY <1>1, <1>2 DEF ExposureFaithful, Majority
  <2>2. a \in Accounts /\ exposure[a] = ToBalance(ToVote(bonded[a], issuance), issuance)
    BY <1>4, <1>5
  <2> QED
    BY <1>2, <2>2, RoundTrip
<1>10. ElectedByStake'
  <2>1. SUFFICES ASSUME NEW w \in winners, NEW l \in Accounts \ winners,
                        2 * bonded[l] <= issuance
                 PROVE  bonded[l] - bonded[w] < Factor(issuance)
    BY <1>1, <1>2 DEF ElectedByStake, Majority
  <2>2. w \in Accounts /\ bonded[w] \in Nat /\ bonded[l] \in Nat
    BY <1>2
  <2>3. CASE bonded[l] > 0
    <3>1. ToVote(bonded[w], issuance) >= ToVote(bonded[l], issuance)
      BY <1>1, <1>4, <2>2, <2>3
    <3> QED
      BY <1>2, <2>1, <2>2, <3>1, RankKept
  <2>4. CASE bonded[l] = 0
    BY <1>3, <2>2, <2>4
  <2> QED
    BY <2>2, <2>3, <2>4
<1> QED
  BY <1>8, <1>9, <1>10 DEF IInv

-----------------------------------------------------------------------------
(* The genesis *)

\* A set of numbers up to a bound has a greatest one: the least distance from
\* the bound.
LEMMA Greatest ==
  ASSUME NEW n \in Nat, NEW T, T \subseteq 1 .. n, T # {}
  PROVE  Max(T) \in T /\ \A i \in T : Max(T) >= i
<1> DEFINE D == {n - i : i \in T}
<1>1. D \subseteq Nat /\ D # {}
  <2>1. PICK t \in T : TRUE
    OBVIOUS
  <2>2. n - t \in D
    OBVIOUS
  <2>3. \A i \in T : n - i \in Nat
    OBVIOUS
  <2> QED
    BY <2>2, <2>3
<1>2. PICK d \in D : \A e \in D : ~(<<e, d>> \in OpToRel(<, Nat))
  BY <1>1, WFMin, NatLessThanWellFounded
<1>3. \A e \in D : d <= e
  <2>1. TAKE e \in D
  <2>2. d \in Nat /\ e \in Nat
    BY <1>1
  <2>3. e < d => <<e, d>> \in OpToRel(<, Nat)
    BY <2>2, Zenon DEF OpToRel
  <2>4. ~(e < d)
    BY <1>2, <2>3, Zenon
  <2> QED
    BY <2>2, <2>4
<1>4. PICK m \in T : d = n - m
  OBVIOUS
<1>5. \A i \in T : m >= i
  <2>1. TAKE i \in T
  <2>2. n - i \in D
    OBVIOUS
  <2>3. n - m <= n - i
    BY <1>3, <1>4, <2>2
  <2> QED
    BY <1>4, <2>3
<1> QED
  BY <1>4, <1>5 DEF Max

\* The accounts endowed by default are accounts.
LEMMA EndowedByDefault == DefaultEndowed \in Seq(Accounts)
<1> DEFINE A == [i \in DOMAIN Seeds |-> AccountId(Seeds[i])]
           S == [i \in DOMAIN Seeds |-> Stash(Seeds[i])]
<1>1. Seeds \in Seq(STRING) /\ Len(Seeds) \in Nat
  BY GenesisAssumption
<1>2. A \in Seq(Range(A)) /\ S \in Seq(Range(S))
  BY <1>1 DEF Range
<1>3. DefaultEndowed = A \o S
  BY DEF DefaultEndowed
<1> HIDE DEF A, S
<1>4. DefaultEndowed \in Seq(Range(A) \cup Range(S))
  BY <1>2, <1>3
<1> QED
  BY <1>4 DEF Accounts, ToSet

\* The balances of a genesis: endowments, and the stake of the one stash last.
LEMMA BalancesShape ==
  ASSUME NEW g \in Genesises
  PROVE  /\ \E n \in Nat :
              /\ DOMAIN g.balances = 1 .. n + 1
              /\ \A i \in 1 .. n : /\ g.balances[i].who \in Accounts
                                   /\ g.balances[i].free = ENDOWMENT
              /\ g.balances[n + 1] = [who |-> Stash(Seeds[1]), free |-> STAKE]
         /\ DOMAIN g.stakers = {1} /\ g.stakers[1].stash = Stash(Seeds[1])
<1>1. PICK e \in EndowedLists : g = DevelopmentGenesis(e)
  BY DEF Genesises
<1> DEFINE s  == Stash(Seeds[1])
           E  == IF e = << >> THEN DefaultEndowed ELSE e[1]
           ks == AuthorityKeysFromSeed(Seeds[1])
           as == <<ks>>
<1>2. Seeds \in Seq(STRING) /\ Len(Seeds) \in Nat
  BY GenesisAssumption
<1>3. ks.stash = s
  BY DEF AuthorityKeysFromSeed
<1>4. /\ g.balances = Balances(as, E)
      /\ g.stakers = [i \in DOMAIN as |-> [stash |-> as[i].stash, bonded |-> STAKE]]
  BY <1>1 DEF DevelopmentGenesis, TestnetGenesis
<1>5. DOMAIN as = {1} /\ as[1] = ks /\ Len(as) = 1
  OBVIOUS
<1> HIDE DEF ks, as, s
<1>6. DefaultEndowed \in Seq(Accounts)
  BY EndowedByDefault
<1>7. E \in Seq(Accounts)
  <2>1. e \in Seq(Seq(Accounts)) /\ Len(e) <= 1
    BY EconomyAssumption
  <2>2. e # << >> => e[1] \in Seq(Accounts)
    BY <2>1
  <2> QED
    BY <1>6, <2>2
<1> HIDE DEF E
<1> DEFINE X == Entries(E, ENDOWMENT)
           Y == Entries(Stashes(as), STAKE)
           n == Len(E)
           U == [who : Accounts \cup {s}, free : {ENDOWMENT, STAKE}]
<1>8. /\ X \in Seq(U) /\ Len(X) = n /\ n \in Nat
      /\ \A i \in 1 .. n : X[i].who \in Accounts /\ X[i].free = ENDOWMENT
  <2>1. n \in Nat /\ DOMAIN E = 1 .. n /\ \A i \in 1 .. n : E[i] \in Accounts
    BY <1>7
  <2>2. X = [i \in 1 .. n |-> [who |-> E[i], free |-> ENDOWMENT]]
    BY <2>1 DEF Entries
  <2>3. \A i \in 1 .. n : [who |-> E[i], free |-> ENDOWMENT] \in U
    BY <2>1
  <2> HIDE DEF X, n, U
  <2> QED
    BY <2>1, <2>2, <2>3
<1>9. Stashes(as) = [i \in {1} |-> s]
  BY <1>3, <1>5 DEF Stashes
<1>10. Y = [i \in {1} |-> [who |-> s, free |-> STAKE]]
  BY <1>9 DEF Entries
<1>11. Y \in Seq(U) /\ Len(Y) = 1 /\ Y[1] = [who |-> s, free |-> STAKE]
  <2>1. {1} = 1 .. 1
    OBVIOUS
  <2>2. Y = [i \in 1 .. 1 |-> [who |-> s, free |-> STAKE]]
    BY <1>10, <2>1
  <2>3. [who |-> s, free |-> STAKE] \in U
    OBVIOUS
  <2> HIDE DEF Y, U
  <2> QED
    BY <2>2, <2>3
<1>12. g.balances = X \o Y
  BY <1>4 DEF Balances
<1> HIDE DEF X, Y, n, U
<1>13. /\ DOMAIN (X \o Y) = 1 .. n + 1
       /\ \A i \in 1 .. n : (X \o Y)[i] = X[i]
       /\ (X \o Y)[n + 1] = Y[1]
  <2>1. /\ X \o Y \in Seq(U) /\ Len(X \o Y) = Len(X) + Len(Y)
        /\ \A i \in 1 .. Len(X) + Len(Y) :
              (X \o Y)[i] = IF i <= Len(X) THEN X[i] ELSE Y[i - Len(X)]
    <3>1. X \in Seq(U) /\ Y \in Seq(U)
      BY <1>8, <1>11
    <3> QED
      BY <3>1, ConcatProperties, Zenon
  <2>2. DOMAIN (X \o Y) = 1 .. n + 1
    BY <1>8, <1>11, <2>1
  <2>3. (n + 1) - n = 1 /\ n + 1 \in 1 .. n + 1 /\ ~(n + 1 <= n)
    BY <1>8
  <2>4. (X \o Y)[n + 1] = Y[1]
    BY <1>8, <1>11, <2>1, <2>3
  <2>5. \A i \in 1 .. n : (X \o Y)[i] = X[i]
    BY <1>8, <1>11, <2>1
  <2> QED
    BY <2>2, <2>4, <2>5
<1>14. DOMAIN g.stakers = {1} /\ g.stakers[1].stash = s
  <2>1. g.stakers = [i \in {1} |-> [stash |-> as[i].stash, bonded |-> STAKE]]
    BY <1>4, <1>5
  <2>2. g.stakers[1] = [stash |-> ks.stash, bonded |-> STAKE]
    BY <1>5, <2>1
  <2> QED
    BY <1>3, <2>1, <2>2
<1> QED
  BY <1>8, <1>11, <1>12, <1>13, <1>14 DEF s

\* There are finitely many accounts.
LEMMA AccountsFinite == IsFiniteSet(Accounts)
<1>1. DefaultEndowed \in Seq(Accounts)
  BY EndowedByDefault
<1>2. /\ Len(DefaultEndowed) \in Nat
      /\ DefaultEndowed \in [1 .. Len(DefaultEndowed) -> Accounts]
      /\ DOMAIN DefaultEndowed = 1 .. Len(DefaultEndowed)
  BY <1>1
<1>3. DefaultEndowed \in Surjection(1 .. Len(DefaultEndowed), Accounts)
  BY <1>2 DEF Accounts, ToSet, Surjection
<1>4. IsFiniteSet(1 .. Len(DefaultEndowed))
  BY <1>2, FS_Interval
<1> QED
  BY <1>3, <1>4, FS_Surjection

\* What an account owns at the genesis is what one of its entries says.
LEMMA ListedOnce ==
  ASSUME NEW g \in Genesises, NEW a \in Accounts
  PROVE  LET at == {i \in DOMAIN g.balances : g.balances[i].who = a}
         IN  /\ at = {} => GenesisFree(g)[a] = 0
             /\ at # {} => \E i \in at : GenesisFree(g)[a] = g.balances[i].free
<1> DEFINE at == {i \in DOMAIN g.balances : g.balances[i].who = a}
<1>1. GenesisFree(g)[a] = IF at = {} THEN 0 ELSE g.balances[Max(at)].free
  BY DEF GenesisFree, Listed
<1>2. PICK n \in Nat : DOMAIN g.balances = 1 .. n + 1
  BY BalancesShape
<1>3. at \subseteq 1 .. n + 1 /\ n + 1 \in Nat
  BY <1>2
<1>4. at # {} => Max(at) \in at
  <2> HIDE DEF at
  <2> QED
    BY <1>3, Greatest
<1> HIDE DEF at
<1>5. /\ at = {} => GenesisFree(g)[a] = 0
      /\ at # {} => \E i \in at : GenesisFree(g)[a] = g.balances[i].free
  BY <1>1, <1>4
<1> QED
  BY <1>5 DEF at

\* The genesis issues at least what it gives away: an entry of the list counts
\* whether it stands or is overwritten.
LEMMA GenesisCovers ==
  ASSUME NEW g \in Genesises
  PROVE  /\ GenesisIssuance(g) \in Nat
         /\ GenesisFree(g) \in [Accounts -> Nat]
         /\ SumFunction(GenesisFree(g)) \in Nat
         /\ SumFunction(GenesisFree(g)) <= GenesisIssuance(g)
<1> DEFINE D     == DOMAIN g.balances
           who   == [i \in D |-> g.balances[i].who]
           value == [i \in D |-> g.balances[i].free]
           owned == GenesisFree(g)
           Of(A) == {i \in D : who[i] \in A}
           Issued(I) == SumFunctionOnSet(value, I)
           Owned(A)  == SumFunctionOnSet(owned, A)
<1>1. IsFiniteSet(D) /\ \A i \in D : value[i] \in Nat
  <2>1. PICK n \in Nat :
          /\ D = 1 .. n + 1
          /\ \A i \in 1 .. n : g.balances[i].free = ENDOWMENT
          /\ g.balances[n + 1] = [who |-> Stash(Seeds[1]), free |-> STAKE]
    BY BalancesShape
  <2>2. IsFiniteSet(1 .. n + 1)
    BY FS_Interval
  <2>3. \A i \in 1 .. n + 1 : g.balances[i].free \in Nat
    BY <2>1, GenesisAssumption
  <2> QED
    BY <2>1, <2>2, <2>3
<1>2. /\ DOMAIN owned = Accounts
      /\ \A a \in Accounts : Of({a}) = {} => owned[a] = 0
      /\ \A a \in Accounts : Of({a}) # {} => \E i \in Of({a}) : owned[a] = value[i]
  <2>1. DOMAIN owned = Accounts
    BY DEF GenesisFree
  <2>2. ASSUME NEW a \in Accounts
        PROVE  /\ Of({a}) = {} => owned[a] = 0
               /\ Of({a}) # {} => \E i \in Of({a}) : owned[a] = value[i]
    <3>1. Of({a}) = {i \in DOMAIN g.balances : g.balances[i].who = a}
      OBVIOUS
    <3>2. /\ Of({a}) = {} => owned[a] = 0
          /\ Of({a}) # {} => \E i \in Of({a}) : owned[a] = g.balances[i].free
      BY <3>1, ListedOnce
    <3> QED
      BY <3>2
  <2> QED
    BY <2>1, <2>2
<1>3. GenesisIssuance(g) = Issued(D) /\ SumFunction(owned) = Owned(Accounts)
  BY <1>2 DEF GenesisIssuance, SumFunction
<1>4. owned = [a \in Accounts |-> owned[a]]
  BY DEF GenesisFree
<1> HIDE DEF D, who, value, owned
<1>5. \A a \in Accounts : owned[a] \in Nat
  BY <1>1, <1>2
<1>6. \A I \in SUBSET D : \A J \in SUBSET I : Issued(J) \in Nat /\ Issued(J) <= Issued(I)
  <2>1. SUFFICES ASSUME NEW I \in SUBSET D, NEW J \in SUBSET I
                 PROVE  Issued(J) \in Nat /\ Issued(J) <= Issued(I)
    OBVIOUS
  <2>2. IsFiniteSet(I) /\ \A i \in I : value[i] \in Nat
    BY <1>1, FS_Subset
  <2> QED
    BY <2>2, SumGrows
<1>7. \A I \in SUBSET D : \A i \in I : Issued(I) = value[i] + Issued(I \ {i})
  <2>1. SUFFICES ASSUME NEW I \in SUBSET D
                 PROVE  \A i \in I : Issued(I) = value[i] + Issued(I \ {i})
    OBVIOUS
  <2>2. IsFiniteSet(I) /\ \A i \in I : value[i] \in Int
    BY <1>1, FS_Subset
  <2> QED
    BY <2>2, SumSplit
<1>8. \A A \in SUBSET Accounts : /\ Owned(A) \in Nat
                                 /\ \A a \in A : Owned(A) = owned[a] + Owned(A \ {a})
  <2>1. TAKE A \in SUBSET Accounts
  <2>2. IsFiniteSet(A) /\ \A a \in A : owned[a] \in Nat /\ owned[a] \in Int
    BY <1>5, AccountsFinite, FS_Subset
  <2>3. Owned(A) \in Nat
    BY <2>2, SumGrows
  <2>4. \A a \in A : Owned(A) = owned[a] + Owned(A \ {a})
    BY <2>2, SumSplit
  <2> QED
    BY <2>3, <2>4
<1>9. Owned({}) = 0
  BY SumEmpty
<1> HIDE DEF Issued, Owned
<1> DEFINE Covered(A) == Owned(A) <= Issued(Of(A))
           X == {A \in SUBSET Accounts : Covered(A)}
<1>10. ASSUME NEW A \in SUBSET Accounts, \A a \in A : A \ {a} \in X
       PROVE  A \in X
  <2> DEFINE I == Of(A)
  <2>1. I \in SUBSET D /\ Issued(I) \in Nat
    BY <1>6
  <2>2. CASE A = {}
    <3>1. Owned(A) = 0
      BY <1>9, <2>2
    <3> HIDE DEF I
    <3>2. Owned(A) <= Issued(I)
      BY <2>1, <3>1
    <3> QED
      BY <3>2 DEF I
  <2>3. CASE A # {}
    <3>1. PICK a \in A : TRUE
      BY <2>3
    <3> DEFINE J == Of(A \ {a})
    <3>2. Owned(A) = owned[a] + Owned(A \ {a}) /\ owned[a] \in Nat
      BY <1>5, <1>8
    <3>3. Owned(A \ {a}) \in Nat /\ Owned(A \ {a}) <= Issued(J)
      <4>1. A \ {a} \in SUBSET Accounts /\ A \ {a} \in X
        BY <1>10
      <4> QED
        BY <1>8, <4>1
    <3>4. J \in SUBSET I /\ Issued(J) \in Nat /\ Issued(J) <= Issued(I)
      <4>1. J \in SUBSET I
        OBVIOUS
      <4> HIDE DEF I, J
      <4> QED
        BY <1>6, <2>1, <4>1
    <3>5. owned[a] + Issued(J) <= Issued(I)
      <4>1. CASE Of({a}) = {}
        <5>1. owned[a] = 0
          BY <1>2, <4>1
        <5> HIDE DEF I, J
        <5> QED
          BY <2>1, <3>4, <5>1
      <4>2. CASE Of({a}) # {}
        <5>1. PICK i \in Of({a}) : owned[a] = value[i]
          BY <1>2, <4>2
        <5>2. i \in I /\ i \notin J /\ J \subseteq I \ {i}
          BY <5>1
        <5> HIDE DEF I, J
        <5>3. Issued(I) = value[i] + Issued(I \ {i})
          BY <1>7, <2>1, <5>2
        <5>4. I \ {i} \in SUBSET D /\ J \in SUBSET (I \ {i})
          BY <2>1, <5>2
        <5>5. Issued(J) <= Issued(I \ {i}) /\ Issued(I \ {i}) \in Nat
          BY <1>6, <5>4
        <5> QED
          BY <3>2, <3>4, <5>1, <5>3, <5>5
      <4> QED
        BY <4>1, <4>2
    <3> HIDE DEF I, J
    <3>6. Owned(A) <= Issued(I)
      BY <2>1, <3>2, <3>3, <3>4, <3>5
    <3> QED
      BY <3>6 DEF I
  <2> QED
    BY <2>2, <2>3
<1>11. SUBSET Accounts \subseteq X
  <2> HIDE DEF X
  <2> QED
    BY <1>10, AccountsFinite, SubsetInduction
<1>12. Owned(Accounts) <= Issued(Of(Accounts))
  BY <1>11
<1>13. Of(Accounts) \in SUBSET D
  OBVIOUS
<1> HIDE DEF Of
<1>14. Issued(Of(Accounts)) <= Issued(D) /\ Issued(D) \in Nat /\ Issued(Of(Accounts)) \in Nat
  BY <1>6, <1>13
<1>15. Owned(Accounts) <= Issued(D) /\ Owned(Accounts) \in Nat
  BY <1>8, <1>12, <1>14
<1>16. owned \in [Accounts -> Nat]
  BY <1>4, <1>5
<1> QED
  BY <1>3, <1>14, <1>15, <1>16 DEF owned

\* The stash that is staked at the genesis is an account, and owns its stake: the
\* entry that says so is the last.
LEMMA StashOwnsStake ==
  ASSUME NEW g \in Genesises
  PROVE  Stash(Seeds[1]) \in Accounts /\ GenesisFree(g)[Stash(Seeds[1])] = STAKE
<1> DEFINE s  == Stash(Seeds[1])
           b  == g.balances
           at == {i \in DOMAIN b : b[i].who = s}
<1>1. s \in Accounts
  <2> DEFINE A == [i \in DOMAIN Seeds |-> AccountId(Seeds[i])]
             S == [i \in DOMAIN Seeds |-> Stash(Seeds[i])]
             l == Len(Seeds)
  <2>1. l \in Nat /\ l > 0 /\ DOMAIN Seeds = 1 .. l
    BY GenesisAssumption
  <2>2. A = [i \in 1 .. l |-> A[i]] /\ S = [i \in 1 .. l |-> S[i]] /\ S[1] = s
    BY <2>1
  <2>3. DefaultEndowed = A \o S
    BY DEF DefaultEndowed
  <2> HIDE DEF A, S, l
  <2>4. Len(A) = l /\ Len(S) = l
    BY <2>1, <2>2
  <2>5. l + 1 \in DOMAIN (A \o S) /\ (A \o S)[l + 1] = S[1]
    BY <2>1, <2>2, <2>4
  <2> QED
    BY <2>2, <2>3, <2>5 DEF Accounts, ToSet
<1>2. PICK n \in Nat : DOMAIN b = 1 .. n + 1 /\ b[n + 1] = [who |-> s, free |-> STAKE]
  BY BalancesShape
<1>3. at \subseteq 1 .. n + 1 /\ n + 1 \in at /\ n + 1 \in Nat
  BY <1>2
<1>4. GenesisFree(g)[s] = b[Max(at)].free
  BY <1>1, <1>3 DEF GenesisFree, Listed
<1> HIDE DEF at
<1>5. Max(at) = n + 1
  <2> DEFINE m == Max(at)
  <2>1. m \in at /\ m >= n + 1
    BY <1>3, Greatest
  <2>2. m \in 1 .. n + 1
    BY <1>3, <2>1
  <2> HIDE DEF m
  <2>3. m = n + 1
    BY <2>1, <2>2
  <2> QED
    BY <2>3 DEF m
<1> QED
  BY <1>1, <1>2, <1>4, <1>5

\* The entries of the endowed accounts: all but the last one, which is the stake.
Endowments(g) == {i \in DOMAIN g.balances : i + 1 \in DOMAIN g.balances}

\* No account is endowed twice; what is counted and not given if the stash is
\* among the endowed ones.
EndowedOnce(g) == \A i, j \in Endowments(g) : g.balances[i].who = g.balances[j].who => i = j
Overcount(g) ==
  IF \E i \in Endowments(g) : g.balances[i].who = Stash(Seeds[1]) THEN ENDOWMENT ELSE 0

\* The genesis counts what it gives and, if the stash is endowed and staked, the
\* endowment that its stake overwrites.
LEMMA GenesisGap ==
  ASSUME NEW g \in Genesises, EndowedOnce(g)
  PROVE  GenesisIssuance(g) = SumFunction(GenesisFree(g)) + Overcount(g)
<1> DEFINE D      == DOMAIN g.balances
           who    == [i \in D |-> g.balances[i].who]
           value  == [i \in D |-> g.balances[i].free]
           owned  == GenesisFree(g)
           s      == Stash(Seeds[1])
           Others == Accounts \ {s}
           Of(A)  == {i \in D : who[i] \in A}
           Issued(I) == SumFunctionOnSet(value, I)
           Owned(A)  == SumFunctionOnSet(owned, A)
<1>1. PICK n \in Nat :
        /\ D = 1 .. n + 1 /\ who[n + 1] = s /\ value[n + 1] = STAKE
        /\ \A i \in 1 .. n : who[i] \in Accounts /\ value[i] = ENDOWMENT
  <2>1. PICK n \in Nat :
          /\ D = 1 .. n + 1
          /\ \A i \in 1 .. n : g.balances[i].who \in Accounts /\ g.balances[i].free = ENDOWMENT
          /\ g.balances[n + 1] = [who |-> s, free |-> STAKE]
    BY BalancesShape
  <2>2. n + 1 \in D /\ 1 .. n \subseteq D
    BY <2>1
  <2> QED
    BY <2>1, <2>2
<1>2. Endowments(g) = 1 .. n
  BY <1>1 DEF Endowments
<1>3. \A i, j \in 1 .. n : who[i] = who[j] => i = j
  <2>1. \A i \in 1 .. n : who[i] = g.balances[i].who
    BY <1>1
  <2>2. \A i, j \in 1 .. n : g.balances[i].who = g.balances[j].who => i = j
    BY <1>2, Zenon DEF EndowedOnce
  <2> HIDE DEF who
  <2> QED
    BY <2>1, <2>2
<1>4. Overcount(g) = IF \E i \in 1 .. n : who[i] = s THEN ENDOWMENT ELSE 0
  BY <1>1, <1>2 DEF Overcount
<1>5. s \in Accounts /\ owned[s] = STAKE
  BY StashOwnsStake
<1>6. /\ \A a \in Accounts : Of({a}) = {} => owned[a] = 0
      /\ \A a \in Accounts : Of({a}) # {} => \E i \in Of({a}) : owned[a] = value[i]
  <2>1. SUFFICES ASSUME NEW a \in Accounts
                 PROVE  /\ Of({a}) = {} => owned[a] = 0
                        /\ Of({a}) # {} => \E i \in Of({a}) : owned[a] = value[i]
    OBVIOUS
  <2>2. Of({a}) = {i \in DOMAIN g.balances : g.balances[i].who = a}
    OBVIOUS
  <2>3. /\ Of({a}) = {} => owned[a] = 0
        /\ Of({a}) # {} => \E i \in Of({a}) : owned[a] = g.balances[i].free
    BY <2>2, ListedOnce
  <2> QED
    BY <2>3
<1>7. GenesisIssuance(g) = Issued(D) /\ SumFunction(owned) = Owned(Accounts)
  BY DEF GenesisIssuance, GenesisFree, SumFunction
<1>8. ENDOWMENT \in Int /\ STAKE \in Int
  BY GenesisAssumption
<1> HIDE DEF D, who, value, owned, s
<1>9. IsFiniteSet(D) /\ \A i \in D : value[i] \in Int
  <2>1. IsFiniteSet(1 .. n + 1)
    BY FS_Interval
  <2> QED
    BY <1>1, <1>8, <2>1
<1>10. \A a \in Accounts : owned[a] \in Int
  BY <1>6, <1>9
<1>11. \A I \in SUBSET D : Issued(I) \in Int /\ \A i \in I : Issued(I) = value[i] + Issued(I \ {i})
  <2>1. TAKE I \in SUBSET D
  <2>2. IsFiniteSet(I) /\ \A i \in I : value[i] \in Int
    BY <1>9, FS_Subset
  <2> QED
    BY <2>2, SumSplit
<1>12. \A A \in SUBSET Accounts : /\ Owned(A) \in Int
                                  /\ \A a \in A : Owned(A) = owned[a] + Owned(A \ {a})
  <2>1. TAKE A \in SUBSET Accounts
  <2>2. IsFiniteSet(A) /\ \A a \in A : owned[a] \in Int
    BY <1>10, AccountsFinite, FS_Subset
  <2> QED
    BY <2>2, SumSplit
<1>13. Owned({}) = 0 /\ Issued({}) = 0
  BY SumEmpty
<1> HIDE DEF Issued, Owned
<1> DEFINE X == {A \in SUBSET Others : Owned(A) = Issued(Of(A))}
<1>14. ASSUME NEW A \in SUBSET Others, \A a \in A : A \ {a} \in X
       PROVE  A \in X
  <2>1. CASE A = {}
    <3>1. Of(A) = {}
      BY <2>1
    <3> QED
      BY <1>13, <2>1, <3>1
  <2>2. CASE A # {}
    <3>1. PICK a \in A : TRUE
      BY <2>2
    <3>2. a \in Accounts /\ a # s /\ A \in SUBSET Accounts
      OBVIOUS
    <3>3. Owned(A) = owned[a] + Owned(A \ {a})
      BY <1>12, <3>2
    <3>4. Owned(A \ {a}) = Issued(Of(A \ {a})) /\ Issued(Of(A \ {a})) \in Int
      BY <1>11, <1>14
    <3>5. CASE Of({a}) = {}
      <4>1. owned[a] = 0 /\ Of(A) = Of(A \ {a})
        BY <1>6, <3>2, <3>5
      <4>2. Owned(A) = Issued(Of(A))
        <5> HIDE DEF Of
        <5> QED
          BY <3>3, <3>4, <4>1
      <4> QED
        BY <4>2
    <3>6. CASE Of({a}) # {}
      <4>1. PICK i \in Of({a}) : owned[a] = value[i]
        BY <1>6, <3>2, <3>6
      <4>2. i \in D /\ who[i] = a /\ i \in 1 .. n
        BY <1>1, <3>2, <4>1
      <4>3. \A j \in D : who[j] = a => j = i
        <5>1. \A j \in D : who[j] = a => j \in 1 .. n
          BY <1>1, <3>2
        <5> QED
          BY <1>3, <4>2, <5>1
      <4>4. Of(A) \ {i} = Of(A \ {a}) /\ i \in Of(A) /\ Of(A) \in SUBSET D
        BY <4>2, <4>3
      <4>5. Issued(Of(A)) = value[i] + Issued(Of(A) \ {i})
        BY <1>11, <4>4
      <4>6. Owned(A) = Issued(Of(A))
        BY <3>3, <3>4, <4>1, <4>4, <4>5
      <4> QED
        BY <4>6
    <3> QED
      BY <3>5, <3>6
  <2> QED
    BY <2>1, <2>2
<1>15. SUBSET Others \subseteq X
  <2>1. IsFiniteSet(Others)
    BY AccountsFinite, FS_Subset
  <2> HIDE DEF X, Others
  <2> QED
    BY <1>14, <2>1, SubsetInduction
<1>16. Owned(Others) = Issued(Of(Others))
  BY <1>15
<1>17. Owned(Accounts) = STAKE + Issued(Of(Others))
  <2>1. Owned(Accounts) = owned[s] + Owned(Accounts \ {s})
    BY <1>5, <1>12
  <2> QED
    BY <1>5, <1>16, <2>1
<1>18. Issued(D) = STAKE + Issued(1 .. n)
  <2>1. n + 1 \in D /\ D \ {n + 1} = 1 .. n
    BY <1>1
  <2> QED
    BY <1>1, <1>11, <2>1
<1>19. Issued(1 .. n) = Issued(Of(Others)) + Overcount(g)
  <2>0. /\ Of(Others) = {i \in 1 .. n : who[i] # s}
        /\ 1 .. n \in SUBSET D /\ Of(Others) \in SUBSET D
    <3>1. \A i \in D : i \in 1 .. n \/ i = n + 1
      BY <1>1
    <3>2. \A i \in D : who[i] \in Others <=> i \in 1 .. n /\ who[i] # s
      BY <1>1, <3>1
    <3>3. 1 .. n \subseteq D
      BY <1>1
    <3> QED
      BY <3>2, <3>3
  <2>1. CASE \E i \in 1 .. n : who[i] = s
    <3>1. PICK j \in 1 .. n : who[j] = s
      BY <2>1
    <3>2. (1 .. n) \ {j} = Of(Others)
      BY <1>3, <2>0, <3>1
    <3>3. Issued(1 .. n) = value[j] + Issued((1 .. n) \ {j})
      BY <1>11, <2>0, <3>1
    <3>4. Issued(Of(Others)) \in Int /\ value[j] = ENDOWMENT /\ Overcount(g) = ENDOWMENT
      BY <1>1, <1>4, <1>11, <2>0, <2>1
    <3> HIDE DEF Of, Others
    <3>5. Issued(1 .. n) = ENDOWMENT + Issued(Of(Others))
      BY <3>2, <3>3, <3>4, Zenon
    <3> QED
      BY <1>8, <3>4, <3>5
  <2>2. CASE ~\E i \in 1 .. n : who[i] = s
    <3>1. 1 .. n = Of(Others) /\ Overcount(g) = 0 /\ Issued(Of(Others)) \in Int
      BY <1>4, <1>11, <2>0, <2>2
    <3> HIDE DEF Of, Others
    <3> QED
      BY <3>1
  <2> QED
    BY <2>1, <2>2
<1>20. Issued(Of(Others)) \in Int /\ Overcount(g) \in Int
  BY <1>4, <1>8, <1>11
<1> QED
  BY <1>7, <1>8, <1>17, <1>18, <1>19, <1>20 DEF owned

\* The chain begins with every stake backed, also where the stash was endowed
\* before: its stake is the entry that stands.
LEMMA InitIInv == Init => IInv
<1> SUFFICES ASSUME Init PROVE IInv
  OBVIOUS
<1>1. /\ genesis \in Genesises /\ free = GenesisFree(genesis) /\ bonded = GenesisBonded(genesis)
      /\ issuance = GenesisIssuance(genesis) /\ multiplier = One /\ era = NoEra /\ charged = {}
  BY DEF Init
<1> DEFINE b == genesis.balances
<1>2. PICK n \in Nat :
        /\ DOMAIN b = 1 .. n + 1
        /\ \A i \in 1 .. n : b[i].free = ENDOWMENT
        /\ b[n + 1] = [who |-> Stash(Seeds[1]), free |-> STAKE]
  BY <1>1, BalancesShape
<1>3. DOMAIN genesis.stakers = {1} /\ genesis.stakers[1].stash = Stash(Seeds[1])
  BY <1>1, BalancesShape
<1> HIDE DEF b
<1>4. ASSUME NEW a \in Accounts
      PROVE  /\ free[a] \in Nat /\ bonded[a] \in Nat /\ bonded[a] <= free[a]
  <2> DEFINE at == {i \in DOMAIN b : b[i].who = a}
  <2>1. free[a] = IF at = {} THEN 0 ELSE b[Max(at)].free
    BY <1>1 DEF GenesisFree, Listed, b
  <2>2. bonded[a] = IF a = Stash(Seeds[1]) THEN STAKE ELSE 0
    BY <1>1, <1>3 DEF GenesisBonded
  <2>3. at \subseteq 1 .. n + 1 /\ n + 1 \in Nat
    BY <1>2
  <2>4. a = Stash(Seeds[1]) => n + 1 \in at
    BY <1>2
  <2>5. \A i \in at : b[i].free \in Nat
    BY <1>2, GenesisAssumption
  <2> HIDE DEF at
  <2>6. at # {} => Max(at) \in at /\ \A i \in at : Max(at) >= i
    BY <2>3, Greatest
  <2>7. free[a] \in Nat
    BY <2>1, <2>5, <2>6
  <2>8. CASE a = Stash(Seeds[1])
    <3>1. free[a] = STAKE
      BY <1>1, <2>8, StashOwnsStake
    <3> QED
      BY <2>2, <2>7, <2>8, <3>1
  <2>9. CASE a # Stash(Seeds[1])
    BY <2>2, <2>7, <2>9
  <2> QED
    BY <2>8, <2>9
<1>5. free \in [Accounts -> Int] /\ bonded \in [Accounts -> Nat]
  BY <1>1, <1>4 DEF GenesisFree, GenesisBonded
<1>6. issuance \in Int /\ multiplier \in Nat
  BY <1>1, GenesisCovers, FeesAssumption
<1>7. era \in [issuance : Int, stake : [Accounts -> Nat], votes : [Accounts -> Nat],
               winners : SUBSET Accounts, exposure : [Accounts -> Nat]]
  BY <1>1 DEF NoEra
<1>8. ExposureFaithful /\ ElectedByStake /\ FeesByLength
  BY <1>1 DEF NoEra, ExposureFaithful, ElectedByStake, FeesByLength
<1> QED
  BY <1>1, <1>4, <1>5, <1>6, <1>7, <1>8 DEF IInv, Typed, StakeBacked

-----------------------------------------------------------------------------
(* The theorems *)

LEMMA NextIInv == IInv /\ [Next]_vars => IInv'
<1> SUFFICES ASSUME IInv, [Next]_vars PROVE IInv'
  OBVIOUS
<1>1. CASE UNCHANGED vars
  BY <1>1 DEF vars, IInv, Typed, StakeBacked, ExposureFaithful, ElectedByStake, Majority,
     FeesByLength
<1>2. CASE \E a \in Accounts, length \in Lengths, weight \in Weights : Charge(a, length, weight)
  BY <1>2, ChargeStep
<1>3. CASE \E a, b \in Accounts, amount \in Amounts : Transfer(a, b, amount)
  BY <1>3, TransferStep
<1>4. CASE \E m \in Multipliers : AdjustMultiplier(m)
  BY <1>4, AdjustStep
<1>5. CASE \E a \in Accounts : \E amount \in {0} \cup Amounts \cup {free[a]} : Bond(a, amount)
  BY <1>5, BondStep
<1>6. CASE \E a \in Accounts, amount \in Amounts : Reward(a, amount)
  BY <1>6, RewardStep
<1>7. CASE \E a, reporter \in Accounts, amount \in Amounts, paid \in {0, 1} :
             SlashValidator(a, amount, reporter, paid)
  <2>1. \A paid \in {0, 1} : paid \in Nat
    OBVIOUS
  <2> QED
    BY <1>7, <2>1, SlashStep
<1>8. CASE \E winners \in SUBSET Accounts : Elect(winners)
  BY <1>8, ElectStep
<1> QED
  BY <1>1, <1>2, <1>3, <1>4, <1>5, <1>6, <1>7, <1>8 DEF Next

LEMMA Invariance == Spec => []IInv
  BY InitIInv, NextIInv, PTL DEF Spec

\* Every stake is covered by its account, also at a genesis that lists the
\* stash twice (chain_spec.rs), whatever is paid, transferred or slashed.
THEOREM StakeIsBacked == Spec => []StakeBacked
<1>1. IInv => StakeBacked
  BY DEF IInv
<1> QED
  BY <1>1, Invariance, PTL

\* The exposures of an election are the stakes up to the factor, unless a stake
\* is a majority of the issuance (impls.rs).
THEOREM ExposureIsFaithful == Spec => []ExposureFaithful
<1>1. IInv => ExposureFaithful
  BY DEF IInv
<1> QED
  BY <1>1, Invariance, PTL

\* The election ranks by stake up to the factor, unless a stake is a majority.
THEOREM ElectionByStake == Spec => []ElectedByStake
<1>1. IInv => ElectedByStake
  BY DEF IInv
<1> QED
  BY <1>1, Invariance, PTL

\* As long as a billionth of the fee's denominator exceeds its numerator, which
\* the constants of the runtime ensure, the fee is a matter of the length alone.
THEOREM FeeIsFlat == Spec => []FlatFee
<1>1. IInv => FlatFee
  BY DEF IInv, FeesByLength, FlatFee
<1> QED
  BY <1>1, Invariance, PTL

\* An operation touches at most two accounts and changes the issuance by what it
\* changes in them.
Follows ==
  \/ UNCHANGED <<free, issuance>>
  \/ \E a, b \in Accounts :
       /\ \A c \in Accounts \ {a, b} : free'[c] = free[c]
       /\ issuance' - issuance =
            (free'[a] - free[a]) + (IF a = b THEN 0 ELSE free'[b] - free[b])

\* One account changes with the issuance.
LEMMA FollowsOne ==
  ASSUME NEW a \in Accounts, \A c \in Accounts \ {a} : free'[c] = free[c],
         NEW d \in Int, issuance' - issuance = d, free'[a] - free[a] = d
  PROVE  Follows
<1>1. \A c \in Accounts \ {a, a} : free'[c] = free[c]
  OBVIOUS
<1>2. issuance' - issuance = (free'[a] - free[a]) + (IF a = a THEN 0 ELSE free'[a] - free[a])
  OBVIOUS
<1> QED
  BY <1>1, <1>2 DEF Follows

\* Two accounts do.
LEMMA FollowsTwo ==
  ASSUME NEW a \in Accounts, NEW b \in Accounts, a # b,
         \A c \in Accounts \ {a, b} : free'[c] = free[c],
         issuance' - issuance = (free'[a] - free[a]) + (free'[b] - free[b])
  PROVE  Follows
BY DEF Follows

\* Every operation moves the issuance with the accounts.
LEMMA NextFollows == IInv /\ [Next]_vars => [Follows]_vars
<1> SUFFICES ASSUME IInv, Next PROVE Follows
  OBVIOUS
<1>1. free \in [Accounts -> Int] /\ issuance \in Int /\ bonded \in [Accounts -> Nat]
  BY DEF IInv, Typed
<1>2. ASSUME NEW a \in Accounts, NEW length \in Lengths, NEW weight \in Weights,
             Charge(a, length, weight)
      PROVE  Follows
  <2> DEFINE fee == Fee(length, weight, multiplier)
  <2>1. length \in Nat /\ weight \in Nat /\ multiplier \in Nat
    BY EconomyAssumption DEF IInv, Typed
  <2>2. fee \in Nat
    BY <2>1, FeeIsLength
  <2>3. free' = [free EXCEPT ![a] = @ - fee] /\ issuance' = issuance - fee
    BY <1>2 DEF Charge
  <2> HIDE DEF fee
  <2>4. /\ \A c \in Accounts \ {a} : free'[c] = free[c]
        /\ -fee \in Int /\ issuance' - issuance = -fee /\ free'[a] - free[a] = -fee
    BY <1>1, <2>2, <2>3
  <2> QED
    BY <2>4, FollowsOne
<1>3. ASSUME NEW a \in Accounts, NEW b \in Accounts, NEW amount \in Amounts,
             Transfer(a, b, amount)
      PROVE  Follows
  <2> DEFINE rest == free[a] - amount
  <2>1. amount \in Nat /\ rest \in Int
    BY <1>1, EconomyAssumption
  <2>2. /\ a # b /\ free' = [free EXCEPT ![a] = Settled(rest), ![b] = @ + amount]
        /\ issuance' = issuance - (rest - Settled(rest))
    BY <1>3 DEF Transfer, Dust
  <2>3. Settled(rest) \in Int
    BY <2>1, SettledBounds
  <2>4. /\ \A c \in Accounts \ {a, b} : free'[c] = free[c]
        /\ free'[a] = Settled(rest) /\ free'[b] = free[b] + amount
    BY <1>1, <2>2
  <2>5. issuance' - issuance = (free'[a] - free[a]) + (free'[b] - free[b])
    BY <1>1, <2>1, <2>2, <2>3, <2>4
  <2> QED
    BY <2>2, <2>4, <2>5, FollowsTwo
<1>4. ASSUME NEW a \in Accounts, NEW amount \in Amounts, Reward(a, amount)
      PROVE  Follows
  <2>1. amount \in Int
    BY EconomyAssumption
  <2>2. free' = [free EXCEPT ![a] = @ + amount] /\ issuance' = issuance + amount
    BY <1>4 DEF Reward
  <2>3. /\ \A c \in Accounts \ {a} : free'[c] = free[c]
        /\ issuance' - issuance = amount /\ free'[a] - free[a] = amount
    BY <1>1, <2>1, <2>2
  <2> QED
    BY <2>1, <2>3, FollowsOne
<1>5. ASSUME NEW a \in Accounts, NEW reporter \in Accounts, NEW amount \in Amounts,
             NEW paid \in Nat, SlashValidator(a, amount, reporter, paid)
      PROVE  Follows
  <2> DEFINE most  == Min({amount, era.exposure[a], bonded[a]})
             slash == IF bonded[a] - most <= ExistentialDeposit THEN bonded[a] ELSE most
             rest  == free[a] - slash
  <2>1. /\ amount \in Int /\ free[a] \in Int /\ bonded[a] \in Int /\ era.exposure[a] \in Int
    BY EconomyAssumption DEF IInv, Typed
  <2>2. most \in {amount, era.exposure[a], bonded[a]}
    BY <2>1, LeastOfThree
  <2>3. /\ reporter # a
        /\ free' = [free EXCEPT ![a] = Settled(rest), ![reporter] = @ + paid]
        /\ issuance' = issuance - (slash - paid) - (rest - Settled(rest))
    BY <1>5 DEF SlashValidator, Dust
  <2> HIDE DEF most
  <2>4. slash \in Int /\ rest \in Int
    BY <2>1, <2>2
  <2>5. rest = free[a] - slash
    OBVIOUS
  <2> HIDE DEF slash, rest
  <2>6. Settled(rest) \in Int
    BY <2>4, SettledBounds
  <2>7. /\ \A c \in Accounts \ {a, reporter} : free'[c] = free[c]
        /\ free'[a] = Settled(rest) /\ free'[reporter] = free[reporter] + paid
    BY <1>1, <2>3
  <2>8. issuance' - issuance = (free'[a] - free[a]) + (free'[reporter] - free[reporter])
    BY <1>1, <2>1, <2>3, <2>4, <2>5, <2>6, <2>7
  <2> QED
    BY <2>3, <2>7, <2>8, FollowsTwo
<1>6. ASSUME NEW m \in Multipliers, AdjustMultiplier(m) PROVE Follows
  BY <1>6 DEF AdjustMultiplier, Follows
<1>7. ASSUME NEW a \in Accounts, NEW amount, Bond(a, amount) PROVE Follows
  BY <1>7 DEF Bond, Follows
<1>8. ASSUME NEW winners \in SUBSET Accounts, Elect(winners) PROVE Follows
  BY <1>8 DEF Elect, Follows
<1>9. \A paid \in {0, 1} : paid \in Nat
  OBVIOUS
<1> QED
  BY <1>2, <1>3, <1>4, <1>5, <1>6, <1>7, <1>8, <1>9 DEF Next

-----------------------------------------------------------------------------
(* The sum over all accounts *)

\* No operation touches the genesis.
LEMMA GenesisKept == [Next]_vars => genesis' = genesis
<1> SUFFICES ASSUME [Next]_vars PROVE genesis' = genesis
  OBVIOUS
<1>1. CASE UNCHANGED vars
  BY <1>1 DEF vars
<1>2. ASSUME NEW a, NEW length, NEW weight, Charge(a, length, weight) PROVE genesis' = genesis
  BY <1>2 DEF Charge
<1>3. ASSUME NEW a, NEW b, NEW amount, Transfer(a, b, amount) PROVE genesis' = genesis
  BY <1>3 DEF Transfer
<1>4. ASSUME NEW m, AdjustMultiplier(m) PROVE genesis' = genesis
  BY <1>4 DEF AdjustMultiplier
<1>5. ASSUME NEW a, NEW amount, Bond(a, amount) \/ Reward(a, amount) PROVE genesis' = genesis
  BY <1>5 DEF Bond, Reward
<1>6. ASSUME NEW a, NEW amount, NEW reporter, NEW paid, SlashValidator(a, amount, reporter, paid)
      PROVE  genesis' = genesis
  BY <1>6 DEF SlashValidator
<1>7. ASSUME NEW winners, Elect(winners) PROVE genesis' = genesis
  BY <1>7 DEF Elect
<1> QED
  BY <1>1, <1>2, <1>3, <1>4, <1>5, <1>6, <1>7 DEF Next

\* A step that changes the issuance with at most two accounts changes it with
\* the sum over all of them: through the balances with only one of them changed.
LEMMA FollowsSum ==
  ASSUME IInv, IInv', Follows
  PROVE  issuance' - SumFunction(free') = issuance - SumFunction(free)
<1> DEFINE f == free
           g == free'
           u == issuance
           v == issuance'
<1>1. f \in [Accounts -> Int] /\ g \in [Accounts -> Int] /\ u \in Int /\ v \in Int
  BY DEF IInv, Typed
<1>2. \/ f = g /\ u = v
      \/ \E a, b \in Accounts :
           /\ \A c \in Accounts \ {a, b} : g[c] = f[c]
           /\ v - u = (g[a] - f[a]) + (IF a = b THEN 0 ELSE g[b] - f[b])
  BY DEF Follows
<1> HIDE DEF f, g, u, v
<1>3. v - SumFunction(g) = u - SumFunction(f)
  <2>1. CASE f = g /\ u = v
    BY <2>1
  <2>2. ASSUME NEW a \in Accounts, NEW b \in Accounts,
               \A c \in Accounts \ {a, b} : g[c] = f[c],
               v - u = (g[a] - f[a]) + (IF a = b THEN 0 ELSE g[b] - f[b])
        PROVE  v - SumFunction(g) = u - SumFunction(f)
    <3> DEFINE h == [f EXCEPT ![a] = g[a]]
    <3>1. h \in [Accounts -> Int] /\ h[a] = g[a] /\ \A c \in Accounts \ {a} : h[c] = f[c]
      BY <1>1
    <3> HIDE DEF h
    <3>2. /\ SumFunction(f) \in Int /\ SumFunction(h) \in Int
          /\ SumFunction(h) - SumFunction(f) = h[a] - f[a]
      BY <1>1, <3>1, AccountsFinite, SumChanges
    <3>3. \A c \in Accounts \ {b} : g[c] = h[c]
      BY <2>2, <3>1
    <3>4. SumFunction(g) \in Int /\ SumFunction(g) - SumFunction(h) = g[b] - h[b]
      BY <1>1, <3>1, <3>3, AccountsFinite, SumChanges
    <3>5. g[b] - h[b] = IF a = b THEN 0 ELSE g[b] - f[b]
      BY <1>1, <3>1
    <3>6. g[a] \in Int /\ f[a] \in Int /\ g[b] - h[b] \in Int
      BY <1>1, <3>1
    <3>7. v - u = (h[a] - f[a]) + (g[b] - h[b])
      BY <2>2, <3>1, <3>5
    <3> QED
      BY <1>1, <3>1, <3>2, <3>4, <3>6, <3>7
  <2> QED
    BY <1>2, <2>1, <2>2
<1> QED
  BY <1>3 DEF f, g, u, v

\* The issuance and the sum of all accounts never drift apart, whatever the
\* number of accounts and however fees, dust, rewards and slashes are combined:
\* each of the handlers that are `()` corrects the issuance by what it drops.
THEOREM IssuanceIsAccounted == Spec => []IssuanceAccounted
<1>1. Init => IssuanceAccounted
  BY DEF Init, IssuanceAccounted
<1>2. IssuanceAccounted /\ IInv /\ IInv' /\ [Next]_vars => IssuanceAccounted'
  <2> SUFFICES ASSUME IssuanceAccounted, IInv, IInv', [Next]_vars PROVE IssuanceAccounted'
    OBVIOUS
  <2>1. genesis' = genesis
    BY GenesisKept
  <2>2. issuance' - SumFunction(free') = issuance - SumFunction(free)
    <3>1. CASE UNCHANGED vars
      BY <3>1 DEF vars
    <3>2. CASE Follows
      BY <3>2, FollowsSum
    <3> QED
      BY <3>1, <3>2, NextFollows
  <2> QED
    BY <2>1, <2>2 DEF IssuanceAccounted
<1> QED
  BY <1>1, <1>2, Invariance, PTL DEF Spec

\* What the two differ by: nothing, unless the stash is endowed as well as
\* staked (chain_spec.rs lists it twice when no accounts are given). Then the
\* issuance exceeds the accounts by one endowment that nobody owns, for ever.
THEOREM IssuanceExact ==
  Spec => [](EndowedOnce(genesis) => issuance = SumFunction(free) + Overcount(genesis))
<1>1. IInv /\ IssuanceAccounted
        => (EndowedOnce(genesis) => issuance = SumFunction(free) + Overcount(genesis))
  <2> SUFFICES ASSUME IInv, IssuanceAccounted, EndowedOnce(genesis)
               PROVE  issuance = SumFunction(free) + Overcount(genesis)
    OBVIOUS
  <2>1. genesis \in Genesises /\ issuance \in Int /\ free \in [Accounts -> Int]
    BY DEF IInv, Typed
  <2>2. GenesisIssuance(genesis) = SumFunction(GenesisFree(genesis)) + Overcount(genesis)
    BY <2>1, GenesisGap
  <2>3. SumFunction(GenesisFree(genesis)) \in Int
    BY <2>1, GenesisCovers
  <2>4. SumFunction(free) \in Int
    <3>1. SumFunctionOnSet(free, Accounts) \in Int
      BY <2>1, AccountsFinite, SumSplit
    <3> QED
      BY <2>1, <3>1 DEF SumFunction
  <2>5. Overcount(genesis) \in Int
    BY GenesisAssumption DEF Overcount
  <2> QED
    BY <2>1, <2>2, <2>3, <2>4, <2>5 DEF IssuanceAccounted
<1> QED
  BY <1>1, Invariance, IssuanceIsAccounted, PTL

-----------------------------------------------------------------------------
(* Types and bounds *)

\* What no other invariant needs: the ranges of the counters and of the votes.
Ranges ==
  /\ issuance <= MaxIssuance
  /\ multiplier \in Multipliers
  /\ era.votes \in [Accounts -> 0 .. MaxVote]
  /\ charged \subseteq [length : Lengths, fee : Nat]
  /\ operations \in 0 .. MaxOperations

\* The part of an operation that counts it.
LEMMA OperationCounts ==
  ASSUME operations \in 0 .. MaxOperations, Operation
  PROVE  operations' \in 0 .. MaxOperations
  BY EconomyAssumption DEF Operation

LEMMA InitRanges == Init => Ranges
<1> SUFFICES ASSUME Init PROVE Ranges
  OBVIOUS
<1>1. /\ genesis \in Genesises /\ issuance = GenesisIssuance(genesis) /\ multiplier = One
      /\ era = NoEra /\ charged = {} /\ operations = 0
  BY DEF Init
<1>2. era.votes \in [Accounts -> 0 .. MaxVote]
  BY <1>1, MaxVoteAssumption DEF NoEra
<1> QED
  BY <1>1, <1>2, EconomyAssumption, IssuanceAssumption DEF Ranges

\* Only a reward raises the issuance, and it minds the bound.
LEMMA NextRanges == IInv /\ Ranges /\ [Next]_vars => Ranges'
<1> SUFFICES ASSUME IInv, Ranges, [Next]_vars PROVE Ranges'
  OBVIOUS
<1>1. /\ free \in [Accounts -> Int] /\ issuance \in Int /\ bonded \in [Accounts -> Nat]
      /\ issuance <= MaxIssuance /\ MaxIssuance \in Nat /\ operations \in 0 .. MaxOperations
  BY EconomyAssumption DEF IInv, Typed, Ranges
<1>2. ASSUME NEW a \in Accounts, NEW length \in Lengths, NEW weight \in Weights,
             Charge(a, length, weight)
      PROVE  Ranges'
  <2> DEFINE fee == Fee(length, weight, multiplier)
  <2>1. length \in Nat /\ weight \in Nat /\ multiplier \in Nat
    BY EconomyAssumption DEF IInv, Typed
  <2>2. fee \in Nat
    BY <2>1, FeeIsLength
  <2>3. /\ Operation /\ issuance' = issuance - fee
        /\ charged' = charged \cup {[length |-> length, fee |-> fee]}
        /\ UNCHANGED <<multiplier, era>>
    BY <1>2 DEF Charge
  <2> HIDE DEF fee
  <2>4. issuance' <= MaxIssuance /\ charged' \subseteq [length : Lengths, fee : Nat]
    BY <1>1, <2>2, <2>3 DEF Ranges
  <2> QED
    BY <1>1, <2>3, <2>4, OperationCounts DEF Ranges
<1>3. ASSUME NEW a \in Accounts, NEW b \in Accounts, NEW amount \in Amounts,
             Transfer(a, b, amount)
      PROVE  Ranges'
  <2> DEFINE rest == free[a] - amount
  <2>1. /\ Operation /\ amount <= free[a] - bonded[a]
        /\ issuance' = issuance - (rest - Settled(rest))
        /\ UNCHANGED <<multiplier, era, charged>>
    BY <1>3 DEF Transfer, Liquid, Dust
  <2>2. rest \in Int /\ rest >= 0
    BY <1>1, <2>1, EconomyAssumption
  <2> HIDE DEF rest
  <2>3. issuance' <= MaxIssuance
    BY <1>1, <2>1, <2>2, SettledAtMost
  <2> QED
    BY <1>1, <2>1, <2>3, OperationCounts DEF Ranges
<1>4. ASSUME NEW m \in Multipliers, AdjustMultiplier(m) PROVE Ranges'
  BY <1>1, <1>4, OperationCounts DEF AdjustMultiplier, Ranges
<1>5. ASSUME NEW a \in Accounts, NEW amount, Bond(a, amount) PROVE Ranges'
  BY <1>1, <1>5, OperationCounts DEF Bond, Ranges
<1>6. ASSUME NEW a \in Accounts, NEW amount \in Amounts, Reward(a, amount) PROVE Ranges'
  BY <1>1, <1>6, OperationCounts DEF Reward, Ranges
<1>7. ASSUME NEW a \in Accounts, NEW reporter \in Accounts, NEW amount \in Amounts,
             NEW paid \in Nat, SlashValidator(a, amount, reporter, paid)
      PROVE  Ranges'
  <2> DEFINE most  == Min({amount, era.exposure[a], bonded[a]})
             slash == IF bonded[a] - most <= ExistentialDeposit THEN bonded[a] ELSE most
             rest  == free[a] - slash
  <2>1. /\ amount \in Int /\ free[a] \in Int /\ bonded[a] \in Nat /\ era.exposure[a] \in Int
        /\ bonded[a] <= free[a]
    BY EconomyAssumption DEF IInv, Typed, StakeBacked
  <2>2. most \in {amount, era.exposure[a], bonded[a]} /\ most <= bonded[a]
    <3>1. bonded[a] \in Int
      BY <2>1
    <3> QED
      BY <2>1, <3>1, LeastOfThree
  <2>3. /\ Operation /\ paid <= slash
        /\ issuance' = issuance - (slash - paid) - (rest - Settled(rest))
        /\ UNCHANGED <<multiplier, era, charged>>
    BY <1>7 DEF SlashValidator, Dust
  <2> HIDE DEF most
  <2>4. slash \in Int /\ slash <= bonded[a]
    BY <2>1, <2>2
  <2>5. rest \in Int /\ rest >= 0
    BY <2>1, <2>4
  <2> HIDE DEF slash, rest
  <2>6. issuance' <= MaxIssuance
    BY <1>1, <2>3, <2>4, <2>5, SettledAtMost
  <2> QED
    BY <1>1, <2>3, <2>6, OperationCounts DEF Ranges
<1>8. ASSUME NEW winners \in SUBSET Accounts, Elect(winners) PROVE Ranges'
  <2> DEFINE votes == [a \in Accounts |-> ToVote(bonded[a], issuance)]
  <2>1. \A a \in Accounts : ToVote(bonded[a], issuance) \in 0 .. MaxVote
    BY <1>1, RoundTrip
  <2>2. votes \in [Accounts -> 0 .. MaxVote]
    BY <2>1
  <2>3. Operation /\ era'.votes = votes /\ UNCHANGED <<issuance, multiplier, charged>>
    BY <1>8 DEF Elect
  <2> HIDE DEF votes
  <2> QED
    BY <1>1, <2>2, <2>3, OperationCounts DEF Ranges
<1>9. CASE UNCHANGED vars
  BY <1>9 DEF vars, Ranges
<1>10. \A paid \in {0, 1} : paid \in Nat
  OBVIOUS
<1> QED
  BY <1>2, <1>3, <1>4, <1>5, <1>6, <1>7, <1>8, <1>9, <1>10 DEF Next

\* The issuance covers the accounts, so it never falls below zero: what the
\* runtime destroys with fees, dust and slashes it took from an account before,
\* and the genesis issued at least what it gave away.
THEOREM IssuanceCoversAccounts ==
  Spec => [](SumFunction(free) \in Nat /\ SumFunction(free) <= issuance)
<1> DEFINE Covers == SumFunction(free) \in Nat /\ SumFunction(free) <= issuance
<1>1. IInv /\ IssuanceAccounted => Covers
  <2> SUFFICES ASSUME IInv, IssuanceAccounted PROVE Covers
    OBVIOUS
  <2>1. genesis \in Genesises /\ issuance \in Int /\ \A a \in Accounts : free[a] \in Nat
    BY DEF IInv, Typed, StakeBacked
  <2>2. DOMAIN free = Accounts
    BY DEF IInv, Typed
  <2>3. SumFunction(free) \in Nat
    <3>1. SumFunctionOnSet(free, Accounts) \in Nat
      BY <2>1, AccountsFinite, SumGrows
    <3> QED
      BY <2>2, <3>1 DEF SumFunction
  <2>4. /\ GenesisIssuance(genesis) \in Nat /\ SumFunction(GenesisFree(genesis)) \in Nat
        /\ SumFunction(GenesisFree(genesis)) <= GenesisIssuance(genesis)
    BY <2>1, GenesisCovers
  <2> QED
    BY <2>1, <2>3, <2>4 DEF IssuanceAccounted
<1> QED
  BY <1>1, Invariance, IssuanceIsAccounted, PTL

\* Every variable keeps its type: no balance, exposure or issuance goes below
\* zero, votes fit a u64 and no operation goes beyond its bound.
THEOREM TypeCorrect == Spec => []TypeOK
<1>1. Spec => []Ranges
  BY InitRanges, NextRanges, Invariance, PTL DEF Spec
<1> DEFINE Covers == SumFunction(free) \in Nat /\ SumFunction(free) <= issuance
<1>2. IInv /\ Ranges /\ Covers => TypeOK
  <2> SUFFICES ASSUME IInv, Ranges, Covers PROVE TypeOK
    OBVIOUS
  <2>1. \A a \in Accounts : free[a] \in Nat
    BY DEF IInv, Typed, StakeBacked
  <2>2. free \in [Accounts -> Nat]
    BY <2>1 DEF IInv, Typed
  <2>3. issuance \in 0 .. MaxIssuance
    BY EconomyAssumption DEF IInv, Typed, Ranges
  <2> QED
    BY <2>2, <2>3 DEF IInv, Typed, Ranges, TypeOK
<1> QED
  BY <1>1, <1>2, Invariance, IssuanceCoversAccounts, PTL

=============================================================================
