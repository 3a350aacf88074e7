---------------------------- MODULE DataInduction -----------------------------
(***************************************************************************)
(* Induction over numbers and over finite sets, stated of sets (the numbers  *)
(* or the subsets of which something holds) instead of predicates, and what  *)
(* it gives: a recursion has a run, and a sum over a finite set exists, does  *)
(* not depend on the order of its terms and grows with them.                *)
(***************************************************************************)
EXTENDS Integers, FiniteSets, FiniteSetTheorems, WellFoundedInduction, TLAPS

\* Numbers: what holds of 0 and of the successor of every number it holds of.
LEMMA SetInduction ==
    ASSUME NEW S, 0 \in S, \A n \in Nat : n \in S => n + 1 \in S
    PROVE  Nat \subseteq S
<1> DEFINE T == Nat \ S
<1> SUFFICES ASSUME T # {} PROVE FALSE
  OBVIOUS
<1>1. PICK x \in T : \A y \in T : ~ (<<y, x>> \in OpToRel(<, Nat))
  <2>1. IsWellFoundedOn(OpToRel(<, Nat), Nat)
    BY NatLessThanWellFounded, Zenon
  <2>2. T \subseteq Nat
    OBVIOUS
  <2> HIDE DEF T
  <2> QED BY <2>1, <2>2, WFMin, Zenon
<1>2. x \in Nat /\ x # 0 /\ x - 1 \in Nat
  OBVIOUS
<1>3. x - 1 \in S
  <2>1. SUFFICES ASSUME x - 1 \notin S PROVE FALSE
    OBVIOUS
  <2>2. x - 1 \in T
    BY <1>2, <2>1
  <2>3. x - 1 < x
    BY <1>2
  <2>4. <<x - 1, x>> \in OpToRel(<, Nat)
    BY <1>2, <2>3, Zenon DEF OpToRel
  <2> QED BY <1>1, <2>2, <2>4, Zenon
<1>4. (x - 1) + 1 \in S
  BY <1>2, <1>3
<1> QED BY <1>2, <1>4

\* The least of some numbers.
LEMMA LeastNatural ==
    ASSUME NEW T, T \subseteq Nat, T # {}
    PROVE  \E x \in T : \A y \in T : x <= y
<1>1. PICK x \in T : \A y \in T : ~ (<<y, x>> \in OpToRel(<, Nat))
  <2>1. IsWellFoundedOn(OpToRel(<, Nat), Nat)
    BY NatLessThanWellFounded, Zenon
  <2> QED BY <2>1, WFMin, Zenon
<1>2. \A y \in T : ~(y < x)
  <2> SUFFICES ASSUME NEW y \in T, y < x PROVE FALSE
    OBVIOUS
  <2>1. y \in Nat /\ x \in Nat
    OBVIOUS
  <2>2. <<y, x>> \in OpToRel(<, Nat)
    BY <2>1, Zenon DEF OpToRel
  <2> QED BY <1>1, <2>2, Zenon
<1>3. \A y \in T : y \in Nat /\ x \in Nat
  OBVIOUS
<1> QED BY <1>2, <1>3

\* Subsets of a finite set: what holds of every subset one element of which it can lose.
LEMMA SubsetInduction ==
    \A S, Good :
        /\ IsFiniteSet(S)
        /\ \A T \in SUBSET S : (\A x \in T : T \ {x} \in Good) => T \in Good
        => \A T \in SUBSET S : T \in Good
<1> SUFFICES ASSUME NEW S, NEW Good, IsFiniteSet(S),
                    \A T \in SUBSET S : (\A x \in T : T \ {x} \in Good) => T \in Good,
                    NEW U \in SUBSET S
             PROVE  U \in Good
  OBVIOUS
<1> DEFINE Sizes == {n \in Nat : \A T \in SUBSET S : Cardinality(T) = n => T \in Good}
<1>1. 0 \in Sizes
  <2> SUFFICES ASSUME NEW T \in SUBSET S, Cardinality(T) = 0 PROVE T \in Good
    OBVIOUS
  <2>1. T = {}
    BY FS_Subset, FS_EmptySet
  <2> QED BY <2>1
<1>2. ASSUME NEW n \in Nat, n \in Sizes PROVE n + 1 \in Sizes
  <2> SUFFICES ASSUME NEW T \in SUBSET S, Cardinality(T) = n + 1 PROVE T \in Good
    OBVIOUS
  <2>1. IsFiniteSet(T)
    BY FS_Subset
  <2>2. ASSUME NEW x \in T PROVE T \ {x} \in Good
    <3>1. Cardinality(T \ {x}) = Cardinality(T) - 1
      BY <2>1, FS_RemoveElement
    <3>2. Cardinality(T \ {x}) = n
      BY <3>1
    <3> QED BY <1>2, <3>2
  <2> QED BY <2>2
<1>3. Nat \subseteq Sizes
  <2> HIDE DEF Sizes
  <2> QED BY <1>1, <1>2, SetInduction
<1>4. Cardinality(U) \in Nat
  BY FS_Subset, FS_CardinalityType
<1> QED BY <1>3, <1>4

------------------------------------------------------------------------------
(* Runs of a recursion over numbers.                                        *)
IsRun(f, S, a, D, n) ==
    /\ f \in [0 .. n -> S]
    /\ f[0] = a
    /\ \A i \in 1 .. n : f[i] = D[i][f[i - 1]]

LEMMA Recursion ==
    ASSUME NEW S, NEW a \in S, NEW D \in [Nat -> [S -> S]], NEW n \in Nat
    PROVE  \E f : IsRun(f, S, a, D, n)
<1> DEFINE Runs(m) == {f \in [0 .. m -> S] : f[0] = a /\ \A i \in 1 .. m : f[i] = D[i][f[i - 1]]}
           Good == {m \in Nat : Runs(m) # {}}
<1>1. 0 \in Good
  <2>1. [i \in 0 .. 0 |-> a] \in Runs(0)
    OBVIOUS
  <2> QED BY <2>1
<1>2. ASSUME NEW m \in Nat, m \in Good PROVE m + 1 \in Good
  <2>1. PICK f : f \in Runs(m)
    BY <1>2
  <2>2. PICK g : g = [i \in 0 .. m + 1 |-> IF i = m + 1 THEN D[m + 1][f[m]] ELSE f[i]]
    OBVIOUS
  <2>3. f[m] \in S /\ D[m + 1] \in [S -> S]
    BY <2>1
  <2>4. g \in [0 .. m + 1 -> S]
    BY <2>1, <2>2, <2>3
  <2>5. g[0] = a
    BY <2>1, <2>2
  <2>6. ASSUME NEW i \in 1 .. m + 1 PROVE g[i] = D[i][g[i - 1]]
    BY <2>1, <2>2
  <2> QED BY <2>4, <2>5, <2>6
<1>3. Nat \subseteq Good
  <2> HIDE DEF Good
  <2> QED BY <1>1, <1>2, SetInduction
<1> QED BY <1>3 DEF IsRun

------------------------------------------------------------------------------
(* Sums over a finite set: g gives each of its subsets the sum of f.         *)
Chosen(T) == CHOOSE x \in T : TRUE

\* One term after the other, in the order CHOOSE makes it.
Adds(g, f, S) ==
    g = [T \in SUBSET S |-> IF T = {} THEN 0 ELSE f[Chosen(T)] + g[T \ {Chosen(T)}]]

\* In any order.
IsSum(g, f, S) ==
    /\ g \in [SUBSET S -> Int]
    /\ g[{}] = 0
    /\ \A T \in SUBSET S : \A x \in T : g[T] = f[x] + g[T \ {x}]

LEMMA ChosenIn == \A T : T # {} => Chosen(T) \in T
  BY DEF Chosen

LEMMA AddsExists ==
    ASSUME NEW S, IsFiniteSet(S), NEW f \in [S -> Int]
    PROVE  \E g : Adds(g, f, S)
<1> DEFINE Rec(g, T) == IF T = {} THEN 0 ELSE f[Chosen(T)] + g[T \ {Chosen(T)}]
           Good == {n \in Nat : \E g \in [SUBSET S -> Int] :
                        \A T \in SUBSET S : Cardinality(T) <= n => g[T] = Rec(g, T)}
<1>0. \A T \in SUBSET S : /\ IsFiniteSet(T) /\ Cardinality(T) \in Nat
                          /\ Cardinality(T) <= Cardinality(S)
                          /\ T # {} => /\ Chosen(T) \in T /\ T \ {Chosen(T)} \in SUBSET S
                                       /\ Cardinality(T \ {Chosen(T)}) = Cardinality(T) - 1
  <2> SUFFICES ASSUME NEW T \in SUBSET S
               PROVE  /\ IsFiniteSet(T) /\ Cardinality(T) \in Nat
                      /\ Cardinality(T) <= Cardinality(S)
                      /\ T # {} => /\ Chosen(T) \in T /\ T \ {Chosen(T)} \in SUBSET S
                                   /\ Cardinality(T \ {Chosen(T)}) = Cardinality(T) - 1
    OBVIOUS
  <2>1. IsFiniteSet(T) /\ Cardinality(T) \in Nat /\ Cardinality(T) <= Cardinality(S)
    BY FS_Subset, FS_CardinalityType
  <2>2. ASSUME T # {} PROVE Cardinality(T \ {Chosen(T)}) = Cardinality(T) - 1
    BY <2>1, <2>2, ChosenIn, FS_RemoveElement
  <2> QED BY <2>1, <2>2, ChosenIn
<1>1. 0 \in Good
  <2>1. [T \in SUBSET S |-> 0] \in [SUBSET S -> Int]
    OBVIOUS
  <2>2. \A T \in SUBSET S : Cardinality(T) <= 0 => T = {}
    <3> SUFFICES ASSUME NEW T \in SUBSET S, Cardinality(T) <= 0 PROVE T = {}
      OBVIOUS
    <3>1. IsFiniteSet(T) /\ Cardinality(T) \in Nat
      BY <1>0
    <3>2. Cardinality(T) = 0
      BY <3>1
    <3> QED BY <3>1, <3>2, FS_EmptySet
  <2> QED BY <2>1, <2>2
<1>2. ASSUME NEW n \in Nat, n \in Good PROVE n + 1 \in Good
  <2>1. PICK g \in [SUBSET S -> Int] : \A T \in SUBSET S : Cardinality(T) <= n => g[T] = Rec(g, T)
    BY <1>2
  <2>2. PICK h : h = [T \in SUBSET S |-> IF Cardinality(T) = n + 1 THEN Rec(g, T) ELSE g[T]]
    OBVIOUS
  <2>3. \A T \in SUBSET S : Rec(g, T) \in Int
    BY <1>0, <2>1
  <2>4. h \in [SUBSET S -> Int]
    BY <2>1, <2>2, <2>3
  <2>5. \A T \in SUBSET S : Cardinality(T) <= n + 1 => Rec(h, T) = Rec(g, T)
    BY <1>0, <2>2
  <2>6. ASSUME NEW T \in SUBSET S, Cardinality(T) <= n + 1 PROVE h[T] = Rec(h, T)
    <3>1. Cardinality(T) \in Nat
      BY <1>0
    <3>2. h[T] = Rec(g, T)
      BY <2>1, <2>2, <2>6, <3>1
    <3> QED BY <2>5, <2>6, <3>2
  <2>7. \A T \in SUBSET S : Cardinality(T) <= n + 1 => h[T] = Rec(h, T)
    BY <2>6
  <2>8. n + 1 \in Nat
    OBVIOUS
  <2> HIDE DEF Rec
  <2> QED BY <2>4, <2>7, <2>8
<1>3. Nat \subseteq Good
  <2> HIDE DEF Good
  <2> QED BY <1>1, <1>2, SetInduction
<1>4. Cardinality(S) \in Good
  BY <1>3, FS_CardinalityType
<1>5. PICK g \in [SUBSET S -> Int] :
         \A T \in SUBSET S : Cardinality(T) <= Cardinality(S) => g[T] = Rec(g, T)
  BY <1>4
<1>6. \A T \in SUBSET S : g[T] = Rec(g, T)
  BY <1>0, <1>5
<1>7. g = [T \in SUBSET S |-> Rec(g, T)]
  BY <1>6
<1> QED BY <1>7 DEF Adds

LEMMA AddsIsSum ==
    ASSUME NEW S, IsFiniteSet(S), NEW f \in [S -> Int], NEW g, Adds(g, f, S)
    PROVE  IsSum(g, f, S)
<1>1. \A T \in SUBSET S : g[T] = IF T = {} THEN 0 ELSE f[Chosen(T)] + g[T \ {Chosen(T)}]
  BY Zenon DEF Adds
<1>2. g[{}] = 0
  BY <1>1
<1>3. \A T \in SUBSET S : T # {} => Chosen(T) \in T
  BY ChosenIn
<1> DEFINE Typed == {T \in SUBSET S : g[T] \in Int}
<1>4. \A T \in SUBSET S : T \in Typed
  <2>1. ASSUME NEW T \in SUBSET S, \A x \in T : T \ {x} \in Typed PROVE T \in Typed
    <3>1. CASE T = {}
      BY <1>2, <3>1
    <3>2. CASE T # {}
      <4> DEFINE c == Chosen(T)
      <4>1. c \in T
        BY <1>3, <3>2
      <4>2. g[T] = f[c] + g[T \ {c}]
        BY <1>1, <3>2
      <4>3. g[T \ {c}] \in Int /\ f[c] \in Int
        BY <2>1, <4>1
      <4> QED BY <4>2, <4>3
    <3> QED BY <3>1, <3>2
  <2> HIDE DEF Typed
  <2> QED BY <2>1, SubsetInduction
<1>5. g \in [SUBSET S -> Int]
  <2>1. g = [T \in SUBSET S |-> g[T]]
    BY DEF Adds
  <2> QED BY <1>4, <2>1
<1> DEFINE Free == {T \in SUBSET S : \A x \in T : g[T] = f[x] + g[T \ {x}]}
<1>6. \A T \in SUBSET S : T \in Free
  <2>1. ASSUME NEW T \in SUBSET S, \A x \in T : T \ {x} \in Free PROVE T \in Free
    <3> SUFFICES ASSUME NEW x \in T PROVE g[T] = f[x] + g[T \ {x}]
      OBVIOUS
    <3> DEFINE c == Chosen(T)
    <3>1. c \in T /\ g[T] = f[c] + g[T \ {c}]
      BY <1>1, <1>3
    <3>2. CASE c = x
      BY <3>1, <3>2
    <3>3. CASE c # x
      <4>1. g[T \ {c}] = f[x] + g[(T \ {c}) \ {x}]
        <5>1. T \ {c} \in Free /\ x \in T \ {c}
          BY <2>1, <3>1, <3>3
        <5> QED BY <5>1
      <4>2. g[T \ {x}] = f[c] + g[(T \ {x}) \ {c}]
        <5>1. T \ {x} \in Free /\ c \in T \ {x}
          BY <2>1, <3>1, <3>3
        <5> QED BY <5>1
      <4>3. (T \ {c}) \ {x} = (T \ {x}) \ {c} /\ (T \ {x}) \ {c} \in SUBSET S
        OBVIOUS
      <4>4. g[(T \ {x}) \ {c}] \in Int /\ f[x] \in Int /\ f[c] \in Int
        BY <1>5, <3>1, <4>3
      <4>5. g[T] = f[c] + (f[x] + g[(T \ {x}) \ {c}])
        BY <3>1, <4>1, <4>3
      <4> HIDE DEF c
      <4> QED BY <4>2, <4>4, <4>5
    <3> QED BY <3>2, <3>3
  <2> HIDE DEF Free
  <2> QED BY <2>1, SubsetInduction
<1> QED BY <1>2, <1>5, <1>6 DEF IsSum
\* A sum with an element more.
LEMMA SumAdds ==
    \A g, f, S : IsSum(g, f, S) =>
        \A T \in SUBSET S : \A x \in T : g[T] = f[x] + g[T \ {x}] /\ g[T \ {x}] \in Int
BY DEF IsSum

\* Of smaller terms.
LEMMA SumAtMost ==
    ASSUME NEW U, IsFiniteSet(U), NEW S \in SUBSET U, NEW f \in [S -> Int], NEW e \in [U -> Int],
           NEW g, NEW h, IsSum(g, f, S), IsSum(h, e, U), \A x \in S : f[x] <= e[x]
    PROVE  g[S] <= h[S]
<1> DEFINE Good == {T \in SUBSET S : g[T] <= h[T]}
<1>1. IsFiniteSet(S)
  BY FS_Subset
<1>2. ASSUME NEW T \in SUBSET S, \A x \in T : T \ {x} \in Good PROVE T \in Good
  <2>1. CASE T = {}
    BY <2>1 DEF IsSum
  <2>2. CASE T # {}
    <3>1. PICK x : x \in T
      BY <2>2
    <3>2. g[T] = f[x] + g[T \ {x}] /\ g[T \ {x}] \in Int
      BY <3>1, SumAdds
    <3>3. h[T] = e[x] + h[T \ {x}] /\ h[T \ {x}] \in Int
      <4>1. T \in SUBSET U
        OBVIOUS
      <4> QED BY <3>1, <4>1, SumAdds
    <3>4. g[T \ {x}] <= h[T \ {x}] /\ f[x] <= e[x] /\ f[x] \in Int /\ e[x] \in Int
      BY <1>2, <3>1
    <3>5. g[T] <= h[T]
      BY <3>2, <3>3, <3>4
    <3> QED BY <3>5
  <2> QED BY <2>1, <2>2
<1>3. \A T \in SUBSET S : T \in Good
  <2> HIDE DEF Good
  <2> QED BY <1>1, <1>2, SubsetInduction
<1> QED BY <1>3

\* Of the same terms.
LEMMA SumAgrees ==
    ASSUME NEW U, IsFiniteSet(U), NEW S \in SUBSET U, NEW f \in [S -> Int], NEW e \in [U -> Int],
           NEW g, NEW h, IsSum(g, f, S), IsSum(h, e, U), \A x \in S : f[x] = e[x]
    PROVE  g[S] = h[S]
<1> DEFINE k == [T \in SUBSET S |-> h[T]]
<1>1. IsFiniteSet(S) /\ S \in SUBSET S
  BY FS_Subset
<1>2. \A x \in S : f[x] <= e[x] /\ f[x] <= f[x]
  OBVIOUS
<1>3. g[S] <= h[S]
  BY <1>2, SumAtMost
<1>4. IsSum(k, f, S)
  <2>1. ASSUME NEW T \in SUBSET S, NEW x \in T PROVE k[T] = f[x] + k[T \ {x}]
    <3>1. T \in SUBSET U /\ T \ {x} \in SUBSET S /\ f[x] = e[x]
      OBVIOUS
    <3>2. h[T] = e[x] + h[T \ {x}]
      BY <3>1, SumAdds
    <3>3. k[T] = h[T] /\ k[T \ {x}] = h[T \ {x}]
      BY <3>1
    <3> QED BY <3>1, <3>2, <3>3
  <2>2. k \in [SUBSET S -> Int] /\ k[{}] = 0
    BY DEF IsSum
  <2> QED BY <2>1, <2>2 DEF IsSum
<1>5. k[S] <= g[S]
  <2> HIDE DEF k
  <2> QED BY <1>1, <1>2, <1>4, SumAtMost
<1>6. k[S] = h[S] /\ g[S] \in Int /\ h[S] \in Int
  BY DEF IsSum
<1> QED BY <1>3, <1>5, <1>6

\* With terms of at most b more.
LEMMA SumGrows ==
    ASSUME NEW U, IsFiniteSet(U), NEW X \in SUBSET U, NEW f \in [U -> Int], NEW g,
           IsSum(g, f, U), NEW b \in Int, \A x \in U \ X : f[x] <= b
    PROVE  g[U] <= g[X] + b * Cardinality(U \ X)
<1> DEFINE More == U \ X
           Good == {T \in SUBSET More : g[X \union T] <= g[X] + b * Cardinality(T)}
<1>1. IsFiniteSet(More) /\ g[X] \in Int
  <2>1. More \in SUBSET U
    OBVIOUS
  <2> QED BY <2>1, FS_Subset DEF IsSum
<1>2. ASSUME NEW T \in SUBSET More, \A x \in T : T \ {x} \in Good PROVE T \in Good
  <2>1. IsFiniteSet(T) /\ Cardinality(T) \in Nat
    BY <1>1, FS_Subset, FS_CardinalityType
  <2>2. CASE T = {}
    <3>1. X \union T = X /\ Cardinality(T) = 0
      BY <2>2, FS_EmptySet
    <3>2. b * 0 = 0
      BY b \in Int
    <3>3. g[X \union T] = g[X] /\ b * Cardinality(T) = 0
      BY <3>1, <3>2, Zenon
    <3>4. g[X \union T] <= g[X] + b * Cardinality(T)
      BY <1>1, <3>3
    <3> QED BY <3>4
  <2>3. CASE T # {}
    <3>1. PICK x : x \in T
      BY <2>3
    <3>2. PICK n \in Int : n = Cardinality(T \ {x}) /\ Cardinality(T) = n + 1
      <4>1. Cardinality(T \ {x}) = Cardinality(T) - 1
        BY <2>1, <3>1, FS_RemoveElement
      <4> QED BY <2>1, <4>1
    <3>3. (X \union T) \ {x} = X \union (T \ {x}) /\ X \union T \in SUBSET U /\ x \in X \union T
      BY <3>1
    <3>4. g[X \union T] = f[x] + g[X \union (T \ {x})] /\ g[X \union (T \ {x})] \in Int
      BY <3>3, SumAdds
    <3>5. g[X \union (T \ {x})] <= g[X] + b * n
      BY <1>2, <3>1, <3>2
    <3>6. f[x] \in Int /\ f[x] <= b
      BY <3>1
    <3>7. b * (n + 1) = b * n + b /\ b * n \in Int
      BY n \in Int, b \in Int
    <3>8. g[X \union T] <= g[X] + b * Cardinality(T)
      BY <1>1, <3>2, <3>4, <3>5, <3>6, <3>7
    <3> QED BY <3>8
  <2> QED BY <2>2, <2>3
<1>3. \A T \in SUBSET More : T \in Good
  <2> HIDE DEF Good, More
  <2> QED BY <1>1, <1>2, SubsetInduction
<1>4. X \union More = U
  OBVIOUS
<1> QED BY <1>3, <1>4

\* Of terms that are not negative.
LEMMA SumPositive ==
    ASSUME NEW U, IsFiniteSet(U), NEW f \in [U -> Int], NEW g, IsSum(g, f, U),
           \A x \in U : f[x] >= 0
    PROVE  g[U] >= 0
<1> DEFINE Good == {T \in SUBSET U : g[T] >= 0}
<1>1. ASSUME NEW T \in SUBSET U, \A x \in T : T \ {x} \in Good PROVE T \in Good
  <2>1. CASE T = {}
    BY <2>1 DEF IsSum
  <2>2. CASE T # {}
    <3>1. PICK x : x \in T
      BY <2>2
    <3>2. g[T] = f[x] + g[T \ {x}] /\ g[T \ {x}] \in Int
      BY <3>1, SumAdds
    <3>3. f[x] \in Int /\ f[x] >= 0 /\ g[T \ {x}] >= 0
      BY <1>1, <3>1
    <3>4. g[T] >= 0
      BY <3>2, <3>3
    <3> QED BY <3>4
  <2> QED BY <2>1, <2>2
<1>2. \A T \in SUBSET U : T \in Good
  <2> HIDE DEF Good
  <2> QED BY <1>1, SubsetInduction
<1> QED BY <1>2

------------------------------------------------------------------------------
(* Quotients, rounded down.                                                 *)
LEMMA Quotient ==
    ASSUME NEW a \in Int, NEW d \in Nat \ {0}
    PROVE  a \div d \in Int /\ (a \div d) * d <= a /\ a < (a \div d) * d + d
OBVIOUS

LEMMA QuotientAtMost ==
    ASSUME NEW a \in Int, NEW c \in Int, NEW b \in Nat \ {0}, NEW d \in Nat \ {0}, a * b <= c * d
    PROVE  a \div d <= c \div b
<1>1. PICK q \in Int : q = a \div d /\ q * d <= a
  BY Quotient
<1>2. PICK r \in Int : r = c \div b /\ c < r * b + b
  BY Quotient
<1> SUFFICES ASSUME q > r PROVE FALSE
  BY <1>1, <1>2
<1>3. (q * d) * b <= a * b
  BY <1>1
<1>4. c * d < (r * b + b) * d
  BY <1>2
<1>5. (r * b + b) * d <= (q * b) * d
  <2>1. r * b + b <= q * b
    <3>1. (r + 1) * b <= q * b
      OBVIOUS
    <3> QED BY <3>1
  <2>2. r * b + b \in Int /\ q * b \in Int
    OBVIOUS
  <2> QED BY <2>1, <2>2
<1>6. (q * d) * b = (q * b) * d
  OBVIOUS
<1> QED BY <1>3, <1>4, <1>5, <1>6
=============================================================================
