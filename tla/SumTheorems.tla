----------------------------- MODULE SumTheorems -----------------------------
(***************************************************************************)
(* Facts the other modules' proofs rest on: induction over the naturals    *)
(* and over finite sets, stated for a set instead of an operator, and the  *)
(* sums of the Functions module, which they make it possible to reason     *)
(* about.                                                                  *)
(***************************************************************************)
EXTENDS Integers, Sequences, FiniteSets, Functions, SequenceTheorems,
        FiniteSetTheorems, WellFoundedInduction, TLAPS

\* A set that holds 0, and n + 1 with n, holds every natural number.
LEMMA OnNaturals ==
  ASSUME NEW S, 0 \in S, \A n \in Nat : n \in S => n + 1 \in S
  PROVE  Nat \subseteq S
<1> DEFINE R == OpToRel(<, Nat)
           T == Nat \ S
<1>1. SUFFICES ASSUME T # {} PROVE FALSE
  OBVIOUS
<1>2. PICK x \in T : \A y \in T : ~(<<y, x>> \in R)
  <2>1. IsWellFoundedOn(R, Nat)
    BY NatLessThanWellFounded
  <2>2. T \subseteq Nat
    OBVIOUS
  <2> HIDE DEF R, T
  <2> QED
    BY <1>1, <2>1, <2>2, WFMin
<1>3. \A y \in T : ~(y < x)
  BY <1>2 DEF OpToRel
<1>4. x # 0 /\ x - 1 \in Nat /\ x - 1 < x
  OBVIOUS
<1>5. x - 1 \in S
  BY <1>3, <1>4
<1> QED
  BY <1>4, <1>5

\* One element less, one less to count.
LEMMA TakeOne ==
  ASSUME NEW T, IsFiniteSet(T), NEW n \in Nat, Cardinality(T) = n + 1, NEW x \in T
  PROVE  Cardinality(T \ {x}) = n
<1>1. Cardinality(T \ {x}) = Cardinality(T) - 1
  BY FS_RemoveElement
<1> QED
  BY <1>1

\* A family that holds the empty set, and a set with one element more, holds
\* the finite set D.
LEMMA OnFiniteSets ==
  ASSUME NEW D, IsFiniteSet(D), NEW C, {} \in C,
         \A T \in SUBSET D : \A x \in D \ T : T \in C => T \cup {x} \in C
  PROVE  D \in C
<1> DEFINE S == {n \in Nat : \A T \in SUBSET D : Cardinality(T) = n => T \in C}
<1>1. 0 \in S
  <2> SUFFICES ASSUME NEW T \in SUBSET D, Cardinality(T) = 0 PROVE T \in C
    OBVIOUS
  <2> QED
    BY FS_Subset, FS_EmptySet
<1>2. ASSUME NEW n \in Nat, n \in S PROVE n + 1 \in S
  <2> SUFFICES ASSUME NEW T \in SUBSET D, Cardinality(T) = n + 1 PROVE T \in C
    OBVIOUS
  <2>1. IsFiniteSet(T) /\ T # {}
    BY FS_Subset, FS_EmptySet
  <2>2. PICK x \in T : TRUE
    BY <2>1
  <2>3. T \ {x} \in SUBSET D /\ Cardinality(T \ {x}) = n
    BY <2>1, TakeOne
  <2>4. (T \ {x}) \cup {x} = T /\ x \in D \ (T \ {x})
    OBVIOUS
  <2>5. T \ {x} \in C
    BY <1>2, <2>3
  <2> QED
    BY <2>3, <2>4, <2>5
<1> HIDE DEF S
<1>3. Nat \subseteq S
  BY <1>1, <1>2, OnNaturals
<1> QED
  BY <1>3, FS_CardinalityType DEF S

-----------------------------------------------------------------------------
(* Sums: the recursive function they are defined by exists, on the subsets *)
(* of a finite set.                                                        *)

Pick(S) == CHOOSE x \in S : TRUE

IterStep(iter, w, s) == IF s = {} THEN 0 ELSE w[Pick(s)] + iter[s \ {Pick(s)}]

IsIter(iter, w, D) == iter = [s \in SUBSET D |-> IterStep(iter, w, s)]

\* The sum of the community modules is an iteration over all subsets, read at D.
LEMMA SumUnfold ==
  ASSUME NEW w, NEW D
  PROVE  SumFunctionOnSet(w, D) = (CHOOSE iter : IsIter(iter, w, D))[D]
BY DEF SumFunctionOnSet, FoldFunctionOnSet, MapThenFoldSet, IsIter, IterStep, Pick

\* A non-empty set has the element Pick takes.
LEMMA Picked == ASSUME NEW S, S # {} PROVE Pick(S) \in S
BY DEF Pick

\* The iteration that the sum chooses exists, for it does up to any size of subset.
LEMMA IterExists ==
  ASSUME NEW w, NEW D, IsFiniteSet(D) PROVE \E iter : IsIter(iter, w, D)
<1> DEFINE Upto(n) == {s \in SUBSET D : Cardinality(s) <= n}
           IsPart(g, n) == g = [s \in Upto(n) |-> IterStep(g, w, s)]
           S == {n \in Nat : \E g : IsPart(g, n)}
<1>1. \A s \in SUBSET D : IsFiniteSet(s) /\ Cardinality(s) \in Nat
  BY FS_Subset, FS_CardinalityType
<1>2. 0 \in S
  <2> DEFINE g == [s \in Upto(0) |-> 0]
  <2>1. \A s \in Upto(0) : IterStep(g, w, s) = 0
    <3>1. \A s \in Upto(0) : s = {}
      BY <1>1, FS_EmptySet
    <3> QED
      BY <3>1 DEF IterStep
  <2>2. g = [s \in Upto(0) |-> IterStep(g, w, s)]
    BY <2>1
  <2> QED
    BY <2>2
<1>3. ASSUME NEW n \in Nat, n \in S PROVE n + 1 \in S
  <2>1. PICK g : IsPart(g, n)
    BY <1>3
  <2> DEFINE h == [s \in Upto(n + 1) |-> IterStep(g, w, s)]
  <2>2. ASSUME NEW s \in Upto(n + 1), s # {}
        PROVE  h[s \ {Pick(s)}] = g[s \ {Pick(s)}]
    <3>1. Pick(s) \in s
      BY <2>2, Picked
    <3>2. s \ {Pick(s)} \in Upto(n) /\ s \ {Pick(s)} \in Upto(n + 1)
      <4>1. Cardinality(s \ {Pick(s)}) = Cardinality(s) - 1
        BY <1>1, <3>1, FS_RemoveElement
      <4> QED
        BY <1>1, <4>1
    <3>3. g[s \ {Pick(s)}] = IterStep(g, w, s \ {Pick(s)})
      BY <2>1, <3>2
    <3> QED
      BY <3>2, <3>3
  <2>3. h = [s \in Upto(n + 1) |-> IterStep(h, w, s)]
    <3>1. \A s \in Upto(n + 1) : IterStep(g, w, s) = IterStep(h, w, s)
      BY <2>2 DEF IterStep
    <3> QED
      BY <3>1
  <2>4. IsPart(h, n + 1)
    BY <2>3
  <2> HIDE DEF h, IsPart
  <2> QED
    BY <2>4
<1> HIDE DEF S
<1>4. Nat \subseteq S
  BY <1>2, <1>3, OnNaturals
<1>5. PICK g : IsPart(g, Cardinality(D))
  BY <1>1, <1>4 DEF S
<1>6. Upto(Cardinality(D)) = SUBSET D
  BY FS_Subset
<1> QED
  BY <1>5, <1>6 DEF IsIter

\* So what is chosen is one.
LEMMA IterHas ==
  ASSUME NEW w, NEW D, IsFiniteSet(D)
  PROVE  IsIter(CHOOSE iter : IsIter(iter, w, D), w, D)
BY IterExists

Same(w, v, T) == \A x \in T : w[x] = v[x]

\* The functions over two sets agree on a set inside both.
LEMMA IterAgree ==
  ASSUME NEW w, NEW v, NEW D, NEW E, NEW T, T \subseteq D, T \subseteq E, IsFiniteSet(T),
         NEW g, NEW h, IsIter(g, w, D), IsIter(h, v, E), Same(w, v, T)
  PROVE  g[T] = h[T]
<1> DEFINE S == {n \in Nat : \A s \in SUBSET T : Cardinality(s) = n => g[s] = h[s]}
<1>1. \A s \in SUBSET T : /\ g[s] = IterStep(g, w, s)
                          /\ h[s] = IterStep(h, v, s)
                          /\ IsFiniteSet(s) /\ Cardinality(s) \in Nat
  BY FS_Subset, FS_CardinalityType DEF IsIter
<1>2. 0 \in S
  BY <1>1, FS_EmptySet DEF IterStep
<1>3. ASSUME NEW n \in Nat, n \in S PROVE n + 1 \in S
  <2> SUFFICES ASSUME NEW s \in SUBSET T, Cardinality(s) = n + 1 PROVE g[s] = h[s]
    OBVIOUS
  <2>1. s # {}
    BY FS_EmptySet
  <2>2. Pick(s) \in s
    BY <2>1, Picked
  <2>3. Cardinality(s \ {Pick(s)}) = n
    BY <1>1, <2>2, TakeOne
  <2>4. g[s \ {Pick(s)}] = h[s \ {Pick(s)}]
    BY <1>3, <2>3
  <2>5. IterStep(g, w, s) = IterStep(h, v, s)
    BY <2>1, <2>2, <2>4 DEF IterStep, Same
  <2> QED
    BY <1>1, <2>5
<1> HIDE DEF S
<1>4. Nat \subseteq S
  BY <1>2, <1>3, OnNaturals
<1> QED
  BY <1>1, <1>4 DEF S

-----------------------------------------------------------------------------
(* What a sum is.                                                          *)

\* Nothing adds up to nothing.
LEMMA SumEmpty == ASSUME NEW w PROVE SumFunctionOnSet(w, {}) = 0
<1>1. IsFiniteSet({})
  BY FS_EmptySet
<1> DEFINE g == CHOOSE iter : IsIter(iter, w, {})
<1>2. IsIter(g, w, {})
  BY <1>1, IterHas
<1> HIDE DEF g
<1>3. g[{}] = 0
  BY <1>2 DEF IsIter, IterStep
<1> QED
  BY <1>3, SumUnfold DEF g

\* Only the values on the set matter.
LEMMA SumSame ==
  ASSUME NEW w, NEW v, NEW D, IsFiniteSet(D), \A x \in D : w[x] = v[x]
  PROVE  SumFunctionOnSet(w, D) = SumFunctionOnSet(v, D)
<1> DEFINE g == CHOOSE iter : IsIter(iter, w, D)
           h == CHOOSE iter : IsIter(iter, v, D)
<1>1. IsIter(g, w, D) /\ IsIter(h, v, D)
  BY IterHas
<1> HIDE DEF g, h
<1>2. g[D] = h[D]
  <2>1. D \subseteq D /\ Same(w, v, D)
    BY DEF Same
  <2> QED
    BY <1>1, <2>1, IterAgree
<1> QED
  BY <1>2, SumUnfold DEF g, h

\* A sum is the element picked and the sum of the others.
LEMMA SumPick ==
  ASSUME NEW w, NEW D, IsFiniteSet(D), D # {}
  PROVE  SumFunctionOnSet(w, D) = w[Pick(D)] + SumFunctionOnSet(w, D \ {Pick(D)})
<1> DEFINE E == D \ {Pick(D)}
           g == CHOOSE iter : IsIter(iter, w, D)
           h == CHOOSE iter : IsIter(iter, w, E)
<1>1. IsFiniteSet(E)
  BY FS_Subset
<1>2. IsIter(g, w, D) /\ IsIter(h, w, E)
  BY <1>1, IterHas
<1>3. SumFunctionOnSet(w, D) = g[D] /\ SumFunctionOnSet(w, E) = h[E]
  BY SumUnfold
<1> HIDE DEF g, h
<1>4. g[D] = w[Pick(D)] + g[E]
  BY <1>2 DEF IsIter, IterStep
<1>5. g[E] = h[E]
  BY <1>1, <1>2, IterAgree DEF Same
<1> QED
  BY <1>3, <1>4, <1>5

\* A sum of naturals is a natural, a sum of integers an integer.
LEMMA SumType ==
  ASSUME NEW D, IsFiniteSet(D), NEW w, NEW V, V \in {Nat, Int}, \A x \in D : w[x] \in V
  PROVE  SumFunctionOnSet(w, D) \in V
<1> DEFINE Sum(T) == SumFunctionOnSet(w, T)
           S == {n \in Nat : \A T \in SUBSET D : Cardinality(T) = n => Sum(T) \in V}
<1>1. \A T \in SUBSET D : IsFiniteSet(T) /\ Cardinality(T) \in Nat
  BY FS_Subset, FS_CardinalityType
<1>2. 0 \in S
  BY <1>1, FS_EmptySet, SumEmpty
<1>3. ASSUME NEW n \in Nat, n \in S PROVE n + 1 \in S
  <2> SUFFICES ASSUME NEW T \in SUBSET D, Cardinality(T) = n + 1 PROVE Sum(T) \in V
    OBVIOUS
  <2>1. Pick(T) \in T /\ Sum(T) = w[Pick(T)] + Sum(T \ {Pick(T)})
    BY <1>1, FS_EmptySet, Picked, SumPick
  <2>2. Cardinality(T \ {Pick(T)}) = n /\ T \ {Pick(T)} \in SUBSET D
    BY <1>1, <2>1, TakeOne
  <2>3. Sum(T \ {Pick(T)}) \in V
    BY <1>3, <2>2
  <2> HIDE DEF Sum
  <2> QED
    BY <2>1, <2>3
<1> HIDE DEF S
<1>4. Nat \subseteq S
  BY <1>2, <1>3, OnNaturals
<1> QED
  BY <1>1, <1>4 DEF S

\* Any element may be taken out first.
LEMMA SumTake ==
  ASSUME NEW D, IsFiniteSet(D), NEW w, \A x \in D : w[x] \in Int, NEW x \in D
  PROVE  SumFunctionOnSet(w, D) = w[x] + SumFunctionOnSet(w, D \ {x})
<1> DEFINE Sum(T) == SumFunctionOnSet(w, T)
           Good(T) == \A y \in T : Sum(T) = w[y] + Sum(T \ {y})
           S == {n \in Nat : \A T \in SUBSET D : Cardinality(T) = n => Good(T)}
<1>1. \A T \in SUBSET D : /\ IsFiniteSet(T) /\ Cardinality(T) \in Nat
                          /\ Sum(T) \in Int
  BY FS_Subset, FS_CardinalityType, SumType
<1>2. 0 \in S
  BY <1>1, FS_EmptySet
<1>3. ASSUME NEW n \in Nat, n \in S PROVE n + 1 \in S
  <2> SUFFICES ASSUME NEW T \in SUBSET D, Cardinality(T) = n + 1, NEW y \in T
               PROVE  Sum(T) = w[y] + Sum(T \ {y})
    OBVIOUS
  <2> DEFINE p == Pick(T)
  <2>1. p \in T /\ Sum(T) = w[p] + Sum(T \ {p})
    BY <1>1, Picked, SumPick
  <2> HIDE DEF p
  <2>2. CASE y = p
    BY <2>1, <2>2
  <2>3. CASE y # p
    <3>1. Good(T \ {p}) /\ Good(T \ {y})
      <4>1. Cardinality(T \ {p}) = n /\ Cardinality(T \ {y}) = n
        BY <1>1, <2>1, TakeOne
      <4> QED
        BY <1>3, <4>1
    <3>2. (T \ {p}) \ {y} = (T \ {y}) \ {p}
      OBVIOUS
    <3>3. Sum(T \ {p}) = w[y] + Sum((T \ {y}) \ {p})
      BY <2>3, <3>1, <3>2
    <3>4. Sum(T \ {y}) = w[p] + Sum((T \ {y}) \ {p})
      BY <2>1, <2>3, <3>1
    <3>5. w[y] \in Int /\ w[p] \in Int /\ Sum((T \ {y}) \ {p}) \in Int
      BY <1>1, <2>1
    <3> HIDE DEF Sum
    <3>6. ASSUME NEW a \in Int, NEW b \in Int, NEW c \in Int PROVE a + (b + c) = b + (a + c)
      OBVIOUS
    <3> QED
      BY <2>1, <3>3, <3>4, <3>5, <3>6
  <2> QED
    BY <2>2, <2>3
<1> HIDE DEF S
<1>4. Nat \subseteq S
  BY <1>2, <1>3, OnNaturals
<1> QED
  BY <1>1, <1>4 DEF S

\* One value changed changes the sum by the difference.
LEMMA SumChange ==
  ASSUME NEW D, IsFiniteSet(D), NEW w, NEW v, NEW x \in D,
         \A y \in D : w[y] \in Int, v[x] \in Int, \A y \in D \ {x} : v[y] = w[y]
  PROVE  SumFunctionOnSet(v, D) = SumFunctionOnSet(w, D) - w[x] + v[x]
<1>1. IsFiniteSet(D \ {x})
  BY FS_Subset
<1>2. \A y \in D : v[y] \in Int
  OBVIOUS
<1>3. SumFunctionOnSet(w, D) = w[x] + SumFunctionOnSet(w, D \ {x})
  BY SumTake
<1>4. SumFunctionOnSet(v, D) = v[x] + SumFunctionOnSet(v, D \ {x})
  BY <1>2, SumTake
<1>5. SumFunctionOnSet(v, D \ {x}) = SumFunctionOnSet(w, D \ {x})
  BY <1>1, SumSame
<1>6. SumFunctionOnSet(w, D \ {x}) \in Int
  BY <1>1, SumType
<1> QED
  BY <1>3, <1>4, <1>5, <1>6

\* Nothing adds up to nothing.
LEMMA SumZero ==
  ASSUME NEW D, IsFiniteSet(D), NEW w, \A x \in D : w[x] = 0
  PROVE  SumFunctionOnSet(w, D) = 0
<1> DEFINE C == {T \in SUBSET D : SumFunctionOnSet(w, T) = 0}
<1>1. {} \in C
  BY SumEmpty
<1>2. ASSUME NEW T \in SUBSET D, NEW x \in D \ T, T \in C PROVE T \cup {x} \in C
  <2>1. IsFiniteSet(T \cup {x}) /\ (T \cup {x}) \ {x} = T /\ x \in T \cup {x}
    BY FS_Subset
  <2>2. \A y \in T \cup {x} : w[y] \in Int
    OBVIOUS
  <2>3. SumFunctionOnSet(w, T \cup {x}) = w[x] + SumFunctionOnSet(w, (T \cup {x}) \ {x})
    BY <2>1, <2>2, SumTake
  <2> QED
    BY <1>2, <2>1, <2>3
<1> HIDE DEF C
<1>3. D \in C
  BY <1>1, <1>2, OnFiniteSets
<1> QED
  BY <1>3 DEF C

-----------------------------------------------------------------------------
(* Sums of sequences.                                                      *)

\* The sum over an interval, without its last element.
LEMMA SumUpTo ==
  ASSUME NEW n \in Nat, NEW w, \A i \in 1..(n + 1) : w[i] \in Int
  PROVE  SumFunctionOnSet(w, 1..(n + 1)) = SumFunctionOnSet(w, 1..n) + w[n + 1]
<1>1. IsFiniteSet(1..(n + 1)) /\ IsFiniteSet(1..n)
  BY FS_Interval
<1>2. n + 1 \in 1..(n + 1) /\ (1..(n + 1)) \ {n + 1} = 1..n
  OBVIOUS
<1>3. SumFunctionOnSet(w, 1..(n + 1)) = w[n + 1] + SumFunctionOnSet(w, 1..n)
  BY <1>1, <1>2, SumTake
<1>4. SumFunctionOnSet(w, 1..n) \in Int
  BY <1>1, SumType
<1> QED
  BY <1>2, <1>3, <1>4

\* The elements of a sequence add up to a number of their kind.
LEMMA SumSeqType ==
  ASSUME NEW V \in {Nat, Int}, NEW s \in Seq(V) PROVE SumFunction(s) \in V
<1>1. DOMAIN s = 1..Len(s) /\ Len(s) \in Nat /\ \A i \in 1..Len(s) : s[i] \in V
  BY LenProperties, ElementOfSeq
<1>2. IsFiniteSet(1..Len(s))
  BY <1>1, FS_Interval
<1> QED
  BY <1>1, <1>2, SumType DEF SumFunction

\* The sum of two sequences, one behind the other.
LEMMA SumConcat ==
  ASSUME NEW s \in Seq(Int), NEW t \in Seq(Int)
  PROVE  SumFunction(s \o t) = SumFunction(s) + SumFunction(t)
<1> DEFINE r == s \o t
           n == Len(s)
           S == {k \in Nat : k <= Len(t) =>
                   SumFunctionOnSet(r, 1..(n + k))
                     = SumFunctionOnSet(s, 1..n) + SumFunctionOnSet(t, 1..k)}
<1>1. /\ DOMAIN s = 1..n /\ n \in Nat /\ \A i \in 1..n : s[i] \in Int
      /\ DOMAIN t = 1..Len(t) /\ Len(t) \in Nat /\ \A i \in 1..Len(t) : t[i] \in Int
  BY LenProperties, ElementOfSeq
<1>2. /\ r \in Seq(Int) /\ Len(r) = n + Len(t)
      /\ \A i \in 1..n : r[i] = s[i]
      /\ \A i \in 1..Len(t) : r[n + i] = t[i]
  <2>1. /\ r \in Seq(Int) /\ Len(r) = n + Len(t)
        /\ \A i \in 1..(n + Len(t)) : r[i] = IF i <= n THEN s[i] ELSE t[i - n]
    BY ConcatProperties
  <2>2. ASSUME NEW i \in 1..Len(t) PROVE r[n + i] = t[i]
    <3>1. n + i \in 1..(n + Len(t)) /\ ~(n + i <= n) /\ (n + i) - n = i
      BY <1>1
    <3> QED
      BY <2>1, <3>1
  <2> QED
    BY <1>1, <2>1, <2>2
<1>3. DOMAIN r = 1..(n + Len(t)) /\ \A i \in 1..(n + Len(t)) : r[i] \in Int
  BY <1>2, LenProperties, ElementOfSeq
<1> HIDE DEF r, n
<1>4. SumFunctionOnSet(s, 1..n) \in Int
      /\ \A k \in Nat : k <= Len(t) => SumFunctionOnSet(t, 1..k) \in Int
  <2>1. \A k \in Nat : IsFiniteSet(1..k)
    BY FS_Interval
  <2>2. SumFunctionOnSet(s, 1..n) \in Int
    BY <1>1, <2>1, SumType
  <2>3. ASSUME NEW k \in Nat, k <= Len(t) PROVE SumFunctionOnSet(t, 1..k) \in Int
    <3>1. \A i \in 1..k : t[i] \in Int
      BY <1>1, <2>3
    <3> QED
      BY <2>1, <3>1, SumType
  <2> QED
    BY <2>2, <2>3
<1>5. 0 \in S
  <2>1. SumFunctionOnSet(r, 1..n) = SumFunctionOnSet(s, 1..n)
    <3>1. IsFiniteSet(1..n)
      BY <1>1, FS_Interval
    <3> QED
      BY <1>2, <3>1, SumSame
  <2>2. 1..0 = {} /\ n + 0 = n
    BY <1>1
  <2>3. SumFunctionOnSet(t, 1..0) = 0
    BY <2>2, SumEmpty
  <2> QED
    BY <1>4, <2>1, <2>2, <2>3
<1>6. ASSUME NEW k \in Nat, k \in S PROVE k + 1 \in S
  <2> SUFFICES ASSUME k + 1 <= Len(t)
               PROVE  SumFunctionOnSet(r, 1..(n + (k + 1)))
                        = SumFunctionOnSet(s, 1..n) + SumFunctionOnSet(t, 1..(k + 1))
    OBVIOUS
  <2>1. SumFunctionOnSet(r, 1..(n + k))
          = SumFunctionOnSet(s, 1..n) + SumFunctionOnSet(t, 1..k)
    BY <1>1, <1>6
  <2>2. /\ n + k \in Nat /\ n + (k + 1) = (n + k) + 1 /\ k + 1 \in 1..Len(t)
        /\ \A i \in 1..((n + k) + 1) : r[i] \in Int
        /\ \A i \in 1..(k + 1) : t[i] \in Int
        /\ r[(n + k) + 1] = t[k + 1]
    BY <1>1, <1>2, <1>3, SMTT(30)
  <2>3. SumFunctionOnSet(r, 1..((n + k) + 1)) = SumFunctionOnSet(r, 1..(n + k)) + t[k + 1]
    BY <2>2, SumUpTo
  <2>4. SumFunctionOnSet(t, 1..(k + 1)) = SumFunctionOnSet(t, 1..k) + t[k + 1]
    BY <2>2, SumUpTo
  <2>5. SumFunctionOnSet(t, 1..k) \in Int /\ t[k + 1] \in Int
    BY <1>1, <1>4, <2>2
  <2> QED
    BY <1>4, <2>1, <2>2, <2>3, <2>4, <2>5, SMTT(30)
<1> HIDE DEF S
<1>7. Len(t) \in S
  BY <1>1, <1>5, <1>6, OnNaturals
<1> QED
  BY <1>1, <1>3, <1>7 DEF S, SumFunction, r, n

\* The sum of a sequence of one.
LEMMA SumOne == ASSUME NEW x \in Int PROVE SumFunction(<<x>>) = x
<1> DEFINE w == <<x>>
<1>1. DOMAIN w = 1..1 /\ w[1] = x
  OBVIOUS
<1> HIDE DEF w
<1>2. IsFiniteSet(1..1) /\ 1 \in 1..1 /\ (1..1) \ {1} = {}
  <2>1. 1..1 = {1}
    OBVIOUS
  <2> QED
    BY <2>1, FS_Singleton
<1>3. \A i \in 1..1 : w[i] \in Int
  BY <1>1
<1>4. SumFunctionOnSet(w, 1..1) = w[1] + SumFunctionOnSet(w, {})
  BY <1>2, <1>3, SumTake
<1> QED
  BY <1>1, <1>4, SumEmpty DEF SumFunction, w

-----------------------------------------------------------------------------
(* A sequence's elements weighed, and the weights added.                   *)

Weigh(w, s) == [i \in DOMAIN s |-> w[s[i]]]

Weight(w, s) == SumFunction(Weigh(w, s))

\* Each element of a sequence, replaced by its weight.
LEMMA WeighType ==
  ASSUME NEW S, NEW w \in [S -> Int], NEW s \in Seq(S)
  PROVE  Weigh(w, s) \in Seq(Int) /\ Len(Weigh(w, s)) = Len(s)
         /\ DOMAIN Weigh(w, s) = 1..Len(s) /\ \A i \in 1..Len(s) : Weigh(w, s)[i] = w[s[i]]
<1>1. DOMAIN s = 1..Len(s) /\ Len(s) \in Nat /\ \A i \in 1..Len(s) : s[i] \in S
  BY LenProperties, ElementOfSeq
<1>2. /\ Weigh(w, s) \in [1..Len(s) -> Int]
      /\ \A i \in 1..Len(s) : Weigh(w, s)[i] = w[s[i]]
  BY <1>1 DEF Weigh
<1> HIDE DEF Weigh
<1>3. Weigh(w, s) \in Seq(Int)
  BY <1>1, <1>2, IsASeq
<1>4. DOMAIN Weigh(w, s) = 1..Len(s)
  BY <1>2
<1>5. Len(Weigh(w, s)) = Len(s)
  BY <1>1, <1>4, Len(s) \in Nat
<1> QED
  BY <1>2, <1>3, <1>4, <1>5

\* The same, of a sequence that already has a name.
LEMMA WeighHas ==
  ASSUME NEW S, NEW w, w \in [S -> Int], NEW s, s \in Seq(S), NEW v, v = Weigh(w, s)
  PROVE  v \in Seq(Int) /\ Len(v) = Len(s) /\ \A i \in 1..Len(s) : v[i] = w[s[i]]
BY WeighType

Joined(u, s, t) ==
    /\ Len(u) = Len(s) + Len(t)
    /\ \A i \in 1..Len(s) : u[i] = s[i]
    /\ \A i \in 1..Len(t) : u[Len(s) + i] = t[i]

\* A concatenation is known by its elements.
LEMMA ConcatIs ==
  ASSUME NEW S, NEW s \in Seq(S), NEW t \in Seq(S), NEW u \in Seq(S), Joined(u, s, t)
  PROVE  u = s \o t
<1>0. /\ Len(u) = Len(s) + Len(t)
      /\ \A i \in 1..Len(s) : u[i] = s[i]
      /\ \A i \in 1..Len(t) : u[Len(s) + i] = t[i]
  BY DEF Joined
<1> DEFINE v == s \o t
<1>1. /\ v \in Seq(S) /\ Len(v) = Len(s) + Len(t)
      /\ \A i \in 1..(Len(s) + Len(t)) : v[i] = IF i <= Len(s) THEN s[i] ELSE t[i - Len(s)]
  BY ConcatProperties
<1>2. Len(s) \in Nat /\ Len(t) \in Nat
  BY LenProperties
<1> HIDE DEF v
<1>3. ASSUME NEW i \in 1..(Len(s) + Len(t)) PROVE u[i] = v[i]
  <2>1. CASE i <= Len(s)
    BY <1>0, <1>1, <1>2, <2>1
  <2>2. CASE ~(i <= Len(s))
    <3>1. i - Len(s) \in 1..Len(t) /\ Len(s) + (i - Len(s)) = i
      BY <1>2, <2>2
    <3>2. u[Len(s) + (i - Len(s))] = t[i - Len(s)]
      BY <1>0, <3>1
    <3> QED
      BY <1>1, <2>2, <3>1, <3>2
  <2> QED
    BY <2>1, <2>2
<1>4. u = v
  BY <1>0, <1>1, <1>3, SeqEqual
<1> QED
  BY <1>4 DEF v

\* A concatenation, element by element.
LEMMA ConcatHas ==
  ASSUME NEW S, NEW s \in Seq(S), NEW t \in Seq(S), NEW u, u = s \o t
  PROVE  /\ u \in Seq(S) /\ Len(u) = Len(s) + Len(t)
         /\ \A i \in 1..Len(s) : u[i] = s[i] /\ i \in 1..Len(u)
         /\ \A i \in 1..Len(t) : u[Len(s) + i] = t[i] /\ Len(s) + i \in 1..Len(u)
<1>1. /\ u \in Seq(S) /\ Len(u) = Len(s) + Len(t)
      /\ \A i \in 1..(Len(s) + Len(t)) : u[i] = IF i <= Len(s) THEN s[i] ELSE t[i - Len(s)]
  BY ConcatProperties
<1>2. Len(s) \in Nat /\ Len(t) \in Nat
  BY LenProperties
<1>3. ASSUME NEW i \in 1..Len(t)
      PROVE  Len(s) + i \in 1..(Len(s) + Len(t)) /\ ~(Len(s) + i <= Len(s)) /\ (Len(s) + i) - Len(s) = i
  BY <1>2
<1> QED
  BY <1>1, <1>2, <1>3

\* What comes first and what comes after weigh together what the whole does.
LEMMA WeightConcat ==
  ASSUME NEW S, NEW w \in [S -> Int], NEW s \in Seq(S), NEW t \in Seq(S)
  PROVE  Weight(w, s \o t) = Weight(w, s) + Weight(w, t)
<1>1. PICK u : u = s \o t
  OBVIOUS
<1>2. /\ u \in Seq(S) /\ Len(u) = Len(s) + Len(t)
      /\ \A i \in 1..Len(s) : u[i] = s[i] /\ i \in 1..Len(u)
      /\ \A i \in 1..Len(t) : u[Len(s) + i] = t[i] /\ Len(s) + i \in 1..Len(u)
  BY <1>1, ConcatHas
<1>3. PICK a : a = Weigh(w, s)
  OBVIOUS
<1>4. PICK b : b = Weigh(w, t)
  OBVIOUS
<1>5. PICK c : c = Weigh(w, u)
  OBVIOUS
<1>6. a \in Seq(Int) /\ Len(a) = Len(s) /\ \A i \in 1..Len(s) : a[i] = w[s[i]]
  BY <1>3, WeighHas, SMTT(30)
<1>7. b \in Seq(Int) /\ Len(b) = Len(t) /\ \A i \in 1..Len(t) : b[i] = w[t[i]]
  BY <1>4, WeighHas, SMTT(30)
<1>8. c \in Seq(Int) /\ Len(c) = Len(u) /\ \A i \in 1..Len(u) : c[i] = w[u[i]]
  <2>1. u \in Seq(S)
    BY <1>2
  <2>2. c \in Seq(Int)
    BY <1>5, <2>1, WeighHas
  <2>3. Len(c) = Len(u)
    <3>1. Len(Weigh(w, u)) = Len(u)
      BY <2>1, WeighType
    <3> QED
      BY <1>5, <3>1
  <2>4. \A i \in 1..Len(u) : c[i] = w[u[i]]
    BY <1>5, <2>1, WeighHas
  <2> QED
    BY <2>2, <2>3, <2>4
<1>9. c = a \o b
  <2>1. Len(c) = Len(a) + Len(b)
    BY <1>2, <1>6, <1>7, <1>8
  <2>2. \A i \in 1..Len(a) : c[i] = a[i]
    BY <1>2, <1>6, <1>7, <1>8
  <2>3. \A i \in 1..Len(b) : c[Len(a) + i] = b[i]
    BY <1>2, <1>6, <1>7, <1>8
  <2>4. Joined(c, a, b)
    BY <2>1, <2>2, <2>3 DEF Joined
  <2>5. a \in Seq(Int) /\ b \in Seq(Int) /\ c \in Seq(Int)
    BY <1>6, <1>7, <1>8
  <2> QED
    BY <2>4, <2>5, ConcatIs
<1>10. SumFunction(a \o b) = SumFunction(a) + SumFunction(b)
  BY <1>6, <1>7, SumConcat
<1> QED
  BY <1>1, <1>3, <1>4, <1>5, <1>9, <1>10 DEF Weight

\* The weight of a sequence is a number of the kind of its weights.
LEMMA WeightType ==
  ASSUME NEW S, NEW V \in {Nat, Int}, NEW w \in [S -> V], NEW s \in Seq(S)
  PROVE  Weight(w, s) \in V
<1>1. w \in [S -> Int]
  OBVIOUS
<1>2. /\ DOMAIN Weigh(w, s) = 1..Len(s) /\ Len(s) \in Nat
      /\ \A i \in 1..Len(s) : Weigh(w, s)[i] = w[s[i]] /\ s[i] \in S
  BY <1>1, WeighType, LenProperties, ElementOfSeq
<1>3. IsFiniteSet(1..Len(s)) /\ \A i \in 1..Len(s) : Weigh(w, s)[i] \in V
  <2>1. \A e \in S : w[e] \in V
    OBVIOUS
  <2>2. \A i \in 1..Len(s) : Weigh(w, s)[i] \in V
    BY <1>2, <2>1, Zenon
  <2> QED
    BY <1>2, <2>2, FS_Interval
<1>4. SumFunctionOnSet(Weigh(w, s), 1..Len(s)) \in V
  BY <1>3, SumType
<1> QED
  BY <1>2, <1>4 DEF Weight, SumFunction

\* An empty sequence weighs nothing.
LEMMA WeightEmpty == ASSUME NEW w PROVE Weight(w, <<>>) = 0
<1>1. DOMAIN Weigh(w, <<>>) = {}
  BY DEF Weigh
<1> QED
  BY <1>1, SumEmpty DEF Weight, SumFunction

\* A sequence of one weighs what its element does.
LEMMA WeightOne ==
  ASSUME NEW S, NEW w \in [S -> Int], NEW e \in S PROVE Weight(w, <<e>>) = w[e]
<1>1. Weigh(w, <<e>>) = <<w[e]>>
  BY DEF Weigh
<1>2. w[e] \in Int
  OBVIOUS
<1> QED
  BY <1>1, <1>2, SumOne DEF Weight

\* An element appended adds its weight.
LEMMA WeightAppend ==
  ASSUME NEW S, NEW w \in [S -> Int], NEW s \in Seq(S), NEW e \in S
  PROVE  Weight(w, Append(s, e)) = Weight(w, s) + w[e]
<1>1. Append(s, e) = s \o <<e>>
  BY AppendIsConcat
<1>2. <<e>> \in Seq(S)
  OBVIOUS
<1>3. Weight(w, <<e>>) = w[e]
  BY WeightOne
<1>4. \A t \in Seq(S) : Weight(w, s \o t) = Weight(w, s) + Weight(w, t)
  BY WeightConcat
<1> QED
  BY <1>1, <1>2, <1>3, <1>4, Zenon

\* The head taken off takes its weight with it.
LEMMA WeightTail ==
  ASSUME NEW S, NEW w \in [S -> Int], NEW s \in Seq(S), s # <<>>
  PROVE  Weight(w, s) = w[Head(s)] + Weight(w, Tail(s))
<1>1. Head(s) \in S /\ Tail(s) \in Seq(S)
  BY HeadTailProperties
<1>2. s = <<Head(s)>> \o Tail(s)
  <2>1. 1 \in 1..Len(s) /\ Len(s) \in 1..Len(s)
    BY LenProperties, EmptySeq
  <2>2. SubSeq(s, 1, Len(s)) = <<s[1]>> \o SubSeq(s, 1 + 1, Len(s))
    BY <2>1, SubSeqRecursiveFirst
  <2>3. SubSeq(s, 1, Len(s)) = s /\ Tail(s) = SubSeq(s, 2, Len(s)) /\ Head(s) = s[1] /\ 1 + 1 = 2
    BY SubSeqFull, TailIsSubSeq
  <2> QED
    BY <2>2, <2>3
<1>3. \A e \in S : <<e>> \in Seq(S)
  OBVIOUS
<1>4. ASSUME NEW e \in S, NEW t \in Seq(S) PROVE Weight(w, <<e>> \o t) = w[e] + Weight(w, t)
  BY <1>3, WeightConcat, WeightOne
<1> QED
  BY <1>1, <1>2, <1>4

\* A sequence cut in two weighs what its parts do.
LEMMA WeightSplit ==
  ASSUME NEW S, NEW w \in [S -> Int], NEW s \in Seq(S), NEW k \in 0..Len(s)
  PROVE  /\ SubSeq(s, 1, k) \in Seq(S) /\ SubSeq(s, k + 1, Len(s)) \in Seq(S)
         /\ Weight(w, s) = Weight(w, SubSeq(s, 1, k)) + Weight(w, SubSeq(s, k + 1, Len(s)))
<1>1. Len(s) \in Nat /\ k \in Int /\ k + 1 \in Int /\ 1 \in Int /\ Len(s) \in Int
      /\ (\A i \in 1..k : s[i] \in S) /\ (\A i \in (k + 1)..Len(s) : s[i] \in S)
  <2>1. Len(s) \in Nat /\ \A i \in 1..Len(s) : s[i] \in S
    BY LenProperties, ElementOfSeq
  <2> QED
    BY <2>1
<1>2. SubSeq(s, 1, k) \in Seq(S) /\ SubSeq(s, k + 1, Len(s)) \in Seq(S)
  BY <1>1, SubSeqProperties
<1>3. SubSeq(s, 1, k) \o SubSeq(s, k + 1, Len(s)) = s
  <2>1. 1 \in 1..(Len(s) + 1) /\ k \in (1 - 1)..Len(s) /\ Len(s) \in k..Len(s)
    BY <1>1
  <2>2. SubSeq(s, 1, k) \o SubSeq(s, k + 1, Len(s)) = SubSeq(s, 1, Len(s))
    BY <2>1, ConcatAdjacentSubSeq
  <2> QED
    BY <2>2, SubSeqFull
<1> QED
  BY <1>2, <1>3, WeightConcat

-------------------------------------------------------------------------------
(* Recursion along a sequence.                                             *)

\* F is g[i] after g[i - 1] after ... g[1], of x.
IsFold(F, N, x, g) == F = [i \in 0..N |-> IF i = 0 THEN x ELSE g[i][F[i - 1]]]

\* A value for each prefix, each from the one before it: there is such a function.
LEMMA FoldExists ==
  ASSUME NEW N \in Nat, NEW x, NEW g
  PROVE  \E F : IsFold(F, N, x, g)
<1> DEFINE S == {n \in Nat : \E F : IsFold(F, n, x, g)}
<1>1. 0 \in S
  <2>1. IsFold([i \in 0..0 |-> x], 0, x, g)
    BY DEF IsFold
  <2> QED
    BY <2>1
<1>2. ASSUME NEW n \in Nat, n \in S PROVE n + 1 \in S
  <2>1. PICK F : IsFold(F, n, x, g)
    BY <1>2
  <2> DEFINE H == [i \in 0..(n + 1) |-> IF i = 0 THEN x ELSE g[i][F[i - 1]]]
  <2>2. \A i \in 0..n : H[i] = F[i]
    BY <2>1 DEF IsFold
  <2>3. \A i \in 0..(n + 1) : i # 0 => F[i - 1] = H[i - 1]
    <3> HIDE DEF H
    <3> QED
      BY <2>2
  <2>4. H = [i \in 0..(n + 1) |-> IF i = 0 THEN x ELSE g[i][H[i - 1]]]
    BY <2>3
  <2>5. IsFold(H, n + 1, x, g)
    BY <2>4 DEF IsFold
  <2> QED
    BY <2>5
<1> HIDE DEF S
<1>3. Nat \subseteq S
  BY <1>1, <1>2, OnNaturals
<1> QED
  BY <1>3 DEF S

\* What holds at the start, and at every step if it held before, holds at the end.
LEMMA FoldStays ==
  ASSUME NEW N \in Nat, NEW F, NEW S, F[0] \in S,
         \A i \in 1..N : F[i - 1] \in S => F[i] \in S
  PROVE  F[N] \in S
<1> DEFINE T == {n \in Nat : n <= N => F[n] \in S}
<1>1. 0 \in T
  OBVIOUS
<1>2. ASSUME NEW n \in Nat, n \in T PROVE n + 1 \in T
  <2> SUFFICES ASSUME n + 1 <= N PROVE F[n + 1] \in S
    OBVIOUS
  <2>1. F[n] \in S
    BY <1>2
  <2>2. n + 1 \in 1..N /\ (n + 1) - 1 = n
    OBVIOUS
  <2> QED
    BY <2>1, <2>2
<1> HIDE DEF T
<1>3. Nat \subseteq T
  BY <1>1, <1>2, OnNaturals
<1> QED
  BY <1>3 DEF T

-------------------------------------------------------------------------------
(* The greatest and the least element of a finite set.                     *)

\* A finite set of integers has a greatest element.
LEMMA Greatest ==
  ASSUME NEW S, IsFiniteSet(S), S # {}, S \subseteq Int
  PROVE  \E x \in S : \A y \in S : x >= y
<1> DEFINE C == {T \in SUBSET S : T = {} \/ \E x \in T : \A y \in T : x >= y}
<1>1. {} \in C
  OBVIOUS
<1>2. ASSUME NEW T \in SUBSET S, NEW z \in S \ T, T \in C
      PROVE  T \cup {z} \in C
  <2>1. CASE T = {}
    BY <2>1
  <2>2. CASE T # {}
    <3>1. PICK x \in T : \A y \in T : x >= y
      BY <1>2, <2>2
    <3>2. CASE x >= z
      BY <3>1, <3>2
    <3>3. CASE ~(x >= z)
      <4>1. \A y \in T \cup {z} : z >= y
        BY <3>1, <3>3
      <4> QED
        BY <4>1
    <3> QED
      BY <3>2, <3>3
  <2> QED
    BY <2>1, <2>2
<1> HIDE DEF C
<1>3. S \in C
  BY <1>1, <1>2, OnFiniteSets
<1> QED
  BY <1>3 DEF C

\* And a least.
LEMMA Least ==
  ASSUME NEW S, IsFiniteSet(S), S # {}, S \subseteq Int
  PROVE  \E x \in S : \A y \in S : x <= y
<1> DEFINE C == {T \in SUBSET S : T = {} \/ \E x \in T : \A y \in T : x <= y}
<1>1. {} \in C
  OBVIOUS
<1>2. ASSUME NEW T \in SUBSET S, NEW z \in S \ T, T \in C
      PROVE  T \cup {z} \in C
  <2>1. CASE T = {}
    BY <2>1
  <2>2. CASE T # {}
    <3>1. PICK x \in T : \A y \in T : x <= y
      BY <1>2, <2>2
    <3>2. CASE x <= z
      BY <3>1, <3>2
    <3>3. CASE ~(x <= z)
      <4>1. \A y \in T \cup {z} : z <= y
        BY <3>1, <3>3
      <4> QED
        BY <4>1
    <3> QED
      BY <3>2, <3>3
  <2> QED
    BY <2>1, <2>2
<1> HIDE DEF C
<1>3. S \in C
  BY <1>1, <1>2, OnFiniteSets
<1> QED
  BY <1>3 DEF C

\* Taking a part away takes its number away.
LEMMA LessAPart ==
  ASSUME NEW S, IsFiniteSet(S), NEW T \in SUBSET S
  PROVE  /\ IsFiniteSet(S \ T) /\ IsFiniteSet(T) /\ Cardinality(S \ T) \in Nat /\ Cardinality(T) \in Nat
         /\ Cardinality(S) = Cardinality(S \ T) + Cardinality(T)
<1>1. IsFiniteSet(S \ T) /\ IsFiniteSet(T) /\ (S \ T) \cup T = S /\ (S \ T) \cap T = {}
  BY FS_Subset
<1>2. Cardinality((S \ T) \cup T) = Cardinality(S \ T) + Cardinality(T) - Cardinality((S \ T) \cap T)
  BY <1>1, FS_Union
<1>3. Cardinality(S) = Cardinality(S \ T) + Cardinality(T) - 0
  BY <1>1, <1>2, FS_EmptySet
<1>4. Cardinality(S \ T) \in Nat /\ Cardinality(T) \in Nat
  BY <1>1, FS_CardinalityType
<1> QED
  BY <1>1, <1>3, <1>4
=============================================================================
