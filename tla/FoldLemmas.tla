------------------------------ MODULE FoldLemmas ----------------------------
(***************************************************************************)
(* Induction over finite sets, and what it says of the folds of the        *)
(* community modules and of lists.  The induction is over a set that is    *)
(* named instead of a formula, so that no lemma has an operator parameter. *)
(***************************************************************************)
EXTENDS Integers, SequencesExt, FiniteSetsExt, FiniteSetTheorems, WellFoundedInduction, TLAPS

\* A set of natural numbers that is not empty has a least element.
LEMMA LeastOf ==
    ASSUME NEW T, T \subseteq Nat, T # {}
    PROVE  \E m \in T : \A k \in T : m <= k
<1> DEFINE R == {ss \in Nat \X Nat : ss[1] < ss[2]}
<1>1. IsWellFoundedOn(R, Nat)
  BY NatLessThanWellFounded DEF OpToRel
<1>2. \A k, m \in Nat : <<k, m>> \in R <=> k < m
  OBVIOUS
<1> HIDE DEF R
<1>3. PICK m \in T : \A k \in T : <<k, m>> \notin R
  BY <1>1, WFMin
<1>4. \A k \in T : m <= k
  <2> TAKE k \in T
  <2>1. k \in Nat /\ m \in Nat /\ ~(k < m)
    BY <1>2, <1>3
  <2> QED
    BY <2>1
<1> QED
  BY <1>4

\* Induction over the natural numbers, for a set instead of a formula.
LEMMA Induction ==
    ASSUME NEW S, 0 \in S, \A n \in Nat : n \in S => n + 1 \in S
    PROVE  Nat \subseteq S
<1>1. SUFFICES ASSUME ~(Nat \subseteq S) PROVE FALSE
  OBVIOUS
<1>2. PICK m \in Nat \ S : \A k \in Nat \ S : m <= k
  BY <1>1, LeastOf
<1>3. m # 0 /\ m - 1 \in Nat
  BY <1>2
<1>4. m - 1 \in S
  BY <1>2, <1>3
<1> QED
  BY <1>2, <1>3, <1>4

\* A finite set of natural numbers that is not empty has a greatest element.
LEMMA MaxIsIn ==
    ASSUME NEW s, s \subseteq Nat, IsFiniteSet(s), s # {}
    PROVE  Max(s) \in s /\ \A k \in s : k <= Max(s)
<1> DEFINE P == {n \in Nat : \A t \in SUBSET s : t # {} /\ Cardinality(t) <= n => \E m \in t : \A k \in t : m >= k}
<1>1. 0 \in P
  <2>1. \A t \in SUBSET s : IsFiniteSet(t) /\ Cardinality(t) \in Nat /\ (Cardinality(t) = 0 => t = {})
    BY FS_Subset, FS_CardinalityType, FS_EmptySet
  <2>2. \A t \in SUBSET s : Cardinality(t) <= 0 => t = {}
    BY <2>1
  <2> QED
    BY <2>2
<1>2. \A n \in Nat : n \in P => n + 1 \in P
  <2> SUFFICES ASSUME NEW n \in Nat, n \in P, NEW t \in SUBSET s, t # {}, Cardinality(t) <= n + 1
               PROVE  \E m \in t : \A k \in t : m >= k
    OBVIOUS
  <2>1. PICK x \in t : TRUE
    OBVIOUS
  <2>2. IsFiniteSet(t) /\ Cardinality(t \ {x}) = Cardinality(t) - 1 /\ Cardinality(t) \in Nat
    BY FS_Subset, FS_RemoveElement, FS_CardinalityType, <2>1
  <2>3. CASE t \ {x} = {}
    BY <2>1, <2>3
  <2>4. CASE t \ {x} # {}
    <3>1. PICK m \in t \ {x} : \A k \in t \ {x} : m >= k
      BY <2>2, <2>4
    <3>2. x \in Nat /\ m \in Nat /\ t \subseteq Nat
      OBVIOUS
    <3>3. CASE m >= x
      BY <3>1, <3>3
    <3>4. CASE x >= m
      BY <3>1, <3>2, <3>4
    <3> QED
      BY <3>2, <3>3, <3>4
  <2> QED
    BY <2>3, <2>4
<1> HIDE DEF P
<1>3. Cardinality(s) \in P
  BY <1>1, <1>2, Induction, FS_CardinalityType
<1>4. \E m \in s : \A k \in s : m >= k
  BY <1>3, FS_CardinalityType DEF P
<1>5. Max(s) \in s /\ \A k \in s : Max(s) >= k
  BY <1>4 DEF Max
<1> QED
  BY <1>5

\* What is left of s when the element picked by choose is taken.
Rest(choose, s) == s \ {choose[s]}

\* Induction over a set that is built by adding the elements that choose picks:
\* what holds of {} and goes on holding as they are added holds of every subset.
LEMMA SetInduction ==
    ASSUME NEW S, NEW choose, NEW P, IsFiniteSet(S), {} \in P,
           \A s \in SUBSET S : s # {} => choose[s] \in s /\ (Rest(choose, s) \in P => s \in P)
    PROVE  SUBSET S \subseteq P
<1> DEFINE Q == {n \in Nat : \A s \in SUBSET S : Cardinality(s) <= n => s \in P}
<1>0. \A s \in SUBSET S : IsFiniteSet(s) /\ Cardinality(s) \in Nat /\ (Cardinality(s) = 0 => s = {})
  BY FS_Subset, FS_CardinalityType, FS_EmptySet
<1>1. 0 \in Q
  BY <1>0
<1>2. ASSUME NEW n \in Nat, n \in Q PROVE n + 1 \in Q
  <2> SUFFICES ASSUME NEW s \in SUBSET S, Cardinality(s) <= n + 1, s # {} PROVE s \in P
    OBVIOUS
  <2>1. /\ Cardinality(Rest(choose, s)) = Cardinality(s) - 1
        /\ Rest(choose, s) \in SUBSET S
    BY <1>0, FS_RemoveElement DEF Rest
  <2>2. Cardinality(Rest(choose, s)) <= n
    BY <1>0, <2>1
  <2>3. Rest(choose, s) \in P
    BY <1>2, <2>1, <2>2
  <2> QED
    BY <2>3
<1> HIDE DEF Q
<1>3. Nat \subseteq Q
  BY <1>1, <1>2, Induction
<1>4. ASSUME NEW s \in SUBSET S PROVE s \in P
  <2>1. Cardinality(s) \in Q
    BY <1>0, <1>3
  <2> QED
    BY <1>0, <2>1 DEF Q
<1> QED
  BY <1>4

\* g[s] is what step makes of base and the elements of s, taken in choose's order.
FoldsTo(g, S, choose, A, base, step) ==
    /\ g \in [SUBSET S -> A]
    /\ \A s \in SUBSET S :
          g[s] = IF s = {} THEN base ELSE step[<<g[Rest(choose, s)], choose[s]>>]

\* A fold has a value: the function that the folds of the community modules
\* choose exists.
LEMMA FoldExists ==
    ASSUME NEW S, NEW choose, NEW A, NEW base, NEW step,
           IsFiniteSet(S), base \in A, step \in [A \X S -> A],
           \A s \in SUBSET S : s # {} => choose[s] \in s
    PROVE  \E g : FoldsTo(g, S, choose, A, base, step)
<1> DEFINE Next(g) == [s \in SUBSET S |->
              IF s = {} THEN base ELSE step[<<g[Rest(choose, s)], choose[s]>>]]
           Q == {n \in Nat : \E g \in [SUBSET S -> A] :
                    \A s \in SUBSET S : Cardinality(s) <= n => g[s] = Next(g)[s]}
<1>0. \A s \in SUBSET S : IsFiniteSet(s) /\ Cardinality(s) \in Nat /\ (Cardinality(s) = 0 => s = {})
  BY FS_Subset, FS_CardinalityType, FS_EmptySet
<1>1. 0 \in Q
  <2> DEFINE g == [s \in SUBSET S |-> base]
  <2>1. g \in [SUBSET S -> A]
    OBVIOUS
  <2>2. \A s \in SUBSET S : Cardinality(s) <= 0 => g[s] = Next(g)[s]
    BY <1>0
  <2> QED
    BY <2>1, <2>2
<1>2. ASSUME NEW n \in Nat, n \in Q PROVE n + 1 \in Q
  <2>1. PICK g \in [SUBSET S -> A] :
            \A s \in SUBSET S : Cardinality(s) <= n => g[s] = Next(g)[s]
    BY <1>2
  <2> DEFINE h == Next(g)
  <2>2. h \in [SUBSET S -> A]
    <3> SUFFICES ASSUME NEW s \in SUBSET S, s # {}
                 PROVE  step[<<g[Rest(choose, s)], choose[s]>>] \in A
      OBVIOUS
    <3>1. g[Rest(choose, s)] \in A /\ choose[s] \in S
      BY DEF Rest
    <3> QED
      BY <3>1
  <2>3. ASSUME NEW s \in SUBSET S, Cardinality(s) <= n + 1 PROVE h[s] = Next(h)[s]
    <3>1. CASE s = {}
      BY <3>1
    <3>2. CASE s # {}
      <4>1. Cardinality(Rest(choose, s)) = Cardinality(s) - 1
        BY <1>0, <3>2, FS_RemoveElement DEF Rest
      <4>2. g[Rest(choose, s)] = h[Rest(choose, s)]
        <5>1. Rest(choose, s) \in SUBSET S /\ Cardinality(Rest(choose, s)) <= n
          BY <1>0, <2>3, <4>1 DEF Rest
        <5> QED
          BY <2>1, <5>1
      <4> QED
        BY <3>2, <4>2
    <3> QED
      BY <3>1, <3>2
  <2> HIDE DEF h
  <2>4. \E f \in [SUBSET S -> A] : \A s \in SUBSET S : Cardinality(s) <= n + 1 => f[s] = Next(f)[s]
    BY <2>2, <2>3
  <2>5. n + 1 \in Nat
    OBVIOUS
  <2> QED
    BY <2>4, <2>5, Zenon
<1>3. Cardinality(S) \in Q
  <2> HIDE DEF Q
  <2> QED
    BY <1>1, <1>2, Induction, FS_CardinalityType
<1>4. PICK g \in [SUBSET S -> A] :
          \A s \in SUBSET S : Cardinality(s) <= Cardinality(S) => g[s] = Next(g)[s]
  BY <1>3
<1>5. \A s \in SUBSET S : Cardinality(s) <= Cardinality(S)
  BY FS_Subset
<1> QED
  BY <1>4, <1>5 DEF FoldsTo

----------------------------------------------------------------------------
(* Lists *)

LEMMA MaxOfSome ==
    ASSUME NEW A, NEW list \in Seq(A), NEW s \in SUBSET DOMAIN list, s # {}
    PROVE  Max(s) \in s
<1>1. DOMAIN list = 1 .. Len(list) /\ Len(list) \in Nat
  OBVIOUS
<1>2. IsFiniteSet(DOMAIN list)
  BY <1>1, FS_Interval
<1> QED
  BY <1>1, <1>2, FS_Subset, MaxIsIn

\* What Append adds to the values of a list.
LEMMA AppendAdds ==
    ASSUME NEW A, NEW s \in Seq(A), NEW e \in A
    PROVE  /\ Append(s, e) \in Seq(A)
           /\ ToSet(Append(s, e)) = ToSet(s) \cup {e}
           /\ IsInjective(s) /\ e \notin ToSet(s) => IsInjective(Append(s, e))
<1> DEFINE n == Len(s)  t == Append(s, e)
<1>1. /\ t \in Seq(A) /\ DOMAIN t = 1 .. n + 1 /\ n \in Nat
      /\ t[n + 1] = e /\ \A i \in 1 .. n : t[i] = s[i]
      /\ DOMAIN s = 1 .. n
  OBVIOUS
<1> HIDE DEF n, t
<1>2. \A i \in 1 .. n + 1 : i \in 1 .. n \/ i = n + 1
  BY <1>1
<1>3. n + 1 \in 1 .. n + 1 /\ 1 .. n \subseteq 1 .. n + 1
  BY <1>1
<1>4. ASSUME NEW x PROVE x \in ToSet(t) <=> x \in ToSet(s) \cup {e}
  <2>1. x \in ToSet(t) <=> \E i \in 1 .. n + 1 : x = t[i]
    BY <1>1 DEF ToSet
  <2>2. x \in ToSet(s) <=> \E i \in 1 .. n : x = s[i]
    BY <1>1 DEF ToSet
  <2> QED
    BY <1>1, <1>2, <1>3, <2>1, <2>2
<1>5. IsInjective(s) /\ e \notin ToSet(s) => IsInjective(t)
  BY <1>1, <1>2 DEF IsInjective, ToSet
<1> QED
  BY <1>1, <1>4, <1>5 DEF t

\* What concatenation adds.
LEMMA ConcatAdds ==
    ASSUME NEW A, NEW s \in Seq(A), NEW t \in Seq(A)
    PROVE  /\ s \o t \in Seq(A)
           /\ ToSet(s \o t) = ToSet(s) \cup ToSet(t)
           /\ IsInjective(s) /\ IsInjective(t) /\ ToSet(s) \cap ToSet(t) = {} => IsInjective(s \o t)
<1> DEFINE m == Len(s)  n == Len(t)  u == s \o t
<1>1. /\ u \in Seq(A) /\ DOMAIN u = 1 .. m + n /\ m \in Nat /\ n \in Nat
      /\ DOMAIN s = 1 .. m /\ DOMAIN t = 1 .. n
      /\ \A i \in 1 .. m : u[i] = s[i]
      /\ \A i \in 1 .. m + n : i > m => u[i] = t[i - m]
  OBVIOUS
<1> HIDE DEF m, n, u
<1>2. \A i \in 1 .. m + n : i \in 1 .. m \/ (i > m /\ i - m \in 1 .. n)
  BY <1>1
<1>3. \A i \in 1 .. m : i \in 1 .. m + n
  BY <1>1
<1>4. \A i \in 1 .. n : i + m \in 1 .. m + n /\ i + m > m /\ (i + m) - m = i
  BY <1>1
<1>5. ASSUME NEW x PROVE x \in ToSet(u) <=> x \in ToSet(s) \cup ToSet(t)
  <2>1. ASSUME NEW i \in DOMAIN u, x = u[i] PROVE x \in ToSet(s) \cup ToSet(t)
    BY <1>1, <1>2, <2>1 DEF ToSet
  <2>2. ASSUME NEW i \in DOMAIN s, x = s[i] PROVE x \in ToSet(u)
    BY <1>1, <1>3, <2>2 DEF ToSet
  <2>3. ASSUME NEW i \in DOMAIN t, x = t[i] PROVE x \in ToSet(u)
    <3>1. u[i + m] = x /\ i + m \in DOMAIN u
      BY <1>1, <1>4, <2>3
    <3> QED
      BY <3>1 DEF ToSet
  <2> QED
    BY <2>1, <2>2, <2>3 DEF ToSet
<1>6. ASSUME IsInjective(s), IsInjective(t), ToSet(s) \cap ToSet(t) = {} PROVE IsInjective(u)
  <2> SUFFICES ASSUME NEW i \in 1 .. m + n, NEW j \in 1 .. m + n, u[i] = u[j] PROVE i = j
    BY <1>1 DEF IsInjective
  <2>1. CASE i \in 1 .. m /\ j \in 1 .. m
    BY <1>1, <1>6, <2>1 DEF IsInjective
  <2>2. CASE i > m /\ j > m
    <3>1. i - m \in 1 .. n /\ j - m \in 1 .. n /\ t[i - m] = t[j - m]
      BY <1>1, <1>2, <2>2
    <3>2. i - m = j - m
      BY <1>1, <1>6, <3>1 DEF IsInjective
    <3> QED
      BY <1>1, <3>2
  <2>3. \A a \in 1 .. m, b \in 1 .. n : s[a] # t[b]
    BY <1>1, <1>6 DEF ToSet
  <2>4. CASE i \in 1 .. m /\ j > m
    BY <1>1, <1>2, <2>3, <2>4
  <2>5. CASE j \in 1 .. m /\ i > m
    BY <1>1, <1>2, <2>3, <2>5
  <2> QED
    BY <1>2, <2>1, <2>2, <2>4, <2>5
<1> QED
  BY <1>1, <1>5, <1>6 DEF u

\* A list that has every value once is as long as the set of its values.
LEMMA OnceLength ==
    ASSUME NEW A, NEW s \in Seq(A), IsInjective(s)
    PROVE  Len(s) = Cardinality(ToSet(s))
<1>1. DOMAIN s = 1 .. Len(s) /\ Len(s) \in Nat
  OBVIOUS
<1>2. s \in Bijection(1 .. Len(s), ToSet(s))
  <2> DEFINE D == 1 .. Len(s)  T == ToSet(s)
  <2>1. s \in [D -> T] /\ \A x \in T : \E i \in D : s[i] = x
    BY <1>1 DEF ToSet
  <2>2. \A i, j \in D : s[i] = s[j] => i = j
    BY <1>1 DEF IsInjective
  <2> HIDE DEF D, T
  <2> QED
    BY <2>1, <2>2 DEF Bijection, Injection, IsInjective, Surjection, D, T
<1>3. ExistsBijection(1 .. Len(s), ToSet(s))
  BY <1>2 DEF ExistsBijection
<1> QED
  BY <1>1, <1>3, FS_CountingElements, FS_NatBijection, FS_Interval, FS_Bijection

\* A list of lists, one after the other.
LEMMA FlattenTypes ==
    ASSUME NEW A, NEW s \in Seq(Seq(A))
    PROVE  FlattenSeq(s) \in Seq(A)
<1> DEFINE n == Len(s)
           D == 1 .. n
           C == Seq(A)
           max == [t \in SUBSET D |-> Max(t)]
           join == [a \in C \X D |-> a[1] \o s[a[2]]]
           Eq(h) == [i \in D |-> IF i = 1 THEN s[i] ELSE h[i - 1] \o s[i]]
           it == CHOOSE h : h = Eq(h)
<1>1. CASE n = 0
  BY <1>1 DEF FlattenSeq
<1>2. ASSUME n # 0 PROVE FlattenSeq(s) = it[n]
  BY <1>2 DEF FlattenSeq
<1>3. /\ n \in Nat /\ IsFiniteSet(D) /\ DOMAIN s = D /\ \A i \in D : s[i] \in Seq(A)
  BY FS_Interval
<1>4. /\ join \in [C \X D -> C] /\ <<>> \in C
      /\ \A a \in C, i \in D : join[<<a, i>>] = a \o s[i]
  <2>1. ASSUME NEW a \in C, NEW i \in D PROVE join[<<a, i>>] = a \o s[i]
    <3>1. <<a, i>> \in C \X D /\ <<a, i>>[1] = a /\ <<a, i>>[2] = i
      OBVIOUS
    <3> QED
      BY <3>1
  <2>2. ASSUME NEW x \in C \X D PROVE x[1] \o s[x[2]] \in C
    <3>1. x[1] \in Seq(A) /\ s[x[2]] \in Seq(A)
      BY <1>3
    <3> QED
      BY <3>1
  <2>3. <<>> \in C
    OBVIOUS
  <2> QED
    BY <2>1, <2>2, <2>3
<1>5. \A t \in SUBSET D : t # {} => max[t] \in t
  BY <1>3, MaxOfSome
<1> HIDE DEF join
<1>6. \E h : h = Eq(h)
  <2>1. PICK g : FoldsTo(g, D, max, C, <<>>, join)
    <3> HIDE DEF D, C, max
    <3> QED
      BY <1>3, <1>4, <1>5, FoldExists
  <2> DEFINE f == [i \in D |-> g[1 .. i]]
  <2>2. ASSUME NEW i \in D PROVE g[1 .. i] = g[1 .. i - 1] \o s[i] /\ g[1 .. i - 1] \in C
    <3> DEFINE t == 1 .. i
    <3>1. t \in SUBSET D /\ t # {} /\ t \subseteq Nat /\ IsFiniteSet(t) /\ i \in t
      <4>1. i \in t /\ t \subseteq D /\ t \subseteq Nat
        BY <1>3
      <4> QED
        BY <1>3, <4>1, FS_Subset
    <3>2. Max(t) = i
      <4>1. Max(t) \in t /\ i <= Max(t)
        BY <3>1, MaxIsIn
      <4> QED
        BY <4>1
    <3>3. Rest(max, t) = 1 .. i - 1 /\ max[t] = i
      BY <3>1, <3>2 DEF Rest
    <3>4. g[t] = join[<<g[Rest(max, t)], max[t]>>]
      BY <2>1, <3>1 DEF FoldsTo
    <3>5. g[1 .. i - 1] \in C
      <4>1. 1 .. i - 1 \in SUBSET D
        BY <1>3
      <4> QED
        BY <2>1, <4>1 DEF FoldsTo
    <3> QED
      BY <1>4, <3>3, <3>4, <3>5
  <2>3. g[{}] = <<>>
    BY <2>1 DEF FoldsTo
  <2>4. ASSUME NEW i \in D PROVE f[i] = Eq(f)[i]
    <3>1. CASE i = 1
      <4>1. 1 .. i - 1 = {}
        BY <3>1
      <4>2. s[i] \in Seq(A) /\ <<>> \o s[i] = s[i]
        BY <1>3
      <4> QED
        BY <2>2, <2>3, <3>1, <4>1, <4>2
    <3>2. CASE i # 1
      <4>1. i - 1 \in D
        BY <1>3, <3>2
      <4> QED
        BY <2>2, <3>2, <4>1
    <3> QED
      BY <3>1, <3>2
  <2>5. f = Eq(f)
    BY <2>4
  <2> QED
    BY <2>5
<1>7. it = Eq(it)
  <2> HIDE DEF Eq
  <2> QED
    BY <1>6
<1> DEFINE T == {k \in Nat : \A i \in D : i <= k => it[i] \in C}
<1> HIDE DEF it
<1>8. 0 \in T
  BY <1>3
<1>9. ASSUME NEW k \in Nat, k \in T PROVE k + 1 \in T
  <2> SUFFICES ASSUME NEW i \in D, i <= k + 1 PROVE it[i] \in C
    OBVIOUS
  <2>1. CASE i = 1
    BY <1>3, <1>7, <2>1
  <2>2. CASE i # 1
    <3>1. i - 1 \in D /\ i - 1 <= k
      BY <1>3, <2>2
    <3>2. it[i - 1] \in C /\ it[i] = it[i - 1] \o s[i]
      BY <1>7, <1>9, <2>2, <3>1
    <3> QED
      BY <1>3, <3>2
  <2> QED
    BY <2>1, <2>2
<1>10. n \in T
  <2> HIDE DEF T
  <2> QED
    BY <1>3, <1>8, <1>9, Induction
<1> QED
  BY <1>1, <1>2, <1>3, <1>10

----------------------------------------------------------------------------
(* Sums *)

\* The sum of f over S, as MapThenFoldSet takes it.
Some(s) == CHOOSE x \in s : TRUE
Total(f, S) == MapThenFoldSet(LAMBDA m, n : m + n, 0, LAMBDA x : f[x], LAMBDA s : Some(s), S)

\* g[s] is the sum of f over s.
Summed(g, f, S) == [s \in SUBSET S |-> IF s = {} THEN 0 ELSE f[Some(s)] + g[s \ {Some(s)}]]
Adds(g, f, S) == g = Summed(g, f, S)

LEMMA AddsExists ==
    ASSUME NEW S, IsFiniteSet(S), NEW f \in [S -> Nat]
    PROVE  \E g : Adds(g, f, S)
<1> DEFINE some == [s \in SUBSET S |-> Some(s)]
           plus == [a \in Nat \X S |-> f[a[2]] + a[1]]
<1>1. \A s \in SUBSET S : s # {} => some[s] \in s /\ some[s] = Some(s)
  BY DEF Some
<1>2. plus \in [Nat \X S -> Nat] /\ \A n \in Nat, x \in S : plus[<<n, x>>] = f[x] + n
  OBVIOUS
<1> HIDE DEF some, plus
<1>3. PICK g : FoldsTo(g, S, some, Nat, 0, plus)
  BY <1>1, <1>2, FoldExists
<1>4. ASSUME NEW s \in SUBSET S, s # {} PROVE g[s] = f[Some(s)] + g[s \ {Some(s)}]
  <2>1. Rest(some, s) = s \ {Some(s)} /\ Some(s) \in S /\ some[s] = Some(s)
    BY <1>1, <1>4 DEF Rest
  <2>2. g[s] = plus[<<g[Rest(some, s)], some[s]>>]
    BY <1>3, <1>4 DEF FoldsTo
  <2>3. g[Rest(some, s)] \in Nat
    BY <1>3, <2>1 DEF FoldsTo
  <2> QED
    BY <1>2, <2>1, <2>2, <2>3
<1>5. g[{}] = 0 /\ DOMAIN g = SUBSET S
  BY <1>3 DEF FoldsTo
<1>6. g = [s \in SUBSET S |-> g[s]]
  BY <1>3 DEF FoldsTo
<1> QED
  BY <1>4, <1>5, <1>6 DEF Adds, Summed

LEMMA TotalAdds ==
    ASSUME NEW S, IsFiniteSet(S), NEW f \in [S -> Nat]
    PROVE  \E g : Total(f, S) = g[S] /\ Adds(g, f, S)
<1> DEFINE it == CHOOSE g : g = Summed(g, f, S)
<1>1. it = Summed(it, f, S)
  BY AddsExists DEF Adds
<1>2. Total(f, S) = it[S]
  BY DEF Total, MapThenFoldSet, Summed
<1> HIDE DEF it
<1> QED
  BY <1>1, <1>2 DEF Adds

\* A sum follows a change of one of its terms.
LEMMA AddsFollow ==
    ASSUME NEW S, IsFiniteSet(S), NEW f \in [S -> Nat], NEW h \in [S -> Nat], NEW x,
           \A y \in S \ {x} : h[y] = f[y],
           NEW g, NEW k, Adds(g, f, S), Adds(k, h, S)
    PROVE  g[S] \in Nat /\ k[S] = IF x \in S THEN g[S] + h[x] - f[x] ELSE g[S]
<1> DEFINE P == {s \in SUBSET S :
                   g[s] \in Nat /\ k[s] = IF x \in s THEN g[s] + h[x] - f[x] ELSE g[s]}
           some == [s \in SUBSET S |-> Some(s)]
<1>1. {} \in P
  <2>1. g[{}] = 0 /\ k[{}] = 0
    BY DEF Adds, Summed
  <2> QED
    BY <2>1
<1>2. ASSUME NEW s \in SUBSET S, s # {}
      PROVE  some[s] \in s /\ (Rest(some, s) \in P => s \in P)
  <2>1. some[s] = Some(s) /\ Some(s) \in s
    BY <1>2 DEF Some
  <2> SUFFICES ASSUME s \ {Some(s)} \in P PROVE s \in P
    BY <2>1 DEF Rest
  <2> DEFINE y == Some(s)  t == s \ {Some(s)}
  <2>2. g[s] = f[y] + g[t] /\ k[s] = h[y] + k[t]
    BY <1>2 DEF Adds, Summed
  <2>3. /\ g[t] \in Nat /\ k[t] = IF x \in t THEN g[t] + h[x] - f[x] ELSE g[t]
        /\ y \in S /\ f[y] \in Nat /\ h[y] \in Nat
        /\ (x \in s <=> x \in t \/ x = y) /\ (x = y => x \notin t)
    BY <2>1
  <2>4. x \in S => f[x] \in Nat /\ h[x] \in Nat
    OBVIOUS
  <2>5. x # y => h[y] = f[y]
    BY <2>3
  <2>6. x \in t => x \in S
    OBVIOUS
  <2> HIDE DEF y, t
  <2>7. g[s] \in Nat /\ k[s] = IF x \in s THEN g[s] + h[x] - f[x] ELSE g[s]
    BY <2>2, <2>3, <2>4, <2>5, <2>6
  <2> QED
    BY <2>7
<1>3. SUBSET S \subseteq P
  <2> HIDE DEF P, some
  <2> QED
    BY <1>1, <1>2, SetInduction
<1>4. S \in P
  BY <1>3
<1> QED
  BY <1>4

LEMMA TotalFollows ==
    ASSUME NEW S, IsFiniteSet(S), NEW f \in [S -> Nat], NEW h \in [S -> Nat], NEW x,
           \A y \in S \ {x} : h[y] = f[y]
    PROVE  /\ Total(f, S) \in Nat
           /\ Total(h, S) = IF x \in S THEN Total(f, S) + h[x] - f[x] ELSE Total(f, S)
<1>1. PICK g : Total(f, S) = g[S] /\ Adds(g, f, S)
  BY TotalAdds
<1>2. PICK k : Total(h, S) = k[S] /\ Adds(k, h, S)
  BY TotalAdds
<1> QED
  BY <1>1, <1>2, AddsFollow

\* The order in which a sum is taken does not matter.
LEMMA AddsUnfold ==
    ASSUME NEW S, IsFiniteSet(S), NEW f \in [S -> Nat], NEW g, Adds(g, f, S)
    PROVE  \A t \in SUBSET S : g[t] \in Nat /\ \A y \in t : g[t] = f[y] + g[t \ {y}]
<1> DEFINE Fine(t) == g[t] \in Nat /\ \A y \in t : g[t] = f[y] + g[t \ {y}]
           Q == {n \in Nat : \A t \in SUBSET S : Cardinality(t) <= n => Fine(t)}
<1>0. /\ \A t \in SUBSET S : IsFiniteSet(t) /\ Cardinality(t) \in Nat /\ (Cardinality(t) = 0 => t = {})
      /\ \A t \in SUBSET S : \A y \in t : Cardinality(t \ {y}) = Cardinality(t) - 1
  BY FS_Subset, FS_CardinalityType, FS_EmptySet, FS_RemoveElement
<1>1. Fine({})
  BY DEF Adds, Summed
<1>2. 0 \in Q
  <2> HIDE DEF Fine
  <2>1. \A t \in SUBSET S : Cardinality(t) <= 0 => t = {}
    BY <1>0
  <2> QED
    BY <1>1, <2>1
<1>3. ASSUME NEW n \in Nat, n \in Q PROVE n + 1 \in Q
  <2> SUFFICES ASSUME NEW t \in SUBSET S, Cardinality(t) <= n + 1, t # {} PROVE Fine(t)
    <3>1. n + 1 \in Nat
      OBVIOUS
    <3> HIDE DEF Fine
    <3> QED
      BY <1>1, <3>1
  <2> DEFINE c == Some(t)
  <2>1. c \in t
    BY DEF Some
  <2>2. ASSUME NEW y \in t PROVE Fine(t \ {y})
    <3>1. Cardinality(t \ {y}) <= n /\ t \ {y} \in SUBSET S
      BY <1>0
    <3> QED
      BY <1>3, <3>1
  <2>3. g[t] = f[c] + g[t \ {c}] /\ g[t \ {c}] \in Nat /\ f[c] \in Nat
    BY <2>1, <2>2 DEF Adds, Summed
  <2> HIDE DEF c
  <2>4. ASSUME NEW y \in t, y # c PROVE g[t] = f[y] + g[t \ {y}]
    <3> DEFINE u == (t \ {c}) \ {y}
    <3>1. u = (t \ {y}) \ {c}
      OBVIOUS
    <3>2. g[t \ {c}] = f[y] + g[u] /\ g[t \ {y}] = f[c] + g[u]
      BY <2>1, <2>2, <2>4, <3>1
    <3>3. u = (t \ {c}) \ {y} /\ g[u] \in Nat /\ f[y] \in Nat /\ f[c] \in Nat
      <4>1. Cardinality(u) <= n /\ u \in SUBSET S
        <5>1. Cardinality(u) = Cardinality(t \ {c}) - 1 /\ Cardinality(t \ {c}) = Cardinality(t) - 1
          BY <1>0, <2>1, <2>4
        <5> QED
          BY <1>0, <5>1
      <4> QED
        BY <1>3, <2>3, <4>1
    <3> HIDE DEF u
    <3> QED
      BY <2>3, <3>2, <3>3
  <2>5. g[t] \in Nat
    BY <2>3
  <2>6. ASSUME NEW y \in t PROVE g[t] = f[y] + g[t \ {y}]
    BY <2>3, <2>4
  <2> QED
    BY <2>5, <2>6
<1> HIDE DEF Q
<1>4. Nat \subseteq Q
  BY <1>2, <1>3, Induction
<1>5. ASSUME NEW t \in SUBSET S PROVE Fine(t)
  <2>1. Cardinality(t) \in Q
    BY <1>0, <1>4
  <2> QED
    BY <1>0, <2>1 DEF Q
<1> QED
  BY <1>5

\* A sum of natural numbers grows with its terms.
LEMMA AddsGrow ==
    ASSUME NEW S, IsFiniteSet(S), NEW f \in [S -> Nat], NEW g, Adds(g, f, S)
    PROVE  \A t \in SUBSET S : \A s \in SUBSET t : g[s] <= g[t]
<1> DEFINE some == [t \in SUBSET S |-> Some(t)]
           P == {t \in SUBSET S : \A s \in SUBSET t : g[s] <= g[t]}
<1>1. \A t \in SUBSET S : g[t] \in Nat /\ \A y \in t : g[t] = f[y] + g[t \ {y}]
  BY AddsUnfold
<1>2. {} \in P
  <2>1. g[{}] <= g[{}]
    BY <1>1
  <2> QED
    BY <2>1
<1>3. ASSUME NEW t \in SUBSET S, t # {}
      PROVE  some[t] \in t /\ (Rest(some, t) \in P => t \in P)
  <2> DEFINE c == Some(t)
  <2>1. some[t] = c /\ c \in t
    BY <1>3 DEF Some
  <2> HIDE DEF c
  <2> SUFFICES ASSUME t \ {c} \in P, NEW s \in SUBSET t PROVE g[s] <= g[t]
    BY <2>1 DEF Rest
  <2>2. g[t] = f[c] + g[t \ {c}] /\ f[c] \in Nat /\ g[t \ {c}] \in Nat /\ g[s] \in Nat
    BY <1>1, <2>1
  <2>3. g[s \ {c}] <= g[t \ {c}] /\ g[s \ {c}] \in Nat
    <3>1. s \ {c} \in SUBSET (t \ {c}) /\ s \ {c} \in SUBSET S
      OBVIOUS
    <3> QED
      BY <1>1, <3>1
  <2>4. CASE c \in s
    <3>1. g[s] = f[c] + g[s \ {c}]
      BY <1>1, <2>4
    <3> QED
      BY <2>2, <2>3, <3>1
  <2>5. CASE c \notin s
    <3>1. s \ {c} = s
      BY <2>5
    <3> QED
      BY <2>2, <2>3, <3>1
  <2> QED
    BY <2>4, <2>5
<1>4. SUBSET S \subseteq P
  <2> HIDE DEF P, some
  <2> QED
    BY <1>2, <1>3, SetInduction
<1> QED
  BY <1>4

\* The sum over a subset is the one that the sum over the whole set goes through.
LEMMA AddsAgree ==
    ASSUME NEW S, IsFiniteSet(S), NEW f, NEW g, Adds(g, f, S),
           NEW T \in SUBSET S, NEW k, Adds(k, f, T)
    PROVE  k[T] = g[T]
<1> DEFINE some == [t \in SUBSET T |-> Some(t)]
           P == {t \in SUBSET T : k[t] = g[t]}
<1>1. {} \in P
  BY DEF Adds, Summed
<1>2. ASSUME NEW t \in SUBSET T, t # {}
      PROVE  some[t] \in t /\ (Rest(some, t) \in P => t \in P)
  <2>1. some[t] = Some(t) /\ Some(t) \in t
    BY <1>2 DEF Some
  <2>2. /\ k[t] = f[Some(t)] + k[t \ {Some(t)}]
        /\ g[t] = f[Some(t)] + g[t \ {Some(t)}]
    BY <1>2 DEF Adds, Summed
  <2> QED
    BY <2>1, <2>2 DEF Rest
<1>3. IsFiniteSet(T)
  BY FS_Subset
<1>4. SUBSET T \subseteq P
  <2> HIDE DEF P, some
  <2> QED
    BY <1>1, <1>2, <1>3, SetInduction
<1> QED
  BY <1>4

=============================================================================
