--------------------------- MODULE SequenceLemmas ---------------------------
(***************************************************************************)
(* Induction, and what FlattenSeq computes.  The induction theorems of the *)
(* library take an operator; the one below takes the set of the numbers    *)
(* for which a statement holds, and rests on the order of Nat alone.       *)
(***************************************************************************)
EXTENDS Integers, SequencesExt, SequenceTheorems, WellFoundedInduction, TLAPS

Below == {nn \in Nat \X Nat : nn[1] < nn[2]}

\* A set that holds 0, and with a number the next, holds every number.
THEOREM Induction ==
  ASSUME NEW G, 0 \in G, \A n \in Nat : n \in G => n + 1 \in G
  PROVE  Nat \subseteq G
<1> DEFINE T == Nat \ G
<1>1. SUFFICES ASSUME T # {} PROVE FALSE OBVIOUS
<1>2. IsWellFoundedOn(Below, Nat) BY NatLessThanWellFounded DEF OpToRel, Below
<1>3. T \subseteq Nat OBVIOUS
<1> HIDE DEF T
<1>4. PICK n \in T : \A m \in T : <<m, n>> \notin Below BY <1>1, <1>2, <1>3, WFMin
<1> USE DEF T
<1>5. n # 0 BY <1>4
<1>6. n - 1 \in Nat /\ n = (n - 1) + 1 BY <1>5
<1>7. <<n - 1, n>> \in Below BY <1>6 DEF Below
<1>8. n - 1 \in G BY <1>4, <1>6, <1>7
<1> QED BY <1>6, <1>8

\* A function that gives each number the value a step makes of the number before
\* it exists, whatever the step.
Recursion(f, n, base, step) == f = [i \in 0..n |-> IF i = 0 THEN base ELSE step[<<i, f[i - 1]>>]]
LEMMA RecursionExists ==
  ASSUME NEW n \in Nat, NEW T, NEW base \in T, NEW step \in [(1..n) \X T -> T]
  PROVE  \E f \in [0..n -> T] : Recursion(f, n, base, step)
<1> DEFINE Good(f, k) == f \in [0..k -> T] /\ f[0] = base /\ \A i \in 1..k : f[i] = step[<<i, f[i - 1]>>]
           G == {k \in Nat : k <= n => \E f : Good(f, k)}
<1>1. 0 \in G
  <2>1. Good([i \in 0..0 |-> base], 0) OBVIOUS
  <2> HIDE DEF Good
  <2> QED BY <2>1
<1>2. ASSUME NEW k \in Nat, k \in G PROVE k + 1 \in G
  <2>1. SUFFICES ASSUME k + 1 <= n PROVE \E f : Good(f, k + 1) OBVIOUS
  <2>2. PICK f : Good(f, k)
    <3> HIDE DEF Good
    <3> QED BY <1>2, <2>1
  <2> DEFINE x == step[<<k + 1, f[k]>>]
             g == [i \in 0..(k + 1) |-> IF i = k + 1 THEN x ELSE f[i]]
  <2>3. x \in T
    <3>1. f[k] \in T /\ k + 1 \in 1..n BY <2>1, <2>2
    <3> QED BY <3>1
  <2> HIDE DEF x
  <2>4. g \in [0..(k + 1) -> T] /\ g[0] = base BY <2>2, <2>3
  <2>5. ASSUME NEW i \in 1..(k + 1) PROVE g[i] = step[<<i, g[i - 1]>>]
    <3>1. g[i - 1] = f[i - 1] OBVIOUS
    <3>2. CASE i = k + 1
      <4>1. g[i] = x BY <3>2
      <4> HIDE DEF g
      <4> QED BY <3>1, <3>2, <4>1 DEF x
    <3>3. CASE i # k + 1
      <4>1. i \in 1..k /\ g[i] = f[i] BY <3>3
      <4> HIDE DEF g
      <4> QED BY <2>2, <3>1, <4>1
    <3> QED BY <3>2, <3>3
  <2>6. Good(g, k + 1) BY <2>4, <2>5
  <2> HIDE DEF Good
  <2> QED BY <2>6
<1>3. n \in G
  <2> HIDE DEF G
  <2> QED BY <1>1, <1>2, Induction
<1>4. PICK f : Good(f, n)
  <2> HIDE DEF Good
  <2> QED BY <1>3
<1>5. \A i \in 0..n : f[i] = IF i = 0 THEN base ELSE step[<<i, f[i - 1]>>] BY <1>4
<1>6. Recursion(f, n, base, step)
  <2> DEFINE g == [i \in 0..n |-> IF i = 0 THEN base ELSE step[<<i, f[i - 1]>>]]
  <2>1. \A i \in 0..n : f[i] = g[i] BY <1>5
  <2>2. f = g BY <1>4, <2>1
  <2> QED BY <2>2 DEF Recursion
<1> QED BY <1>4, <1>6

-----------------------------------------------------------------------------
(* Least and greatest numbers *)

\* The least number of a set is its Min.
LEMMA MinIs ==
  ASSUME NEW S, S \subseteq Int, NEW m \in S, \A x \in S : m <= x
  PROVE  Min(S) = m
<1> DEFINE Least(x) == x \in S /\ \A y \in S : x =< y
<1>1. Least(m) OBVIOUS
<1>2. \A x : Least(x) => x = m OBVIOUS
<1>3. Min(S) = CHOOSE x : Least(x) BY DEF Min
<1> HIDE DEF Least
<1>4. Least(CHOOSE x : Least(x)) BY <1>1
<1> QED BY <1>2, <1>3, <1>4

\* The greatest number of a set is its Max.
LEMMA MaxIs ==
  ASSUME NEW S, S \subseteq Int, NEW m \in S, \A x \in S : m >= x
  PROVE  Max(S) = m
<1> DEFINE Most(x) == x \in S /\ \A y \in S : x >= y
<1>1. Most(m) OBVIOUS
<1>2. \A x : Most(x) => x = m OBVIOUS
<1>3. Max(S) = CHOOSE x : Most(x) BY DEF Max
<1> HIDE DEF Most
<1>4. Most(CHOOSE x : Most(x)) BY <1>1
<1> QED BY <1>2, <1>3, <1>4

\* A set of numbers up to n that is not empty has a greatest.
LEMMA MaxOf ==
  ASSUME NEW n \in Nat, NEW S, S \subseteq 1..n, S # {}
  PROVE  Max(S) \in S
<1> DEFINE G == {k \in Nat : \A T \in SUBSET (1..k) : T # {} => Max(T) \in T}
<1>1. 0 \in G
  <2>1. 1..0 = {} OBVIOUS
  <2> QED BY <2>1
<1>2. ASSUME NEW k \in Nat, k \in G PROVE k + 1 \in G
  <2>1. ASSUME NEW T \in SUBSET (1..(k + 1)), T # {} PROVE Max(T) \in T
    <3>1. CASE k + 1 \in T
      <4>1. T \subseteq Int /\ \A x \in T : k + 1 >= x OBVIOUS
      <4> QED BY <3>1, <4>1, MaxIs
    <3>2. CASE k + 1 \notin T
      <4>1. T \subseteq 1..k BY <3>2
      <4> QED BY <1>2, <2>1, <4>1
    <3> QED BY <3>1, <3>2
  <2> QED BY <2>1
<1> HIDE DEF G
<1>3. n \in G BY <1>1, <1>2, Induction
<1> QED BY <1>3 DEF G

-----------------------------------------------------------------------------
(* Sequences, one element at a time *)

\* Append adds its element last and leaves the others where they are.
LEMMA AppendIs ==
  ASSUME NEW S, NEW s \in Seq(S), NEW x \in S
  PROVE  /\ Append(s, x) \in Seq(S)
         /\ Len(Append(s, x)) = Len(s) + 1
         /\ Append(s, x)[Len(s) + 1] = x
         /\ \A i \in 1..Len(s) : Append(s, x)[i] = s[i]
         /\ Append(s, x) = s \o <<x>>
OBVIOUS

\* To concatenate a sequence of one element more is to append the element last.
LEMMA ConcatAppends ==
  ASSUME NEW S, NEW f \in Seq(S), NEW q \in Seq(S), NEW x \in S
  PROVE  f \o Append(q, x) = Append(f \o q, x) /\ f \o q \in Seq(S)
OBVIOUS

\* The subsequence from a place to itself is the element there.
LEMMA OneOf ==
  ASSUME NEW S, NEW s \in Seq(S), NEW i \in 1..Len(s)
  PROVE  SubSeq(s, i, i) = <<s[i]>>
<1>1. i \in Nat /\ Len(s) \in Nat /\ s[i] \in S OBVIOUS
<1>2. Len(SubSeq(s, i, i)) = 1 /\ SubSeq(s, i, i)[1] = s[i] /\ SubSeq(s, i, i) \in Seq(S) BY <1>1
<1>3. <<s[i]>> \in Seq(S) /\ Len(<<s[i]>>) = 1 /\ <<s[i]>>[1] = s[i] BY <1>1
<1>4. \A j \in 1..Len(<<s[i]>>) : SubSeq(s, i, i)[j] = <<s[i]>>[j] BY <1>2, <1>3
<1> QED BY <1>2, <1>3, <1>4, SeqEqual

\* The first element alone is the subsequence up to place 1.
LEMMA FirstOf ==
  ASSUME NEW S, NEW s \in Seq(S), s # <<>>
  PROVE  SubSeq(s, 1, 1) = <<s[1]>>
<1>1. 1 \in 1..Len(s) OBVIOUS
<1> QED BY <1>1, OneOf

\* A sequence that is not empty is another with one element appended.
LEMMA FrontAndLast ==
  ASSUME NEW S, NEW n \in Nat, NEW s \in Seq(S), Len(s) = n + 1
  PROVE  \E r \in Seq(S), x \in S : Len(r) = n /\ s = Append(r, x)
<1> DEFINE r == [i \in 1..n |-> s[i]]
<1>1. r \in Seq(S) /\ Len(r) = n OBVIOUS
<1>2. s[n + 1] \in S OBVIOUS
<1>3. s = Append(r, s[n + 1]) BY <1>1, <1>2
<1> QED BY <1>1, <1>2, <1>3

\* What holds of <<>>, and with a sequence of each that appends an element to it,
\* holds of every sequence.
THEOREM InductionOnSequences ==
  ASSUME NEW S, NEW G, <<>> \in G,
         \A s \in Seq(S), x \in S : s \in G => Append(s, x) \in G
  PROVE  Seq(S) \subseteq G
<1> DEFINE N == {n \in Nat : \A s \in Seq(S) : Len(s) = n => s \in G}
<1>1. 0 \in N
  <2>1. \A s \in Seq(S) : Len(s) = 0 => s = <<>> OBVIOUS
  <2> QED BY <2>1
<1>2. ASSUME NEW n \in Nat, n \in N PROVE n + 1 \in N
  <2>1. ASSUME NEW s \in Seq(S), Len(s) = n + 1 PROVE s \in G
    <3>1. PICK r \in Seq(S), x \in S : Len(r) = n /\ s = Append(r, x) BY <2>1, FrontAndLast
    <3>2. r \in G BY <1>2, <3>1
    <3> QED BY <3>1, <3>2
  <2> QED BY <2>1
<1> HIDE DEF N
<1>3. Nat \subseteq N BY <1>1, <1>2, Induction
<1> QED BY <1>3 DEF N

\* The sequence of what h maps the elements of s to.
Mapped(h, s) == [i \in DOMAIN s |-> h[s[i]]]

\* Mapping commutes with appending.
LEMMA MappedStep ==
  ASSUME NEW S, NEW h, NEW s \in Seq(S), NEW x \in S
  PROVE  Mapped(h, Append(s, x)) = Append(Mapped(h, s), h[x])
<1> DEFINE T == {h[y] : y \in S}
<1>v. \A y \in S : h[y] \in T OBVIOUS
<1> HIDE DEF T
<1>m. ASSUME NEW u \in Seq(S) PROVE Mapped(h, u) \in Seq(T) /\ Len(Mapped(h, u)) = Len(u)
  <2>1. DOMAIN u = 1..Len(u) /\ Len(u) \in Nat OBVIOUS
  <2>2. \A i \in 1..Len(u) : h[u[i]] \in T BY <1>v
  <2>3. Mapped(h, u) = [i \in 1..Len(u) |-> h[u[i]]] BY <2>1 DEF Mapped
  <2> QED BY <2>1, <2>2, <2>3
<1> DEFINE t == Append(s, x)
           a == Mapped(h, t)
           b == Append(Mapped(h, s), h[x])
<1>1. t \in Seq(S) /\ Len(t) = Len(s) + 1 /\ t[Len(s) + 1] = x /\ \A i \in 1..Len(s) : t[i] = s[i] BY AppendIs
<1>2. DOMAIN t = 1..Len(t) /\ DOMAIN s = 1..Len(s) /\ Len(s) \in Nat BY <1>1
<1> HIDE DEF t
<1>3. a \in Seq(T) /\ Len(a) = Len(s) + 1 BY <1>1, <1>m
<1>4. Mapped(h, s) \in Seq(T) /\ Len(Mapped(h, s)) = Len(s) BY <1>m
<1>5. /\ b \in Seq(T) /\ Len(b) = Len(s) + 1 /\ b[Len(s) + 1] = h[x]
      /\ \A i \in 1..Len(s) : b[i] = Mapped(h, s)[i]
  <2>1. h[x] \in T BY <1>v
  <2> HIDE DEF b
  <2>2. b = Append(Mapped(h, s), h[x]) BY DEF b
  <2> QED BY <1>4, <2>1, <2>2, AppendIs
<1> HIDE DEF b
<1>6. \A i \in 1..Len(s) + 1 : a[i] = b[i]
  <2>1. ASSUME NEW i \in 1..Len(s) + 1, i # Len(s) + 1 PROVE a[i] = b[i]
    <3>1. i \in 1..Len(s) BY <1>2, <2>1
    <3>2. b[i] = h[s[i]] BY <1>2, <1>5, <3>1 DEF Mapped
    <3>3. a[i] = h[t[i]] BY <1>1, <1>2 DEF Mapped
    <3> QED BY <1>1, <3>1, <3>2, <3>3
  <2>2. a[Len(s) + 1] = h[x] BY <1>1, <1>2 DEF Mapped
  <2> QED BY <1>5, <2>1, <2>2
<1>7. a = b BY <1>3, <1>5, <1>6, SeqEqual
<1> QED BY <1>7 DEF b, t

-----------------------------------------------------------------------------
(* FlattenSeq *)

\* f is the function by which FlattenSeq concatenates the first n sequences of s.
Flat(f, s, n) == f = [i \in 1..n |-> IF i = 1 THEN s[i] ELSE f[i - 1] \o s[i]]

\* What such a function has at one of its places.
LEMMA FlatAt ==
  ASSUME NEW s, NEW n \in Nat, NEW f, Flat(f, s, n), NEW i \in 1..n
  PROVE  f[i] = IF i = 1 THEN s[i] ELSE f[i - 1] \o s[i]
BY DEF Flat

\* Such a function for n sequences extends to one for n + 1.
LEMMA FlatExtends ==
  ASSUME NEW s, NEW n \in Nat, NEW f, Flat(f, s, n)
  PROVE  \E g : Flat(g, s, n + 1)
<1> DEFINE g == [i \in 1..(n + 1) |-> IF i = 1 THEN s[i]
                                      ELSE IF i = n + 1 THEN f[n] \o s[n + 1] ELSE f[i]]
<1>1. ASSUME NEW i \in 1..(n + 1) PROVE g[i] = IF i = 1 THEN s[i] ELSE g[i - 1] \o s[i]
  <2>1. CASE i = 1 BY <2>1
  <2>2. CASE i # 1 /\ i = n + 1
    <3>1. n \in 1..n /\ n # n + 1 /\ i - 1 = n BY <2>2
    <3>2. f[n] = IF n = 1 THEN s[n] ELSE f[n - 1] \o s[n] BY <3>1 DEF Flat
    <3>3. g[n] = f[n] BY <3>1, <3>2
    <3>4. g[i] = f[n] \o s[n + 1] BY <2>2
    <3> QED BY <2>2, <3>1, <3>3, <3>4
  <2>3. CASE i # 1 /\ i # n + 1
    <3>1. i \in 1..n /\ i - 1 \in 1..n BY <2>3
    <3>2. f[i] = f[i - 1] \o s[i] BY <2>3, <3>1 DEF Flat
    <3>3. g[i - 1] = f[i - 1] BY <3>1 DEF Flat
    <3> QED BY <2>3, <3>2, <3>3
  <2> QED BY <2>1, <2>2, <2>3
<1>2. Flat(g, s, n + 1) BY <1>1 DEF Flat
<1> QED BY <1>2

\* There is such a function, for any number of sequences.
LEMMA FlatExists ==
  ASSUME NEW s, NEW n \in Nat
  PROVE  \E f : Flat(f, s, n)
<1> DEFINE G == {k \in Nat : \E f : Flat(f, s, k)}
<1>1. 0 \in G
  <2>1. Flat([i \in 1..0 |-> <<>>], s, 0) BY DEF Flat
  <2> QED BY <2>1
<1>2. \A k \in Nat : k \in G => k + 1 \in G BY FlatExtends
<1> HIDE DEF G
<1>3. Nat \subseteq G BY <1>1, <1>2, Induction
<1> QED BY <1>3 DEF G

SameTo(s, t, n) == \A i \in 1..n : s[i] = t[i]

\* Of two such functions, where one is for a sequence more, the other is its start.
LEMMA FlatAgrees ==
  ASSUME NEW s, NEW t, NEW n \in Nat, SameTo(s, t, n),
         NEW f, Flat(f, s, n), NEW g, Flat(g, t, n + 1)
  PROVE  SameTo(f, g, n)
<1> DEFINE G == {k \in Nat : k \in 1..n => f[k] = g[k]}
<1>1. 0 \in G OBVIOUS
<1>2. ASSUME NEW k \in Nat, k \in G PROVE k + 1 \in G
  <2>1. SUFFICES ASSUME k + 1 \in 1..n PROVE f[k + 1] = g[k + 1] OBVIOUS
  <2>2. f[k + 1] = IF k + 1 = 1 THEN s[k + 1] ELSE f[(k + 1) - 1] \o s[k + 1] BY <2>1 DEF Flat
  <2>3. k + 1 \in 1..(n + 1) BY <2>1
  <2>4. g[k + 1] = IF k + 1 = 1 THEN t[k + 1] ELSE g[(k + 1) - 1] \o t[k + 1] BY <2>3 DEF Flat
  <2>5. s[k + 1] = t[k + 1] /\ (k + 1) - 1 = k BY <2>1 DEF SameTo
  <2>6. k + 1 # 1 => f[k] = g[k] BY <1>2, <2>1
  <2> QED BY <2>2, <2>4, <2>5, <2>6
<1> HIDE DEF G
<1>3. Nat \subseteq G BY <1>1, <1>2, Induction
<1> QED BY <1>3 DEF G, SameTo

\* FlattenSeq is the last value of such a function.
LEMMA FlattenIs ==
  ASSUME NEW S, NEW s \in Seq(S), s # <<>>
  PROVE  \E f : Flat(f, s, Len(s)) /\ FlattenSeq(s) = f[Len(s)]
<1> DEFINE f == CHOOSE f : Flat(f, s, Len(s))
<1>1. Len(s) # 0 /\ Len(s) \in Nat OBVIOUS
<1>2. Flat(f, s, Len(s)) BY <1>1, FlatExists
<1>3. FlattenSeq(s) = f[Len(s)] BY <1>1 DEF FlattenSeq, Flat
<1> QED BY <1>2, <1>3

\* FlattenSeq concatenates, one sequence at a time.
THEOREM FlattenStep ==
  ASSUME NEW S, NEW s \in Seq(Seq(S)), NEW x \in Seq(S), FlattenSeq(s) \in Seq(S)
  PROVE  /\ FlattenSeq(Append(s, x)) = FlattenSeq(s) \o x
         /\ FlattenSeq(Append(s, x)) \in Seq(S)
<1> DEFINE t == Append(s, x)
           n == Len(s)
<1>1. t \in Seq(Seq(S)) /\ Len(t) = n + 1 /\ t[n + 1] = x /\ \A i \in 1..n : t[i] = s[i] OBVIOUS
<1>a. n \in Nat OBVIOUS
<1> HIDE DEF t
<1>2. t # <<>> /\ n \in Nat /\ n + 1 \in Nat BY <1>1, <1>a
<1>3. PICK g : Flat(g, t, n + 1) /\ FlattenSeq(t) = g[n + 1] BY <1>1, <1>2, FlattenIs
<1>4. g[n + 1] = IF n + 1 = 1 THEN t[n + 1] ELSE g[(n + 1) - 1] \o t[n + 1] BY <1>2, <1>3, FlatAt
<1>5. CASE s = <<>>
  <2>1. FlattenSeq(s) = <<>> BY <1>5 DEF FlattenSeq
  <2>2. FlattenSeq(t) = x BY <1>1, <1>3, <1>4, <1>5
  <2> QED BY <2>1, <2>2 DEF t
<1>6. CASE s # <<>>
  <2>1. PICK f : Flat(f, s, n) /\ FlattenSeq(s) = f[n] BY <1>6, FlattenIs
  <2>2. n \in 1..n /\ n <= n + 1 /\ (n + 1) - 1 = n /\ n + 1 # 1 BY <1>2, <1>6
  <2> HIDE DEF n
  <2>3. SameTo(f, g, n)
    <3>1. Flat(f, s, n) BY <2>1 DEF n
    <3>2. SameTo(s, t, n) BY <1>1 DEF SameTo
    <3>3. Flat(g, t, n + 1) BY <1>3
    <3>4. n \in Nat BY <1>2
    <3> QED BY <3>1, <3>2, <3>3, <3>4, FlatAgrees
  <2>4. FlattenSeq(t) = FlattenSeq(s) \o x BY <1>1, <1>3, <1>4, <2>1, <2>2, <2>3 DEF n, SameTo
  <2> QED BY <2>4 DEF t
<1> QED BY <1>5, <1>6

Elements(s) == UNION {ToSet(s[i]) : i \in DOMAIN s}

\* What is flattened is a sequence of the elements of the parts.
THEOREM FlattenElements ==
  ASSUME NEW S, NEW s \in Seq(Seq(S))
  PROVE  /\ FlattenSeq(s) \in Seq(S)
         /\ ToSet(FlattenSeq(s)) = Elements(s)
<1> DEFINE G == {r \in Seq(Seq(S)) : FlattenSeq(r) \in Seq(S) /\ ToSet(FlattenSeq(r)) = Elements(r)}
<1>1. <<>> \in G
  <2>1. FlattenSeq(<<>>) = <<>> BY DEF FlattenSeq
  <2>2. ToSet(<<>>) = {} /\ Elements(<<>>) = {} BY DEF ToSet, Elements
  <2>3. <<>> \in Seq(Seq(S)) /\ <<>> \in Seq(S) OBVIOUS
  <2> QED BY <2>1, <2>2, <2>3
<1>2. ASSUME NEW r \in Seq(Seq(S)), NEW x \in Seq(S), r \in G PROVE Append(r, x) \in G
  <2>1. FlattenSeq(Append(r, x)) = FlattenSeq(r) \o x /\ FlattenSeq(Append(r, x)) \in Seq(S)
    BY <1>2, FlattenStep
  <2>2. ToSet(FlattenSeq(r) \o x) = ToSet(FlattenSeq(r)) \cup ToSet(x)
    <3>1. ASSUME NEW a \in Seq(S), NEW b \in Seq(S) PROVE ToSet(a \o b) = ToSet(a) \cup ToSet(b)
      <4>1. ASSUME NEW i \in DOMAIN b PROVE b[i] \in ToSet(a \o b)
        <5>1. (a \o b)[Len(a) + i] = b[i] /\ Len(a) + i \in DOMAIN (a \o b) OBVIOUS
        <5> QED BY <5>1 DEF ToSet
      <4>2. ASSUME NEW i \in DOMAIN a PROVE a[i] \in ToSet(a \o b)
        <5>1. (a \o b)[i] = a[i] /\ i \in DOMAIN (a \o b) OBVIOUS
        <5> QED BY <5>1 DEF ToSet
      <4>3. ASSUME NEW i \in DOMAIN (a \o b) PROVE (a \o b)[i] \in ToSet(a) \cup ToSet(b)
        <5>1. CASE i <= Len(a)
          <6>1. i \in DOMAIN a /\ (a \o b)[i] = a[i] BY <5>1
          <6> QED BY <6>1 DEF ToSet
        <5>2. CASE i > Len(a)
          <6>1. i - Len(a) \in DOMAIN b /\ (a \o b)[i] = b[i - Len(a)] BY <5>2
          <6> QED BY <6>1 DEF ToSet
        <5> QED BY <5>1, <5>2
      <4> QED BY <4>1, <4>2, <4>3 DEF ToSet
    <3> QED BY <1>2, <3>1
  <2>3. Elements(Append(r, x)) = Elements(r) \cup ToSet(x)
    <3>1. DOMAIN Append(r, x) = DOMAIN r \cup {Len(r) + 1} OBVIOUS
    <3>2. \A i \in DOMAIN r : Append(r, x)[i] = r[i] OBVIOUS
    <3>3. Append(r, x)[Len(r) + 1] = x OBVIOUS
    <3> QED BY <3>1, <3>2, <3>3 DEF Elements
  <2>4. Append(r, x) \in Seq(Seq(S)) OBVIOUS
  <2> QED BY <1>2, <2>1, <2>2, <2>3, <2>4
<1> HIDE DEF G
<1>3. Seq(Seq(S)) \subseteq G BY <1>1, <1>2, InductionOnSequences
<1> QED BY <1>3 DEF G
=============================================================================
