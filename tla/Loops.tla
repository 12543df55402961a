------------------------------- MODULE Loops --------------------------------
(***************************************************************************)
(* What the proofs about loops need: induction over the rounds of a loop,  *)
(* and what FlattenSeq and Max, which are loops of the community modules,  *)
(* compute.  A property of rounds is given as the set of the numbers that  *)
(* have it, since a lemma that takes an operator cannot be used.           *)
(***************************************************************************)
EXTENDS SequencesExt, FiniteSetTheorems, SequenceTheorems, WellFoundedInduction, TLAPS

LEMMA LeastElement ==
  ASSUME NEW S, S \subseteq Nat, S # {}
  PROVE  \E n \in S : \A m \in S : n <= m
<1> DEFINE R == {p \in Nat \X Nat : p[1] < p[2]}
<1>1. IsWellFoundedOn(R, Nat)
  BY NatLessThanWellFounded DEF OpToRel
<1>2. PICK n \in S : \A m \in S : <<m, n>> \notin R
  <2> HIDE DEF R
  <2> QED
    BY <1>1, WFMin
<1>3. ASSUME NEW m \in S
      PROVE  n <= m
  <2>1. n \in Nat /\ m \in Nat /\ ~(m < n)
    BY <1>2
  <2> QED
    BY <2>1
<1> QED
  BY <1>3

(* Induction: S holds the numbers of the rounds that have a property.      *)
LEMMA RoundByRound ==
  ASSUME NEW n \in Nat, NEW S, 0 \in S, \A i \in 1..n : i - 1 \in S => i \in S
  PROVE  0..n \subseteq S
<1> DEFINE T == (0..n) \ S
<1> SUFFICES ASSUME T # {}
             PROVE  FALSE
  OBVIOUS
<1>1. PICK i \in T : \A j \in T : i <= j
  <2> T \subseteq Nat
    OBVIOUS
  <2> HIDE DEF T
  <2> QED
    BY LeastElement
<1>2. i \in 1..n /\ i - 1 \in 0..n
  BY <1>1
<1>3. i - 1 \in S
  BY <1>1, <1>2
<1> QED
  BY <1>1, <1>2, <1>3

(* A loop over the elements of s: what it has made of them after each round*)
Looping(f, first, step, s) ==
  f = [i \in 0..Len(s) |-> IF i = 0 THEN first ELSE step[<<f[i - 1], s[i]>>]]

(* There is such a function, which the recursive definitions of loops take *)
(* for granted.                                                            *)
LEMMA LoopsRun ==
  ASSUME NEW S, NEW D, NEW first \in S, NEW step \in [S \X D -> S], NEW s \in Seq(D)
  PROVE  \E f \in [0..Len(s) -> S] : Looping(f, first, step, s)
<1> DEFINE n == Len(s)
           Upto(f, k) == f = [i \in 0..k |-> IF i = 0 THEN first ELSE step[<<f[i - 1], s[i]>>]]
           Rounds == {k \in Nat : \E f \in [0..k -> S] : Upto(f, k)}
<1>0. n \in Nat /\ \A i \in 1..n : s[i] \in D
  OBVIOUS
<1>1. 0 \in Rounds
  <2> DEFINE f == [i \in 0..0 |-> first]
  <2>1. f \in [0..0 -> S] /\ Upto(f, 0)
    OBVIOUS
  <2> QED
    BY <2>1
<1>2. ASSUME NEW k \in 1..n, k - 1 \in Rounds
      PROVE  k \in Rounds
  <2>0. k \in Nat
    BY <1>0
  <2>1. PICK f \in [0..(k - 1) -> S] : Upto(f, k - 1)
    BY <1>2
  <2> DEFINE next == step[<<f[k - 1], s[k]>>]
             h == [i \in 0..k |-> IF i < k THEN f[i] ELSE next]
  <2>2. h \in [0..k -> S]
    <3>1. next \in S
      BY <1>0, <2>0
    <3>2. \A i \in 0..k : i < k => i \in 0..(k - 1)
      BY <2>0
    <3> QED
      BY <3>1, <3>2
  <2>3. ASSUME NEW i \in 0..k
        PROVE  h[i] = IF i = 0 THEN first ELSE step[<<h[i - 1], s[i]>>]
    <3>1. i # 0 => i - 1 \in 0..k /\ i - 1 < k
      BY <2>0
    <3>2. CASE i < k
      <4>1. i \in 0..(k - 1)
        BY <2>0, <3>2
      <4>2. f[i] = IF i = 0 THEN first ELSE step[<<f[i - 1], s[i]>>]
        BY <2>1, <4>1
      <4> QED
        BY <3>1, <3>2, <4>2
    <3>3. CASE i = k
      <4>1. k # 0 /\ k - 1 \in 0..k /\ k - 1 < k /\ k \in 0..k /\ ~(k < k)
        BY <2>0
      <4> HIDE DEF next
      <4>2. h[k] = next /\ h[k - 1] = f[k - 1]
        BY <4>1
      <4> HIDE DEF h
      <4> QED
        BY <3>3, <4>1, <4>2 DEF next
    <3> QED
      BY <2>0, <3>2, <3>3
  <2>4. Upto(h, k)
    BY <2>2, <2>3
  <2> QED
    BY <2>0, <2>2, <2>4
<1>3. n \in Rounds
  <2> HIDE DEF Rounds
  <2>1. 0..n \subseteq Rounds
    BY <1>0, <1>1, <1>2, RoundByRound
  <2> QED
    BY <1>0, <2>1
<1> QED
  BY <1>3 DEF Looping

(* One element more is one round more.                                     *)
LEMMA LoopsGoOn ==
  ASSUME NEW D, NEW s \in Seq(D), NEW x \in D, NEW first, NEW step,
         NEW f, Looping(f, first, step, s),
         NEW h, Looping(h, first, step, Append(s, x))
  PROVE  h[Len(s) + 1] = step[<<f[Len(s)], x>>]
<1> DEFINE n == Len(s)
           t == Append(s, x)
           Agree == {i \in 0..n : h[i] = f[i]}
<1>1. /\ n \in Nat /\ Len(t) = n + 1 /\ t[n + 1] = x
      /\ \A i \in 1..n : t[i] = s[i]
  OBVIOUS
<1>2. f[0] = first /\ \A i \in 1..n : f[i] = step[<<f[i - 1], s[i]>>]
  BY <1>1 DEF Looping
<1>3. h[0] = first /\ \A i \in 1..(n + 1) : h[i] = step[<<h[i - 1], t[i]>>]
  <2> HIDE DEF t, n
  <2>1. h = [i \in 0..(n + 1) |-> IF i = 0 THEN first ELSE step[<<h[i - 1], t[i]>>]]
    BY <1>1 DEF Looping, t
  <2>2. 0 \in 0..(n + 1) /\ \A i \in 1..(n + 1) : i \in 0..(n + 1) /\ i # 0
    BY <1>1
  <2> QED
    BY <2>1, <2>2
<1> HIDE DEF t
<1> HIDE DEF n
<1>4. n \in Agree
  <2>1. 0 \in Agree
    BY <1>1, <1>2, <1>3
  <2>2. ASSUME NEW i \in 1..n, i - 1 \in Agree
        PROVE  i \in Agree
    <3>1. i \in 0..n /\ i \in 1..(n + 1)
      BY <1>1
    <3>2. h[i] = step[<<h[i - 1], t[i]>>] /\ f[i] = step[<<f[i - 1], s[i]>>]
      BY <1>2, <1>3, <3>1
    <3> QED
      BY <1>1, <2>2, <3>1, <3>2
  <2> HIDE DEF Agree
  <2>3. 0..n \subseteq Agree
    BY <1>1, <2>1, <2>2, RoundByRound
  <2> QED
    BY <1>1, <2>3
<1>5. n + 1 \in 1..(n + 1) /\ (n + 1) - 1 = n
  BY <1>1
<1>6. h[n + 1] = step[<<h[n], x>>]
  BY <1>1, <1>3, <1>5
<1> QED
  BY <1>4, <1>6 DEF n

(* Max of the community modules is the greatest element of a set that has  *)
(* one.                                                                    *)
LEMMA MaxOfNumbers ==
  ASSUME NEW n \in Nat, NEW S \in SUBSET (1..n), S # {}
  PROVE  Max(S) \in S /\ \A x \in S : x <= Max(S)
<1> DEFINE T == {n - x : x \in S}
<1>1. T \subseteq Nat /\ T # {}
  <2>1. ASSUME NEW x \in S
        PROVE  n - x \in Nat
    <3>1. x \in 1..n
      OBVIOUS
    <3> QED
      BY <3>1
  <2>2. T \subseteq Nat
    BY <2>1
  <2> QED
    BY <2>2
<1>2. PICK m \in T : \A k \in T : m <= k
  <2> HIDE DEF T
  <2> QED
    BY <1>1, LeastElement
<1>3. PICK x \in S : m = n - x
  BY <1>2
<1>4. \A y \in S : x >= y
  <2> SUFFICES ASSUME NEW y \in S
               PROVE  x >= y
    OBVIOUS
  <2>1. n - x <= n - y
    BY <1>2, <1>3
  <2>2. x \in Nat /\ y \in Nat
    OBVIOUS
  <2> QED
    BY <2>1, <2>2
<1> QED
  BY <1>3, <1>4 DEF Max

LEMMA MaxIs ==
  ASSUME NEW S, S \subseteq Int, NEW x \in S, \A y \in S : y <= x
  PROVE  Max(S) = x
<1>1. \A y \in S : x >= y
  OBVIOUS
<1>2. Max(S) \in S /\ \A y \in S : Max(S) >= y
  BY <1>1 DEF Max
<1>3. Max(S) \in Int /\ x \in Int /\ Max(S) >= x /\ x >= Max(S)
  BY <1>1, <1>2
<1> QED
  BY <1>3

(* Min of the community modules is the least element of a set that has one.*)
LEMMA MinOfNumbers ==
  ASSUME NEW S, S \subseteq Nat, S # {}
  PROVE  Min(S) \in S /\ \A x \in S : Min(S) <= x
<1>1. \E x \in S : \A y \in S : x <= y
  BY LeastElement
<1> QED
  BY <1>1 DEF Min
-----------------------------------------------------------------------------
(* One element more at the end                                            *)
LEMMA ConcatAppend ==
  ASSUME NEW X, NEW s \in Seq(X), NEW t \in Seq(X), NEW x \in X
  PROVE  s \o Append(t, x) = Append(s \o t, x)
<1>1. Append(t, x) = t \o <<x>> /\ <<x>> \in Seq(X) /\ s \o t \in Seq(X)
  OBVIOUS
<1>2. s \o (t \o <<x>>) = (s \o t) \o <<x>>
  BY <1>1, ConcatAssociative
<1> DEFINE u == s \o t
<1>3. u \o <<x>> = Append(u, x)
  <2> HIDE DEF u
  <2> QED
    BY <1>1 DEF u
<1> QED
  BY <1>1, <1>2, <1>3

(* One element and another                                                 *)
LEMMA AppendPair ==
  ASSUME NEW X, NEW x \in X, NEW y \in X
  PROVE  Append(<<x>>, y) = <<x, y>>
<1>1. /\ Append(<<x>>, y) \in Seq(X) /\ <<x, y>> \in Seq(X)
      /\ Len(Append(<<x>>, y)) = 2 /\ Len(<<x, y>>) = 2
  OBVIOUS
<1>2. \A i \in 1..2 : Append(<<x>>, y)[i] = <<x, y>>[i]
  OBVIOUS
<1> QED
  BY <1>1, <1>2, SeqEqual

LEMMA ThreeByOne ==
  ASSUME NEW X, NEW x \in X, NEW y \in X, NEW z \in X
  PROVE  <<x, y, z>> = (<<x>> \o <<y>>) \o <<z>>
<1> DEFINE s == <<x, y>> \o <<z>>
           t == <<x, y, z>>
<1>1. s \in Seq(X) /\ t \in Seq(X) /\ Len(s) = 3 /\ Len(t) = 3
  OBVIOUS
<1>2. s[1] = x /\ s[2] = y /\ s[3] = z /\ t[1] = x /\ t[2] = y /\ t[3] = z
  OBVIOUS
<1> HIDE DEF s, t
<1>3. s = [i \in 1..3 |-> s[i]] /\ t = [i \in 1..3 |-> t[i]]
  BY <1>1
<1>4. s = t
  BY <1>2, <1>3
<1>5. <<x>> \o <<y>> = <<x, y>>
  <2>1. Append(<<x>>, y) = <<x>> \o <<y>>
    OBVIOUS
  <2> QED
    BY <2>1, AppendPair
<1> QED
  BY <1>4, <1>5 DEF s, t

(* A sequence is its front and its last element.                           *)
LEMMA FrontAndLast ==
  ASSUME NEW X, NEW p \in Seq(X), p # <<>>
  PROVE  /\ Len(p) \in Nat \ {0} /\ Last(p) \in X
         /\ Front(p) \in Seq(X) /\ Len(Front(p)) = Len(p) - 1
         /\ \A i \in 1..(Len(p) - 1) : Front(p)[i] = p[i]
         /\ p = Append(Front(p), Last(p))
<1>1. Len(p) \in Nat \ {0} /\ p[Len(p)] \in X /\ Last(p) = p[Len(p)]
  BY EmptySeq, ElementOfSeq DEF Last
<1> DEFINE n == Len(p) - 1
           f == SubSeq(p, 1, n)
           a == Append(f, p[Len(p)])
<1>2. n \in Nat /\ n \in Int /\ 1 \in Int /\ \A i \in 1..n : p[i] \in X
  BY <1>1
<1>3. f \in Seq(X) /\ Len(f) = n /\ \A i \in 1..n : f[i] = p[i]
  <2> HIDE DEF n
  <2> QED
    BY <1>2, SubSeqProperties
<1> HIDE DEF f
<1>4. a \in Seq(X) /\ Len(a) = Len(p) /\ \A i \in 1..Len(p) : a[i] = p[i]
  BY <1>1, <1>3
<1>5. p = a
  <2> HIDE DEF a
  <2> QED
    BY <1>4, SeqEqual
<1> QED
  BY <1>1, <1>3, <1>5 DEF Front, f

(* The first i elements are one more than those before.                    *)
LEMMA SubSeqByOne ==
  ASSUME NEW X, NEW t \in Seq(X), NEW i \in 1..Len(t)
  PROVE  SubSeq(t, 1, i) = Append(SubSeq(t, 1, i - 1), t[i])
<1>1. SubSeq(t, 1, i) = SubSeq(t, 1, i - 1) \o <<t[i]>>
  BY SubSeqRecursiveSecond
<1>2. SubSeq(t, 1, i - 1) \in Seq(X) /\ t[i] \in X
  BY SubSeqProperties
<1> DEFINE u == SubSeq(t, 1, i - 1)
<1> HIDE DEF u
<1>3. u \o <<t[i]>> = Append(u, t[i])
  BY <1>2 DEF u
<1> QED
  BY <1>1, <1>3 DEF u

(* A sequence of which one element more is appended                        *)
LEMMA ConcatByOne ==
  ASSUME NEW X, NEW s \in Seq(X), NEW t \in Seq(X), NEW i \in 1..Len(t)
  PROVE  s \o SubSeq(t, 1, i) = Append(s \o SubSeq(t, 1, i - 1), t[i])
<1>1. SubSeq(t, 1, i) = SubSeq(t, 1, i - 1) \o <<t[i]>>
  BY SubSeqRecursiveSecond
<1>2. SubSeq(t, 1, i - 1) \in Seq(X) /\ <<t[i]>> \in Seq(X) /\ t[i] \in X
  BY SubSeqProperties
<1> DEFINE u == SubSeq(t, 1, i - 1)
           x == <<t[i]>>
<1>3. s \o (u \o <<t[i]>>) = (s \o u) \o <<t[i]>>
  <2>1. s \in Seq(X) /\ u \in Seq(X) /\ x \in Seq(X)
    BY <1>2
  <2> HIDE DEF u, x
  <2>2. s \o (u \o x) = (s \o u) \o x
    BY ONLY <2>1, ConcatAssociative, SMTT(30)
  <2> QED
    BY <2>2 DEF x
<1> HIDE DEF u
<1>4. (s \o u) \o <<t[i]>> = Append(s \o u, t[i])
  BY <1>2 DEF u
<1> QED
  BY <1>1, <1>3, <1>4 DEF u

(* A function of the numbers up to n is a sequence.                        *)
LEMMA SequenceOf ==
  ASSUME NEW X, NEW n \in Nat, NEW f, f = [i \in 1..n |-> f[i]], \A i \in 1..n : f[i] \in X
  PROVE  f \in Seq(X)
<1>1. [i \in 1..n |-> f[i]] \in Seq(X)
  OBVIOUS
<1> QED
  BY <1>1

LEMMA SequenceOfMore ==
  ASSUME NEW X, NEW Y, X \subseteq Y, NEW s \in Seq(X)
  PROVE  s \in Seq(Y)
<1>1. s = [i \in 1..Len(s) |-> s[i]] /\ Len(s) \in Nat /\ \A i \in 1..Len(s) : s[i] \in Y
  OBVIOUS
<1> QED
  BY ONLY <1>1, SequenceOf

(* Things that can be put one behind another                               *)
Concatenates(S) ==
  /\ \A x, y \in S : x \o y \in S
  /\ \A x, y, z \in S : (x \o y) \o z = x \o (y \o z)

FourBehind(a, b, c, d, e) == (((a \o b) \o c) \o d) \o e = a \o (((b \o c) \o d) \o e)

LEMMA FourRegrouped ==
  ASSUME NEW S, Concatenates(S), NEW a \in S, NEW b \in S, NEW c \in S, NEW d \in S, NEW e \in S
  PROVE  FourBehind(a, b, c, d, e)
<1> USE DEF Concatenates
<1>1. b \o c \in S
  OBVIOUS
<1>2. (b \o c) \o d \in S
  BY <1>1
<1>3. (a \o b) \o c = a \o (b \o c)
  OBVIOUS
<1>4. (a \o (b \o c)) \o d = a \o ((b \o c) \o d)
  BY <1>1, ZenonT(40)
<1>5. (a \o ((b \o c) \o d)) \o e = a \o (((b \o c) \o d) \o e)
  BY <1>2, ZenonT(40)
<1> QED
  BY <1>3, <1>4, <1>5 DEF FourBehind

(* What is in front of something begins it.                                *)
LEMMA PrefixIs ==
  ASSUME NEW X, NEW s \in Seq(X), NEW u \in Seq(X)
  PROVE  IsPrefix(s, s \o u)
<1> DEFINE t == s \o u
           n == Len(s)
<1>1. n \in Nat /\ Len(u) \in Nat /\ Len(t) = n + Len(u) /\ \A i \in 1..n : t[i] = s[i]
  OBVIOUS
<1>2. n <= Len(t)
  BY <1>1
<1> HIDE DEF t, n
<1>3. SubSeq(s, 1, n) = SubSeq(t, 1, n)
  BY <1>1
<1> QED
  BY <1>2, <1>3 DEF IsPrefix, t, n

(* What is behind something ends in it.                                    *)
LEMMA SuffixIs ==
  ASSUME NEW X, NEW s \in Seq(X), NEW u \in Seq(X)
  PROVE  IsSuffix(s, u \o s)
<1> DEFINE t == u \o s
           n == Len(s)
           m == Len(u)
<1>1. n \in Nat /\ m \in Nat /\ Len(t) = m + n
  OBVIOUS
<1>2. \A i \in 1..n : /\ (n - i) + 1 \in 1..n /\ ((m + n) - i) + 1 \in 1..(m + n)
                     /\ ((m + n) - i) + 1 > m /\ (((m + n) - i) + 1) - m = (n - i) + 1
  BY <1>1
<1>3. \A j \in 1..(m + n) : j > m => t[j] = s[j - m]
  BY <1>1
<1> HIDE DEF t, n, m
<1>4. \A i \in 1..n : t[((m + n) - i) + 1] = s[(n - i) + 1]
  BY <1>2, <1>3
<1>5. /\ Reverse(s) = [i \in 1..n |-> s[(n - i) + 1]]
      /\ Reverse(t) = [i \in 1..(m + n) |-> t[((m + n) - i) + 1]]
  BY <1>1 DEF Reverse, n
<1>6. /\ Reverse(s) \in Seq(X) /\ Len(Reverse(s)) = n
      /\ Reverse(t) \in Seq(X) /\ Len(Reverse(t)) = m + n
  <2>1. t \in Seq(X)
    BY DEF t
  <2>2. /\ \A i \in 1..n : s[(n - i) + 1] \in X
        /\ \A i \in 1..(m + n) : t[((m + n) - i) + 1] \in X
    <3>1. \A i \in 1..(m + n) : ((m + n) - i) + 1 \in 1..(m + n)
      BY <1>1
    <3>2. (\A i \in 1..n : s[i] \in X) /\ \A i \in 1..(m + n) : t[i] \in X
      BY <1>1, <2>1 DEF n
    <3> QED
      BY <1>2, <3>1, <3>2
  <2> QED
    BY <1>1, <1>5, <2>2
<1>7. SubSeq(Reverse(s), 1, n) = SubSeq(Reverse(t), 1, n)
  <2> DEFINE a == Reverse(s)
             b == Reverse(t)
  <2>1. \A i \in 1..n : a[i] = b[i] /\ a[i] \in X
    <3>1. \A i \in 1..n : i \in 1..(m + n)
      BY <1>1
    <3>2. \A i \in 1..n : a[i] \in X
      <4> HIDE DEF a
      <4> QED
        BY <1>6, ElementOfSeq DEF a
    <3> QED
      BY <1>4, <1>5, <3>1, <3>2
  <2> HIDE DEF a, b
  <2> QED
    BY <1>1, <2>1 DEF a, b
<1> QED
  BY <1>1, <1>6, <1>7 DEF IsSuffix, IsPrefix, t
-----------------------------------------------------------------------------
(* What the loop that appends n sequences over X has after each round      *)
Appending(g, X, ss, n) ==
  /\ g \in [0..n -> Seq(X)]
  /\ g[0] = <<>> /\ g[n] = FlattenSeq(ss)
  /\ \A i \in 1..n : g[i] = g[i - 1] \o ss[i]

(* FlattenSeq appends the sequences one by one.                            *)
LEMMA FlattenByRounds ==
  ASSUME NEW X, NEW ss \in Seq(Seq(X)), NEW n, n = Len(ss)
  PROVE  \E g : Appending(g, X, ss, n)
<1> DEFINE Flat(f, k) == f = [i \in 1..k |-> IF i = 1 THEN ss[i] ELSE f[i - 1] \o ss[i]]
           Rounds == {k \in Nat : \E f \in [1..k -> Seq(X)] : Flat(f, k)}
<1>0. n \in Nat /\ \A i \in 1..n : ss[i] \in Seq(X)
  OBVIOUS
<1>1. 0 \in Rounds
  <2> DEFINE f == [i \in 1..0 |-> <<>>]
  <2>1. f \in [1..0 -> Seq(X)] /\ Flat(f, 0)
    OBVIOUS
  <2> QED
    BY <2>1
<1>2. ASSUME NEW k \in 1..n, k - 1 \in Rounds
      PROVE  k \in Rounds
  <2>0. k \in Nat
    BY <1>0
  <2>1. PICK f \in [1..(k - 1) -> Seq(X)] : Flat(f, k - 1)
    BY <1>2
  <2> DEFINE h == [i \in 1..k |-> IF i < k THEN f[i]
                                  ELSE IF k = 1 THEN ss[1] ELSE f[k - 1] \o ss[k]]
  <2>2. h \in [1..k -> Seq(X)]
    BY <1>0
  <2>3. ASSUME NEW i \in 1..k
        PROVE  h[i] = IF i = 1 THEN ss[i] ELSE h[i - 1] \o ss[i]
    <3>1. CASE i < k
      <4>1. i \in 1..(k - 1)
        BY <2>0, <3>1
      <4>2. f[i] = IF i = 1 THEN ss[i] ELSE f[i - 1] \o ss[i]
        BY <2>1, <4>1
      <4>3. i # 1 => i - 1 \in 1..k /\ i - 1 < k
        BY <2>0, <3>1
      <4> QED
        BY <3>1, <4>2, <4>3
    <3>2. CASE i = k
      <4>1. i # 1 => i - 1 \in 1..k /\ i - 1 < k
        BY <2>0, <3>2
      <4> QED
        BY <3>2, <4>1
    <3> QED
      BY <2>0, <3>1, <3>2
  <2>4. Flat(h, k)
    BY <2>2, <2>3
  <2> QED
    BY <2>0, <2>2, <2>4
<1>3. PICK f \in [1..n -> Seq(X)] : Flat(f, n)
  <2>1. n \in Rounds
    <3> HIDE DEF Rounds
    <3>1. 0..n \subseteq Rounds
      BY <1>0, <1>1, <1>2, RoundByRound
    <3> QED
      BY <1>0, <3>1
  <2> QED
    BY <2>1
<1> DEFINE flatten == CHOOSE f_1 : Flat(f_1, n)
<1>4. Flat(flatten, n)
  BY <1>3
<1>5. n > 0 => FlattenSeq(ss) = flatten[n]
  BY <1>0 DEF FlattenSeq
<1>6. n = 0 => FlattenSeq(ss) = <<>>
  <2>1. n = 0 => ss = <<>>
    BY EmptySeq
  <2> QED
    BY <2>1 DEF FlattenSeq
<1>7. \A i \in 1..n : flatten[i] = IF i = 1 THEN ss[i] ELSE flatten[i - 1] \o ss[i]
  BY <1>4
<1> HIDE DEF flatten
<1> DEFINE g == [i \in 0..n |-> IF i = 0 THEN <<>> ELSE flatten[i]]
<1>8. ASSUME NEW i \in 1..n
      PROVE  g[i] = g[i - 1] \o ss[i]
  <2>1. <<>> \o ss[i] = ss[i]
    BY <1>0
  <2>2. i \in 0..n /\ i # 0 /\ i - 1 \in 0..n
    BY <1>0
  <2>3. g[i] = flatten[i]
    BY <2>2
  <2>4. CASE i = 1
    BY <1>7, <2>1, <2>2, <2>3, <2>4
  <2>5. CASE i # 1
    <3>1. i - 1 # 0
      BY <2>5
    <3>2. g[i - 1] = flatten[i - 1]
      BY <2>2, <3>1
    <3> QED
      BY <1>7, <2>3, <2>5, <3>2
  <2> QED
    BY <2>4, <2>5
<1>9. g \in [0..n -> Seq(X)]
  <2> DEFINE Typed == {i \in 0..n : g[i] \in Seq(X)}
  <2>1. 0 \in Typed
    BY <1>0
  <2>2. ASSUME NEW i \in 1..n, i - 1 \in Typed
        PROVE  i \in Typed
    <3>1. i \in 0..n
      BY <1>0
    <3>2. g[i] = g[i - 1] \o ss[i] /\ ss[i] \in Seq(X)
      BY <1>0, <1>8
    <3>3. g[i - 1] \in Seq(X)
      BY <2>2
    <3> HIDE DEF g
    <3>4. g[i] \in Seq(X)
      BY <3>2, <3>3
    <3> QED
      BY <3>1, <3>4
  <2>3. 0..n \subseteq Typed
    <3> HIDE DEF Typed
    <3> QED
      BY <1>0, <2>1, <2>2, RoundByRound
  <2> QED
    BY <2>3
<1>10. g[0] = <<>> /\ g[n] = FlattenSeq(ss)
  BY <1>0, <1>5, <1>6
<1>11. Appending(g, X, ss, n)
  <2> HIDE DEF g
  <2> QED
    BY <1>8, <1>9, <1>10 DEF Appending
<1> QED
  BY <1>11

LEMMA FlattenOver ==
  ASSUME NEW X, NEW ss \in Seq(Seq(X))
  PROVE  FlattenSeq(ss) \in Seq(X)
<1>1. PICK g : Appending(g, X, ss, Len(ss))
  BY FlattenByRounds
<1>2. Len(ss) \in Nat
  OBVIOUS
<1> QED
  BY ONLY <1>1, <1>2 DEF Appending

(* One sequence more is put behind.                                        *)
LEMMA FlattenByOne ==
  ASSUME NEW X, NEW ss \in Seq(Seq(X)), NEW x \in Seq(X)
  PROVE  FlattenSeq(<<>>) = <<>> /\ FlattenSeq(Append(ss, x)) = FlattenSeq(ss) \o x
<1> DEFINE n == Len(ss)
           tt == Append(ss, x)
           Y == Seq(X)
<1>1. /\ n \in Nat /\ tt \in Seq(Y) /\ Len(tt) = n + 1 /\ tt[n + 1] = x
      /\ \A i \in 1..n : tt[i] = ss[i]
  <2> HIDE DEF Y
  <2>1. ss \in Seq(Y) /\ x \in Y
    BY DEF Y
  <2> QED
    BY <2>1
<1>2. PICK g : Appending(g, X, ss, n)
  BY <1>1, FlattenByRounds
<1>3. PICK h : Appending(h, X, tt, n + 1)
  <2> HIDE DEF tt
  <2> QED
    BY <1>1, FlattenByRounds
<1> HIDE DEF tt, n
<1> DEFINE Agree == {i \in 0..n : h[i] = g[i]}
<1>4. 0 \in Agree
  BY <1>1, <1>2, <1>3 DEF Appending
<1>5. ASSUME NEW i \in 1..n, i - 1 \in Agree
      PROVE  i \in Agree
  <2>1. i \in 0..n /\ i \in 1..(n + 1)
    BY <1>1
  <2>2. g[i] = g[i - 1] \o ss[i] /\ h[i] = h[i - 1] \o tt[i]
    BY <1>2, <1>3, <2>1 DEF Appending
  <2> QED
    BY <1>1, <1>5, <2>1, <2>2
<1>6. n \in Agree
  <2> HIDE DEF Agree
  <2>1. 0..n \subseteq Agree
    BY <1>1, <1>4, <1>5, RoundByRound
  <2> QED
    BY <1>1, <2>1
<1>7. h[n + 1] = h[n] \o x
  <2>1. n + 1 \in 1..(n + 1) /\ (n + 1) - 1 = n
    BY <1>1
  <2>2. h[n + 1] = h[(n + 1) - 1] \o tt[n + 1]
    BY <1>3, <2>1 DEF Appending
  <2> QED
    BY <1>1, <2>1, <2>2
<1>8. FlattenSeq(tt) = FlattenSeq(ss) \o x
  BY <1>2, <1>3, <1>6, <1>7 DEF Appending
<1>9. FlattenSeq(<<>>) = <<>>
  <2>1. <<>> \in Seq(Seq(X)) /\ Len(<<>>) = 0
    OBVIOUS
  <2>2. \E f : Appending(f, X, <<>>, 0)
    BY <2>1, FlattenByRounds
  <2> QED
    BY <2>2 DEF Appending
<1> QED
  BY <1>8, <1>9 DEF tt

(* What is in the sequences that are put together is in the one they give. *)
LEMMA ElementsOfFlatten ==
  ASSUME NEW X, NEW ss \in Seq(Seq(X)), NEW x
  PROVE  (\E i \in DOMAIN FlattenSeq(ss) : FlattenSeq(ss)[i] = x)
           <=> \E k \in DOMAIN ss : \E i \in DOMAIN ss[k] : ss[k][i] = x
<1> DEFINE n == Len(ss)
           In(s) == \E i \in DOMAIN s : s[i] = x
           Right(g) == {k \in 0..n : In(g[k]) <=> \E j \in 1..k : In(ss[j])}
<1>1. n \in Nat /\ DOMAIN ss = 1..n /\ \A k \in 1..n : ss[k] \in Seq(X)
  OBVIOUS
<1>2. PICK g : Appending(g, X, ss, n)
  BY <1>1, FlattenByRounds
<1>3. /\ g[0] = <<>> /\ g[n] = FlattenSeq(ss)
      /\ \A k \in 0..n : g[k] \in Seq(X)
      /\ \A k \in 1..n : g[k] = g[k - 1] \o ss[k]
  BY <1>2 DEF Appending
<1>4. 0 \in Right(g)
  BY <1>1, <1>3
<1>5. \A a, b \in Seq(X) : In(a \o b) <=> In(a) \/ In(b)
  <2> TAKE a, b \in Seq(X)
  <2>1. /\ Len(a) \in Nat /\ Len(b) \in Nat
        /\ DOMAIN a = 1..Len(a) /\ DOMAIN b = 1..Len(b)
        /\ DOMAIN (a \o b) = 1..(Len(a) + Len(b))
        /\ \A i \in 1..Len(a) : (a \o b)[i] = a[i]
        /\ \A i \in 1..(Len(a) + Len(b)) : i \notin 1..Len(a) => (a \o b)[i] = b[i - Len(a)]
    OBVIOUS
  <2>2. ASSUME In(b)
        PROVE  In(a \o b)
    <3>1. PICK i \in 1..Len(b) : b[i] = x
      BY <2>1, <2>2
    <3>2. /\ Len(a) + i \in 1..(Len(a) + Len(b)) /\ Len(a) + i \notin 1..Len(a)
          /\ (Len(a) + i) - Len(a) = i
      BY <2>1, <3>1
    <3> QED
      BY <2>1, <3>1, <3>2
  <2>3. ASSUME In(a)
        PROVE  In(a \o b)
    BY <2>1, <2>3
  <2>4. ASSUME In(a \o b)
        PROVE  In(a) \/ In(b)
    <3>1. PICK i \in 1..(Len(a) + Len(b)) : (a \o b)[i] = x
      BY <2>1, <2>4
    <3>2. i \notin 1..Len(a) => i - Len(a) \in 1..Len(b)
      BY <2>1, <3>1
    <3> QED
      BY <2>1, <3>1, <3>2
  <2> QED
    BY <2>2, <2>3, <2>4
<1>6. ASSUME NEW k \in 1..n, k - 1 \in Right(g)
      PROVE  k \in Right(g)
  <2>1. k \in 0..n /\ k - 1 \in 0..n /\ (\A j : j \in 1..k <=> j \in 1..(k - 1) \/ j = k)
    BY <1>1
  <2>2. In(g[k]) <=> In(g[k - 1]) \/ In(ss[k])
    <3>1. g[k] = g[k - 1] \o ss[k] /\ g[k - 1] \in Seq(X) /\ ss[k] \in Seq(X)
      BY <1>1, <1>3, <2>1
    <3>2. In(g[k - 1] \o ss[k]) <=> In(g[k - 1]) \/ In(ss[k])
      <4> HIDE DEF In
      <4> QED
        BY <1>5, <3>1
    <3> QED
      BY <3>1, <3>2
  <2>3. In(g[k - 1]) <=> \E j \in 1..(k - 1) : In(ss[j])
    BY <1>6
  <2> HIDE DEF In
  <2> QED
    BY <2>1, <2>2, <2>3
<1>7. n \in Right(g)
  <2> HIDE DEF Right
  <2>1. 0..n \subseteq Right(g)
    BY <1>1, <1>4, <1>6, RoundByRound
  <2> QED
    BY <1>1, <2>1
<1>8. In(g[n]) <=> \E j \in 1..n : In(ss[j])
  BY <1>7
<1> QED
  BY <1>1, <1>3, <1>8
-----------------------------------------------------------------------------
(* Where m is in a sequence, and how often                                 *)
Positions(m, s) == {i \in DOMAIN s : s[i] = m}
Occurrences(m, s) == Cardinality(Positions(m, s))

LEMMA PositionsAreFinite ==
  ASSUME NEW X, NEW s \in Seq(X), NEW m
  PROVE  /\ Positions(m, s) \subseteq 1..Len(s) /\ IsFiniteSet(Positions(m, s))
         /\ Occurrences(m, s) \in Nat
<1>1. Len(s) \in Nat /\ Positions(m, s) \subseteq 1..Len(s)
  BY DEF Positions
<1>2. IsFiniteSet(Positions(m, s))
  <2>1. IsFiniteSet(1..Len(s))
    BY <1>1, FS_Interval
  <2> QED
    BY <1>1, <2>1, FS_Subset
<1> QED
  BY <1>1, <1>2, FS_CardinalityType DEF Occurrences

LEMMA OccurrencesOfConcat ==
  ASSUME NEW X, NEW a \in Seq(X), NEW b \in Seq(X), NEW m
  PROVE  Occurrences(m, a \o b) = Occurrences(m, a) + Occurrences(m, b)
<1> DEFINE k == Len(a)
           A == Positions(m, a)
           B == Positions(m, b)
           C == {j \in (k + 1)..(k + Len(b)) : b[j - k] = m}
           shift == [i \in B |-> k + i]
<1>1. /\ k \in Nat /\ Len(b) \in Nat
      /\ A \subseteq 1..k /\ IsFiniteSet(A) /\ Cardinality(A) \in Nat
      /\ B \subseteq 1..Len(b) /\ IsFiniteSet(B) /\ Cardinality(B) \in Nat
  BY PositionsAreFinite DEF Occurrences
<1>2. IsFiniteSet(C) /\ Cardinality(C) = Cardinality(B)
  <2>1. shift \in [B -> C]
    <3> SUFFICES ASSUME NEW i \in B
                 PROVE  k + i \in C
      OBVIOUS
    <3>1. i \in 1..Len(b) /\ b[i] = m
      BY <1>1 DEF Positions
    <3>2. k + i \in (k + 1)..(k + Len(b)) /\ (k + i) - k = i
      BY <1>1, <3>1
    <3> QED
      BY <3>1, <3>2
  <2>2. \A i, j \in B : shift[i] = shift[j] => i = j
    <3> SUFFICES ASSUME NEW i \in B, NEW j \in B, k + i = k + j
                 PROVE  i = j
      OBVIOUS
    <3>1. i \in Nat /\ j \in Nat
      BY <1>1
    <3> QED
      BY <1>1, <3>1
  <2>3. \A j \in C : \E i \in B : shift[i] = j
    <3> SUFFICES ASSUME NEW j \in C
                 PROVE  j - k \in B /\ k + (j - k) = j
      OBVIOUS
    <3>1. j \in (k + 1)..(k + Len(b)) /\ b[j - k] = m
      OBVIOUS
    <3>2. j - k \in 1..Len(b) /\ k + (j - k) = j
      BY <1>1, <3>1
    <3> QED
      BY <3>1, <3>2 DEF Positions
  <2>4. shift \in Bijection(B, C)
    BY <2>1, <2>2, <2>3 DEF Bijection, Injection, Surjection, IsInjective
  <2> QED
    BY <1>1, <2>4, FS_Bijection DEF ExistsBijection
<1>3. A \cap C = {}
  <2> SUFFICES ASSUME NEW j \in A, j \in C
               PROVE  FALSE
    OBVIOUS
  <2>1. j \in 1..k /\ j \in (k + 1)..(k + Len(b))
    BY <1>1
  <2> QED
    BY <1>1, <2>1
<1>4. Positions(m, a \o b) = A \cup C
  <2>1. /\ DOMAIN (a \o b) = 1..(k + Len(b))
        /\ \A i \in 1..(k + Len(b)) : (a \o b)[i] = IF i <= k THEN a[i] ELSE b[i - k]
    OBVIOUS
  <2>2. \A i : i \in 1..(k + Len(b)) <=> i \in 1..k \/ i \in (k + 1)..(k + Len(b))
    BY <1>1
  <2>3. /\ \A i \in 1..k : i <= k
        /\ \A i \in (k + 1)..(k + Len(b)) : ~(i <= k)
    BY <1>1
  <2>4. A = {i \in 1..k : a[i] = m}
    BY DEF Positions
  <2> HIDE DEF k, A
  <2> QED
    BY <2>1, <2>2, <2>3, <2>4 DEF Positions
<1>5. Cardinality(A \cup C) = Cardinality(A) + Cardinality(C) - Cardinality({})
  BY <1>1, <1>2, <1>3, FS_Union
<1> QED
  BY <1>1, <1>2, <1>4, <1>5, FS_EmptySet DEF Occurrences

LEMMA OccurrencesInOne ==
  ASSUME NEW m
  PROVE  /\ Occurrences(m, <<>>) = 0
         /\ \A x : Occurrences(m, <<x>>) = IF x = m THEN 1 ELSE 0
<1>1. Positions(m, <<>>) = {}
  BY DEF Positions
<1>2. \A x : Positions(m, <<x>>) = IF x = m THEN {1} ELSE {}
  BY DEF Positions
<1> QED
  BY <1>1, <1>2, FS_EmptySet, FS_Singleton DEF Occurrences

(* The sequences that have m have it once, and are those at P.             *)
OnceAt(m, ss, P) ==
  /\ P \subseteq 1..Len(ss)
  /\ \A i \in 1..Len(ss) : Occurrences(m, ss[i]) = IF i \in P THEN 1 ELSE 0

(* Then together they have it as often as there are those that have it.    *)
LEMMA OccurrencesOfFlatten ==
  ASSUME NEW X, NEW ss \in Seq(Seq(X)), NEW m, NEW P, OnceAt(m, ss, P)
  PROVE  Occurrences(m, FlattenSeq(ss)) = Cardinality(P)
<1> USE DEF OnceAt
<1> DEFINE n == Len(ss)
<1>1. n \in Nat /\ \A i \in 1..n : ss[i] \in Seq(X)
  OBVIOUS
<1>2. PICK g : Appending(g, X, ss, n)
  BY FlattenByRounds
<1> USE DEF Appending
<1> DEFINE Upto(k) == P \cap (1..k)
           Right == {k \in 0..n : Occurrences(m, g[k]) = Cardinality(Upto(k))}
<1>3. 0 \in Right
  <2>1. Upto(0) = {} /\ Positions(m, <<>>) = {} /\ 0 \in 0..n
    BY <1>1 DEF Positions
  <2> QED
    BY <1>2, <2>1 DEF Occurrences
<1>4. ASSUME NEW k \in 1..n, k - 1 \in Right
      PROVE  k \in Right
  <2>1. k \in Nat /\ k \in 0..n /\ k - 1 \in 0..n
    BY <1>1
  <2>2. Occurrences(m, g[k]) = Occurrences(m, g[k - 1]) + Occurrences(m, ss[k])
    <3>1. g[k - 1] \in Seq(X) /\ ss[k] \in Seq(X) /\ g[k] = g[k - 1] \o ss[k]
      BY <1>1, <1>2, <2>1
    <3> QED
      BY <3>1, OccurrencesOfConcat
  <2>3. Occurrences(m, g[k - 1]) = Cardinality(Upto(k - 1))
    BY <1>4
  <2>4. IsFiniteSet(Upto(k - 1)) /\ Cardinality(Upto(k - 1)) \in Nat /\ k \notin Upto(k - 1)
    <3>1. IsFiniteSet(1..(k - 1))
      BY <2>1, FS_Interval
    <3>2. IsFiniteSet(Upto(k - 1))
      BY <3>1, FS_Subset
    <3> QED
      BY <2>1, <3>2, FS_CardinalityType
  <2>5. Upto(k) = IF k \in P THEN Upto(k - 1) \cup {k} ELSE Upto(k - 1)
    <3>1. \A i : i \in 1..k <=> i \in 1..(k - 1) \/ i = k
      BY <2>1
    <3> QED
      BY <3>1
  <2>6. Cardinality(Upto(k)) = Cardinality(Upto(k - 1)) + (IF k \in P THEN 1 ELSE 0)
    <3>1. CASE k \in P
      <4>1. Upto(k) = Upto(k - 1) \cup {k}
        BY <2>5, <3>1
      <4>2. Cardinality(Upto(k - 1) \cup {k}) = Cardinality(Upto(k - 1)) + 1
        <5> HIDE DEF Upto
        <5> QED
          BY <2>4, FS_AddElement
      <4> QED
        BY <3>1, <4>1, <4>2
    <3>2. CASE k \notin P
      <4>1. Upto(k) = Upto(k - 1)
        BY <2>5, <3>2
      <4> HIDE DEF Upto
      <4> QED
        BY <2>4, <3>2, <4>1
    <3> QED
      BY <3>1, <3>2
  <2>7. Occurrences(m, g[k]) = Cardinality(Upto(k))
    BY <2>2, <2>3, <2>6
  <2> QED
    BY <2>1, <2>7
<1>5. n \in Right
  <2> HIDE DEF Right
  <2>1. 0..n \subseteq Right
    BY <1>1, <1>3, <1>4, RoundByRound
  <2> QED
    BY <1>1, <2>1
<1>6. Upto(n) = P
  OBVIOUS
<1> QED
  BY <1>2, <1>5, <1>6

LEMMA SequencesConcatenate ==
  ASSUME NEW X
  PROVE  Concatenates(Seq(X))
<1>1. \A a, b \in Seq(X) : a \o b \in Seq(X)
  OBVIOUS
<1>2. \A a, b, c \in Seq(X) : (a \o b) \o c = a \o (b \o c)
  BY ConcatAssociative
<1> QED
  BY <1>1, <1>2 DEF Concatenates

(* What is put behind as a whole is put behind part by part.               *)
LEMMA FlattenOfConcat ==
  ASSUME NEW X, NEW ss \in Seq(Seq(X)), NEW tt \in Seq(Seq(X))
  PROVE  FlattenSeq(ss \o tt) = FlattenSeq(ss) \o FlattenSeq(tt)
<1> DEFINE Y == Seq(X)
           n == Len(tt)
           upTo(i) == SubSeq(tt, 1, i)
           whole == FlattenSeq(ss)
           Holds(i) == FlattenSeq(ss \o upTo(i)) = whole \o FlattenSeq(upTo(i))
           Rounds == {i \in 0..n : Holds(i)}
<1>0. n \in Nat /\ whole \in Seq(X) /\ upTo(0) = <<>> /\ upTo(n) = tt /\ ss \o <<>> = ss
  <2>1. ss \in Seq(Y) /\ tt \in Seq(Y)
    OBVIOUS
  <2>2. whole \in Seq(X)
    BY FlattenOver
  <2> HIDE DEF Y, whole
  <2> QED
    BY <2>1, <2>2
<1>n. n \in Nat /\ n \in 0..n /\ 0 \in 0..n
  OBVIOUS
<1> HIDE DEF whole, n
<1>1. 0 \in Rounds
  <2>1. FlattenSeq(<<>>) = <<>> /\ FlattenSeq(ss) = whole
    BY FlattenByOne, EmptySeq DEF whole
  <2>2. whole \o <<>> = whole
    BY <1>0
  <2>3. Holds(0)
    <3> HIDE DEF upTo
    <3> QED
      BY <1>0, <2>1, <2>2
  <2> HIDE DEF Holds
  <2> QED
    BY <1>n, <2>3
<1>2. ASSUME NEW i \in 1..n, i - 1 \in Rounds
      PROVE  i \in Rounds
  <2> DEFINE before == upTo(i - 1)
             x == tt[i]
  <2>1. /\ before \in Seq(Y) /\ x \in Y /\ upTo(i) = Append(before, x)
        /\ ss \o upTo(i) = Append(ss \o before, x)
    <3>1. ss \in Seq(Y) /\ tt \in Seq(Y) /\ i \in 1..Len(tt)
      BY DEF n
    <3> HIDE DEF Y
    <3>2. upTo(i) = Append(before, x) /\ ss \o upTo(i) = Append(ss \o before, x)
      BY <3>1, SubSeqByOne, ConcatByOne
    <3>3. before \in Seq(Y) /\ x \in Y
      BY <3>1
    <3> QED
      BY <3>2, <3>3
  <2>2. ss \o before \in Seq(Y)
    <3>1. ss \in Seq(Y)
      OBVIOUS
    <3> HIDE DEF Y, before
    <3> QED
      BY <2>1, <3>1
  <2> HIDE DEF before, x
  <2>3. /\ FlattenSeq(ss \o upTo(i)) = FlattenSeq(ss \o before) \o x
        /\ FlattenSeq(upTo(i)) = FlattenSeq(before) \o x
        /\ FlattenSeq(before) \in Seq(X)
    BY <2>1, <2>2, FlattenByOne, FlattenOver
  <2>4. FlattenSeq(ss \o before) = whole \o FlattenSeq(before)
    BY <1>2 DEF before
  <2>5. (whole \o FlattenSeq(before)) \o x = whole \o (FlattenSeq(before) \o x)
    <3>1. whole \in Seq(X) /\ FlattenSeq(before) \in Seq(X) /\ x \in Seq(X)
      BY <1>0, <2>1, <2>3
    <3>2. Concatenates(Seq(X))
      BY SequencesConcatenate
    <3> QED
      BY <3>1, <3>2 DEF Concatenates
  <2>6. Holds(i)
    <3> HIDE DEF upTo
    <3> QED
      BY <2>3, <2>4, <2>5
  <2>7. i \in 0..n
    BY <1>n
  <2> HIDE DEF Holds
  <2> QED
    BY <2>6, <2>7
<1> HIDE DEF Rounds
<1>3. n \in Rounds
  <2>1. 0..n \subseteq Rounds
    BY <1>n, <1>1, <1>2, RoundByRound
  <2> QED
    BY <1>n, <2>1
<1>4. FlattenSeq(ss \o upTo(n)) = whole \o FlattenSeq(upTo(n))
  BY <1>3 DEF Rounds
<1> HIDE DEF upTo
<1> QED
  BY <1>0, <1>4 DEF whole

(* If one of the parts, behind which all are empty, gets something, this is*)
(* put behind.                                                             *)
LEMMA FlattenFilled ==
  ASSUME NEW X, NEW ss \in Seq(Seq(X)), NEW tt \in Seq(Seq(X)), Len(tt) = Len(ss),
         NEW k \in 1..Len(ss), \A i \in 1..Len(ss) : i # k => tt[i] = ss[i],
         \A i \in k..Len(ss) : ss[i] = <<>>
  PROVE  FlattenSeq(tt) = FlattenSeq(ss) \o tt[k]
<1> DEFINE Y == Seq(X)
           n == Len(ss)
           S(i) == SubSeq(ss, 1, i)
           T(i) == SubSeq(tt, 1, i)
           Holds(i) == FlattenSeq(T(i)) =
                         IF i < k THEN FlattenSeq(S(i)) ELSE FlattenSeq(S(i)) \o tt[k]
           Rounds == {i \in 0..n : Holds(i)}
<1>0. /\ n \in Nat /\ S(0) = <<>> /\ T(0) = <<>> /\ S(n) = ss /\ T(n) = tt
      /\ \A i \in 0..n : S(i) \in Seq(Y) /\ T(i) \in Seq(Y)
      /\ \A i \in 1..n : ss[i] \in Y /\ tt[i] \in Y
  <2>1. ss \in Seq(Y) /\ tt \in Seq(Y) /\ Len(tt) = n
    OBVIOUS
  <2> HIDE DEF Y
  <2> QED
    BY <2>1
<1>n. /\ n \in Nat /\ n \in 0..n /\ 0 \in 0..n /\ k \in 1..n
      /\ \A i \in 1..n : i # k => tt[i] = ss[i]
      /\ \A i \in k..n : ss[i] = <<>>
  OBVIOUS
<1> HIDE DEF n
<1>1. 0 \in Rounds
  <2>1. 0 < k
    BY <1>n
  <2> HIDE DEF S, T
  <2>2. Holds(0)
    BY <1>0, <2>1
  <2> HIDE DEF Holds
  <2> QED
    BY <1>n, <2>2
<1>2. ASSUME NEW i \in 1..n, i - 1 \in Rounds
      PROVE  i \in Rounds
  <2>1. S(i) = Append(S(i - 1), ss[i]) /\ T(i) = Append(T(i - 1), tt[i])
    <3>1. ss \in Seq(Y) /\ tt \in Seq(Y) /\ i \in 1..Len(tt) /\ i \in 1..Len(ss)
      BY DEF n
    <3> HIDE DEF Y
    <3> QED
      BY <3>1, SubSeqByOne
  <2>2. i - 1 \in 0..n /\ i \in 0..n /\ ss[i] \in Y /\ tt[i] \in Y
    <3>1. i - 1 \in 0..n /\ i \in 0..n
      BY <1>n
    <3> QED
      BY <1>0, <3>1
  <2>3. /\ FlattenSeq(S(i)) = FlattenSeq(S(i - 1)) \o ss[i]
        /\ FlattenSeq(T(i)) = FlattenSeq(T(i - 1)) \o tt[i]
        /\ FlattenSeq(S(i - 1)) \in Seq(X)
    <3>1. S(i - 1) \in Seq(Y) /\ T(i - 1) \in Seq(Y)
      BY <1>0, <2>2
    <3> HIDE DEF S, T
    <3> QED
      BY <2>1, <2>2, <3>1, FlattenByOne, FlattenOver
  <2> DEFINE before == FlattenSeq(S(i - 1))
  <2>4. FlattenSeq(T(i - 1)) = IF i - 1 < k THEN before ELSE before \o tt[k]
    BY <1>2
  <2>5. before \o <<>> = before /\ (before \o tt[k]) \o <<>> = before \o tt[k] /\ tt[k] \in Seq(X)
    <3>1. before \in Seq(X) /\ tt[k] \in Seq(X)
      BY <1>0, <1>n, <2>3
    <3> HIDE DEF before
    <3> QED
      BY <3>1
  <2> SUFFICES Holds(i)
    <3> HIDE DEF Holds
    <3> QED
      BY <2>2
  <2> HIDE DEF S, T
  <2>6. CASE i < k
    <3>1. i - 1 < k /\ tt[i] = ss[i]
      BY <1>n, <2>6
    <3> QED
      BY <2>3, <2>4, <2>6, <3>1
  <2>7. CASE i = k
    <3>1. i - 1 < k /\ ~(i < k) /\ ss[i] = <<>>
      BY <1>n, <2>7, SMTT(30)
    <3> QED
      BY <2>3, <2>4, <2>5, <2>7, <3>1
  <2>8. CASE i > k
    <3>1. ~(i - 1 < k) /\ ~(i < k) /\ i \in k..n /\ i # k
      BY <1>n, <2>8
    <3>2. ss[i] = <<>> /\ tt[i] = <<>>
      BY <1>n, <3>1
    <3> QED
      BY <2>3, <2>4, <2>5, <2>8, <3>1, <3>2
  <2>9. i < k \/ i = k \/ i > k
    BY <1>n
  <2> HIDE DEF Holds
  <2> QED
    BY <2>6, <2>7, <2>8, <2>9
<1> HIDE DEF Rounds
<1>3. n \in Rounds
  <2>1. 0..n \subseteq Rounds
    BY <1>n, <1>1, <1>2, RoundByRound
  <2> QED
    BY <1>n, <2>1
<1>4. ~(n < k)
  BY <1>n
<1>5. Holds(n)
  BY <1>3 DEF Rounds
<1> HIDE DEF S, T
<1> QED
  BY <1>0, <1>4, <1>5

(* Of empty parts there is nothing.                                        *)
LEMMA FlattenNothing ==
  ASSUME NEW X, NEW ss \in Seq(Seq(X)), \A i \in 1..Len(ss) : ss[i] = <<>>
  PROVE  FlattenSeq(ss) = <<>>
<1> DEFINE flat == FlattenSeq(ss)
<1>1. flat \in Seq(X)
  BY FlattenOver
<1>2. DOMAIN flat = {}
  <2> SUFFICES ASSUME NEW i \in DOMAIN flat
               PROVE  FALSE
    OBVIOUS
  <2> DEFINE x == flat[i]
  <2>0. \E j \in DOMAIN flat : flat[j] = x
    OBVIOUS
  <2> HIDE DEF x
  <2>1. \E k \in DOMAIN ss : \E j \in DOMAIN ss[k] : ss[k][j] = x
    BY <2>0, ElementsOfFlatten, SMTT(30)
  <2>2. \A k \in DOMAIN ss : DOMAIN ss[k] = {}
    OBVIOUS
  <2> QED
    BY <2>1, <2>2
<1> HIDE DEF flat
<1>3. Len(flat) = 0
  BY <1>1, <1>2
<1> QED
  BY <1>1, <1>3, EmptySeq DEF flat
-----------------------------------------------------------------------------
(* Induction from the end: S holds the places that have a property.        *)
LEMMA FromTheEnd ==
  ASSUME NEW n \in Nat, NEW S,
         \A i \in 1..n : (\A j \in (i + 1)..n : j \in S) => i \in S
  PROVE  1..n \subseteq S
<1> DEFINE T == {k \in Nat : k < n /\ n - k \notin S}
<1> SUFFICES ASSUME NEW i \in 1..n, i \notin S
             PROVE  FALSE
  OBVIOUS
<1>1. n - i \in T
  <2>1. n - i \in Nat /\ n - i < n /\ n - (n - i) = i
    OBVIOUS
  <2> QED
    BY <2>1
<1>2. PICK k \in T : \A l \in T : k <= l
  <2>1. T \subseteq Nat /\ T # {}
    BY <1>1
  <2> HIDE DEF T
  <2> QED
    BY <2>1, LeastElement
<1>3. k \in Nat /\ k < n /\ n - k \in 1..n /\ n - k \notin S
  BY <1>2
<1>4. ASSUME NEW j \in ((n - k) + 1)..n, j \notin S
      PROVE  FALSE
  <2>1. n - j \in Nat /\ n - j < n /\ n - (n - j) = j /\ n - j < k
    BY <1>3
  <2>2. n - j \in T
    BY <1>4, <2>1
  <2>3. k <= n - j
    BY <1>2, <2>2
  <2> QED
    BY <1>3, <2>1, <2>3
<1> QED
  BY <1>3, <1>4

(* A loop that is written from its end: what it makes of the rest of a     *)
(* text from each place on, by rounds of at most m characters              *)
Backward(f, n, m, last, step, jump) ==
  f = [i \in 1..(n + m) |-> IF i > n THEN last ELSE step[<<i, f[i + jump[i]]>>]]

LEMMA BackwardRuns ==
  ASSUME NEW S, NEW n \in Nat, NEW m \in Nat \ {0}, NEW last \in S,
         NEW step \in [(1..n) \X S -> S], NEW jump \in [1..n -> 1..m]
  PROVE  \E f \in [1..(n + m) -> S] : Backward(f, n, m, last, step, jump)
<1> DEFINE Upto(f, k) ==
             \A i \in 1..(n + m) :
               /\ i > n => f[i] = last
               /\ i > n - k /\ i <= n => f[i] = step[<<i, f[i + jump[i]]>>]
           Rounds == {k \in 0..n : \E f \in [1..(n + m) -> S] : Upto(f, k)}
<1>1. 0 \in Rounds
  <2> DEFINE f == [i \in 1..(n + m) |-> last]
  <2>1. f \in [1..(n + m) -> S]
    OBVIOUS
  <2>2. Upto(f, 0)
    OBVIOUS
  <2> QED
    BY <2>1, <2>2
<1>2. ASSUME NEW k \in 1..n, k - 1 \in Rounds
      PROVE  k \in Rounds
  <2>1. PICK f \in [1..(n + m) -> S] : Upto(f, k - 1)
    BY <1>2
  <2> DEFINE p == (n - k) + 1
             new == step[<<p, f[p + jump[p]]>>]
             h == [i \in 1..(n + m) |-> IF i = p THEN new ELSE f[i]]
  <2>2. p \in 1..n /\ p \in 1..(n + m) /\ p = n - (k - 1) /\ k \in 0..n /\ p > n - k
    OBVIOUS
  <2> HIDE DEF p
  <2>3. jump[p] \in 1..m /\ p + jump[p] \in 1..(n + m)
    BY <2>2
  <2>4. new \in S
    BY <2>2, <2>3
  <2> HIDE DEF new
  <2>5. h \in [1..(n + m) -> S]
    BY <2>4
  <2>6. ASSUME NEW i \in 1..(n + m)
        PROVE  /\ i > n => h[i] = last
               /\ i > n - k /\ i <= n => h[i] = step[<<i, h[i + jump[i]]>>]
    <3>1. i > n => i # p
      BY <2>2
    <3>2. CASE i > n
      <4>1. f[i] = last
        BY <2>1, <3>2
      <4>2. h[i] = f[i] /\ ~(i <= n)
        BY <3>1, <3>2
      <4> HIDE DEF h
      <4> QED
        BY <4>1, <4>2
    <3>3. CASE i > n - k /\ i <= n
      <4>1. i \in 1..n /\ jump[i] \in 1..m /\ i >= p
        BY <2>2, <3>3
      <4>2. i + jump[i] \in 1..(n + m) /\ i + jump[i] # p
        BY <2>2, <4>1
      <4>3. h[i + jump[i]] = f[i + jump[i]]
        BY <4>2
      <4>4. ASSUME i = p
            PROVE  h[i] = step[<<i, h[i + jump[i]]>>]
        <5>1. h[i] = new
          BY <4>4
        <5> HIDE DEF h
        <5> QED
          BY <4>3, <4>4, <5>1 DEF new
      <4>5. ASSUME i # p
            PROVE  h[i] = step[<<i, h[i + jump[i]]>>]
        <5>1. i > n - (k - 1) /\ i <= n
          BY <2>2, <3>3, <4>1, <4>5
        <5>2. f[i] = step[<<i, f[i + jump[i]]>>]
          BY <2>1, <5>1
        <5>3. h[i] = f[i]
          BY <4>5
        <5> HIDE DEF h
        <5> QED
          BY <3>3, <4>3, <5>2, <5>3
      <4>6. h[i] = step[<<i, h[i + jump[i]]>>] /\ ~(i > n)
        BY <3>3, <4>4, <4>5
      <4> HIDE DEF h
      <4> QED
        BY <4>6
    <3>4. i > n \/ (i > n - k /\ i <= n) \/ (~(i > n) /\ ~(i > n - k))
      OBVIOUS
    <3> HIDE DEF h
    <3> QED
      BY <3>2, <3>3, <3>4
  <2>7. Upto(h, k)
    BY <2>6
  <2> HIDE DEF h, Upto
  <2> QED
    BY <2>2, <2>5, <2>7
<1>3. n \in Rounds
  <2> HIDE DEF Rounds
  <2>1. 0..n \subseteq Rounds
    BY <1>1, <1>2, RoundByRound
  <2> QED
    BY <2>1
<1>4. PICK f \in [1..(n + m) -> S] : Upto(f, n)
  BY <1>3
<1>5. \A i \in 1..(n + m) : f[i] = IF i > n THEN last ELSE step[<<i, f[i + jump[i]]>>]
  BY <1>4
<1>6. Backward(f, n, m, last, step, jump)
  BY <1>5 DEF Backward
<1> QED
  BY <1>6

(* Two parts of a text, where the provers need not look at its elements    *)
TwoParts(s, t) == s \o t

LEMMA ThreeParts ==
  ASSUME NEW X, NEW a \in Seq(X), NEW b \in Seq(X), NEW c \in Seq(X)
  PROVE  TwoParts(a, TwoParts(b, c)) = TwoParts(TwoParts(a, b), c)
BY ONLY ConcatAssociative, a \in Seq(X), b \in Seq(X), c \in Seq(X), SMTT(30) DEF TwoParts

(* A text and its part of length n are read from one of some places of the *)
(* part to the next, and through the place behind it.                      *)
ReadAlike(X, n, P, chunk, jump, f, g) ==
  /\ n \in Nat /\ P \subseteq 1..(n + 1)
  /\ chunk \in [P \ {n + 1} -> Seq(X)] /\ jump \in [P \ {n + 1} -> Nat \ {0}]
  /\ g[n + 1] = <<>> /\ f[n + 1] \in Seq(X)
  /\ \A i \in P \ {n + 1} : /\ i + jump[i] \in P
                            /\ f[i] = chunk[i] \o f[i + jump[i]]
                            /\ g[i] = chunk[i] \o g[i + jump[i]]

(* Then what is read of the text is what is read of the part and what is   *)
(* read behind it.                                                         *)
LEMMA ReadsThePart ==
  ASSUME NEW X, NEW n, NEW P, NEW chunk, NEW jump, NEW f, NEW g,
         ReadAlike(X, n, P, chunk, jump, f, g)
  PROVE  \A i \in P : g[i] \in Seq(X) /\ f[i] = TwoParts(g[i], f[n + 1])
<1> USE DEF ReadAlike, TwoParts
<1> DEFINE S == {i \in 1..(n + 1) : i \in P => g[i] \in Seq(X) /\ f[i] = g[i] \o f[n + 1]}
<1>1. ASSUME NEW i \in 1..(n + 1), \A j \in (i + 1)..(n + 1) : j \in S
      PROVE  i \in S
  <2>1. CASE i = n + 1
    <3>1. <<>> \in Seq(X) /\ <<>> \o f[n + 1] = f[n + 1]
      OBVIOUS
    <3> QED
      BY <2>1, <3>1
  <2>2. CASE i # n + 1 /\ i \in P
    <3> DEFINE k == i + jump[i]
    <3>1. k \in P /\ k \in (i + 1)..(n + 1)
      <4>1. jump[i] \in Nat \ {0} /\ k \in P
        BY <2>2
      <4> QED
        BY <4>1
    <3>2. g[k] \in Seq(X) /\ f[k] = g[k] \o f[n + 1]
      BY <1>1, <3>1
    <3>3. chunk[i] \in Seq(X) /\ f[i] = chunk[i] \o f[k] /\ g[i] = chunk[i] \o g[k]
      BY <2>2
    <3> HIDE DEF k
    <3>4. chunk[i] \o (g[k] \o f[n + 1]) = (chunk[i] \o g[k]) \o f[n + 1]
      <4> DEFINE a == chunk[i]
                 b == g[k]
                 c == f[n + 1]
      <4>1. a \in Seq(X) /\ b \in Seq(X) /\ c \in Seq(X)
        BY <3>2, <3>3
      <4> HIDE DEF a, b, c
      <4>2. TwoParts(a, TwoParts(b, c)) = TwoParts(TwoParts(a, b), c)
        BY ONLY <4>1, ThreeParts
      <4> QED
        BY <4>2 DEF a, b, c, TwoParts
    <3>5. chunk[i] \o g[k] \in Seq(X)
      BY <3>2, <3>3
    <3> QED
      BY <3>2, <3>3, <3>4, <3>5
  <2>3. CASE i \notin P
    BY <2>3
  <2> QED
    BY <2>1, <2>2, <2>3
<1>2. 1..(n + 1) \subseteq S
  <2> HIDE DEF S
  <2>1. n + 1 \in Nat
    OBVIOUS
  <2> QED
    BY <1>1, <2>1, FromTheEnd
<1> QED
  BY <1>2

(* What is cut out of one of two parts                                     *)
LEMMA SubSeqOfConcat ==
  ASSUME NEW X, NEW u \in Seq(X), NEW z \in Seq(X), NEW i \in Nat \ {0}, NEW k \in Nat
  PROVE  /\ i + k <= Len(u) => SubSeq(u \o z, i, i + k) = SubSeq(u, i, i + k)
         /\ i + k <= Len(z) =>
              SubSeq(u \o z, Len(u) + i, Len(u) + (i + k)) = SubSeq(z, i, i + k)
<1> DEFINE t == u \o z
<1>1. /\ t \in Seq(X) /\ Len(t) = Len(u) + Len(z) /\ Len(u) \in Nat /\ Len(z) \in Nat
      /\ \A j \in 1..Len(u) : t[j] = u[j]
      /\ \A j \in 1..Len(z) : t[Len(u) + j] = z[j]
  OBVIOUS
<1> HIDE DEF t
<1>2. ASSUME i + k <= Len(u)
      PROVE  SubSeq(t, i, i + k) = SubSeq(u, i, i + k)
  <2> DEFINE a == SubSeq(t, i, i + k)
             b == SubSeq(u, i, i + k)
  <2>1. a \in Seq(X) /\ b \in Seq(X) /\ Len(a) = k + 1 /\ Len(b) = k + 1
    BY <1>1, <1>2, SubSeqProperties
  <2>2. \A j \in 1..(k + 1) : a[j] = b[j]
    <3> TAKE j \in 1..(k + 1)
    <3>1. (i + j) - 1 \in 1..Len(u) /\ i + k <= Len(t)
      BY <1>1, <1>2
    <3>2. a[j] = t[(i + j) - 1] /\ b[j] = u[(i + j) - 1]
      BY <1>1, <1>2, <3>1
    <3> QED
      BY <1>1, <3>1, <3>2
  <2> HIDE DEF a, b
  <2> QED
    BY <2>1, <2>2, SeqEqual DEF a, b
<1>3. ASSUME i + k <= Len(z)
      PROVE  SubSeq(t, Len(u) + i, Len(u) + (i + k)) = SubSeq(z, i, i + k)
  <2> DEFINE n == Len(u)
             a == SubSeq(t, n + i, n + (i + k))
             b == SubSeq(z, i, i + k)
  <2>0. n \in Nat /\ n + (i + k) <= Len(t) /\ n + i \in Nat \ {0} /\ n + (i + k) \in Nat
    BY <1>1, <1>3
  <2>1. a \in Seq(X) /\ b \in Seq(X) /\ Len(a) = k + 1 /\ Len(b) = k + 1
    <3> HIDE DEF n
    <3> QED
      BY <1>1, <1>3, <2>0
  <2>2. \A j \in 1..(k + 1) : a[j] = b[j]
    <3> TAKE j \in 1..(k + 1)
    <3>1. (i + j) - 1 \in 1..Len(z) /\ ((n + i) + j) - 1 = n + ((i + j) - 1)
      BY <1>1, <1>3
    <3>2. a[j] = t[((n + i) + j) - 1]
      <4> HIDE DEF n
      <4> QED
        BY <1>1, <2>0
    <3>3. b[j] = z[(i + j) - 1]
      BY <1>1, <1>3
    <3> QED
      BY <1>1, <3>1, <3>2, <3>3
  <2> HIDE DEF a, b
  <2>3. a = b
    BY <2>1, <2>2, SeqEqual
  <2> QED
    BY <2>3 DEF a, b
<1> QED
  BY <1>2, <1>3 DEF t
-----------------------------------------------------------------------------
(* A loop that puts what there is for each element of s behind what it has *)
Chained(f, part, s) ==
  f = [i \in 0..Len(s) |-> IF i = 0 THEN <<>> ELSE f[i - 1] \o part[s[i]]]

LEMMA ChainsRun ==
  ASSUME NEW X, NEW D, NEW part \in [D -> Seq(X)], NEW s \in Seq(D)
  PROVE  \E f : Chained(f, part, s)
<1> DEFINE S == Seq(X)
           step == [x \in S \X D |-> x[1] \o part[x[2]]]
           n == Len(s)
<1>1. n \in Nat /\ <<>> \in S /\ step \in [S \X D -> S] /\ \A i \in 1..n : s[i] \in D
  <2>1. \A x \in S \X D : x[1] \o part[x[2]] \in S
    OBVIOUS
  <2>2. step \in [S \X D -> S]
    BY <2>1
  <2> QED
    BY <2>2
<1>2. PICK f \in [0..n -> S] : Looping(f, <<>>, step, s)
  <2> HIDE DEF step, S
  <2> QED
    BY <1>1, LoopsRun
<1>3. ASSUME NEW i \in 0..n
      PROVE  f[i] = IF i = 0 THEN <<>> ELSE f[i - 1] \o part[s[i]]
  <2>1. f[i] = IF i = 0 THEN <<>> ELSE step[<<f[i - 1], s[i]>>]
    <3> HIDE DEF step, S
    <3> QED
      BY <1>2, <1>3 DEF Looping
  <2>2. CASE i # 0
    <3>1. i \in 1..n /\ i - 1 \in 0..n
      BY <1>1, <2>2
    <3>2. f[i - 1] \in S /\ s[i] \in D
      BY <1>1, <1>2, <3>1
    <3>3. step[<<f[i - 1], s[i]>>] = f[i - 1] \o part[s[i]]
      BY <3>2
    <3> HIDE DEF step, S
    <3> QED
      BY <2>1, <2>2, <3>3
  <2> HIDE DEF step, S
  <2> QED
    BY <2>1, <2>2
<1>4. Chained(f, part, s)
  BY <1>2, <1>3 DEF Chained
<1> QED
  BY <1>4

(* It makes a sequence, and one element more is one part more.             *)
ChainsWith(X, D, part, s, x, f, h) ==
  /\ part \in [D -> Seq(X)] /\ s \in Seq(D) /\ x \in D
  /\ Chained(f, part, s) /\ Chained(h, part, Append(s, x))

LEMMA ChainsGoOn ==
  ASSUME NEW X, NEW D, NEW part, NEW s, NEW x, NEW f, NEW h, ChainsWith(X, D, part, s, x, f, h)
  PROVE  f[Len(s)] \in Seq(X) /\ h[Len(s) + 1] = TwoParts(f[Len(s)], part[x])
<1>0. /\ part \in [D -> Seq(X)] /\ s \in Seq(D) /\ x \in D
      /\ Chained(f, part, s) /\ Chained(h, part, Append(s, x))
  BY DEF ChainsWith
<1> USE DEF TwoParts
<1> DEFINE n == Len(s)
           t == Append(s, x)
           S == {i \in 0..n : f[i] \in Seq(X) /\ h[i] = f[i]}
<1>1. /\ n \in Nat /\ Len(t) = n + 1 /\ t[n + 1] = x
      /\ \A i \in 1..n : t[i] = s[i] /\ s[i] \in D
  BY <1>0
<1>2. f[0] = <<>> /\ \A i \in 1..n : f[i] = f[i - 1] \o part[s[i]]
  <2> HIDE DEF t, n
  <2>1. f = [i \in 0..n |-> IF i = 0 THEN <<>> ELSE f[i - 1] \o part[s[i]]]
    BY <1>0 DEF Chained, n
  <2>2. 0 \in 0..n /\ \A i \in 1..n : i \in 0..n /\ i # 0
    BY <1>1
  <2> QED
    BY <2>1, <2>2
<1>3. h[0] = <<>> /\ \A i \in 1..(n + 1) : h[i] = h[i - 1] \o part[t[i]]
  <2> HIDE DEF t, n
  <2>1. h = [i \in 0..(n + 1) |-> IF i = 0 THEN <<>> ELSE h[i - 1] \o part[t[i]]]
    BY <1>0, <1>1 DEF Chained, t
  <2>2. 0 \in 0..(n + 1) /\ \A i \in 1..(n + 1) : i \in 0..(n + 1) /\ i # 0
    BY <1>1
  <2> QED
    BY <2>1, <2>2
<1> HIDE DEF t, n
<1>4. 0 \in S
  <2>1. 0 \in 0..n /\ <<>> \in Seq(X)
    BY <1>1
  <2>2. f[0] \in Seq(X) /\ h[0] = f[0]
    BY <1>2, <1>3, <2>1
  <2> QED
    BY <2>1, <2>2
<1>5. ASSUME NEW i \in 1..n, i - 1 \in S
      PROVE  i \in S
  <2>1. i \in 0..n /\ i \in 1..(n + 1) /\ part[s[i]] \in Seq(X) /\ t[i] = s[i]
    BY <1>0, <1>1
  <2>2. f[i - 1] \in Seq(X) /\ h[i - 1] = f[i - 1]
    BY <1>5
  <2>3. f[i] = f[i - 1] \o part[s[i]] /\ h[i] = h[i - 1] \o part[t[i]]
    BY <1>2, <1>3, <2>1
  <2>4. f[i - 1] \o part[s[i]] \in Seq(X)
    BY <2>1, <2>2
  <2>5. f[i] \in Seq(X) /\ h[i] = f[i]
    BY <2>1, <2>2, <2>3, <2>4
  <2> QED
    BY <2>1, <2>5
<1>6. n \in S
  <2> HIDE DEF S
  <2>1. 0..n \subseteq S
    BY <1>1, <1>4, <1>5, RoundByRound
  <2> QED
    BY <1>1, <2>1
<1>7. n + 1 \in 1..(n + 1) /\ (n + 1) - 1 = n
  BY <1>1
<1> QED
  BY <1>1, <1>3, <1>6, <1>7 DEF n
=============================================================================
