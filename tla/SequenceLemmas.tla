--------------------------- MODULE SequenceLemmas ---------------------------
(***************************************************************************)
(* Facts about the lists of the program: erasure at an iterator, insertion *)
(* at the end, removal of the first element, and what they do to the set   *)
(* of elements of a list without duplicates.                               *)
(***************************************************************************)
EXTENDS Naturals, SequencesExt, RecursiveSequences, SequenceTheorems,
        WellFoundedInduction, TLAPS

\* What list::erase(iterator) leaves of the list of coroutines.
LEMMA RemoveAtProperties ==
  ASSUME NEW S, NEW s \in Seq(S), NEW k \in 1..Len(s)
  PROVE  /\ RemoveAt(s, k) \in Seq(S)
         /\ Len(RemoveAt(s, k)) = Len(s) - 1
         /\ \A j \in 1..(Len(s) - 1) :
              RemoveAt(s, k)[j] = IF j < k THEN s[j] ELSE s[j + 1]
<1> DEFINE a == SubSeq(s, 1, k - 1)
           b == SubSeq(s, k + 1, Len(s))
<1>0. Len(s) \in Nat
  BY LenProperties
<1>1. \A j \in 1..Len(s) : s[j] \in S
  BY ElementOfSeq
<1>2. /\ a \in Seq(S)
      /\ Len(a) = k - 1
      /\ \A j \in 1..(k - 1) : a[j] = s[j]
  <2>1. \A j \in 1..(k - 1) : s[j] \in S
    BY <1>0, <1>1
  <2>2. /\ a \in Seq(S)
        /\ Len(a) = IF 1 <= k - 1 THEN k - 1 - 1 + 1 ELSE 0
        /\ \A j \in 1..(k - 1 - 1 + 1) : a[j] = s[1 + j - 1]
    BY <1>0, <2>1, SubSeqProperties
  <2> QED
    BY <1>0, <2>2
<1>3. /\ b \in Seq(S)
      /\ Len(b) = Len(s) - k
      /\ \A j \in 1..(Len(s) - k) : b[j] = s[k + j]
  <2>1. \A j \in (k + 1)..Len(s) : s[j] \in S
    BY <1>0, <1>1
  <2>2. /\ b \in Seq(S)
        /\ Len(b) = IF k + 1 <= Len(s) THEN Len(s) - (k + 1) + 1 ELSE 0
        /\ \A j \in 1..(Len(s) - (k + 1) + 1) : b[j] = s[k + 1 + j - 1]
    BY <1>0, <2>1, SubSeqProperties
  <2> QED
    BY <1>0, <2>2
<1>4. RemoveAt(s, k) = a \o b
  BY DEF RemoveAt
<1>5. /\ a \o b \in Seq(S)
      /\ Len(a \o b) = Len(a) + Len(b)
      /\ \A j \in 1..(Len(a) + Len(b)) :
           (a \o b)[j] = IF j <= Len(a) THEN a[j] ELSE b[j - Len(a)]
  BY <1>2, <1>3, ConcatProperties
<1> HIDE DEF a, b
<1>6. ASSUME NEW j \in 1..(Len(s) - 1)
      PROVE  RemoveAt(s, k)[j] = IF j < k THEN s[j] ELSE s[j + 1]
  <2>1. CASE j < k
    BY <1>0, <1>2, <1>3, <1>4, <1>5, <2>1
  <2>2. CASE ~(j < k)
    BY <1>0, <1>2, <1>3, <1>4, <1>5, <2>2
  <2> QED
    BY <2>1, <2>2
<1> QED
  BY <1>0, <1>2, <1>3, <1>4, <1>5, <1>6

\* Every element of a list has a place in it.
LEMMA ToSetProperties ==
  ASSUME NEW S, NEW s \in Seq(S)
  PROVE  /\ ToSet(s) \subseteq S
         /\ \A i \in 1..Len(s) : s[i] \in ToSet(s)
         /\ \A x \in ToSet(s) : \E i \in 1..Len(s) : s[i] = x
<1>1. DOMAIN s = 1..Len(s)
  BY LenProperties
<1>2. \A i \in 1..Len(s) : s[i] \in S
  BY ElementOfSeq
<1> QED
  BY <1>1, <1>2 DEF ToSet

\* Without duplicates, erasure at an iterator removes just that element.
LEMMA RemoveAtSet ==
  ASSUME NEW S, NEW s \in Seq(S), IsInjective(s), NEW k \in 1..Len(s)
  PROVE  /\ ToSet(RemoveAt(s, k)) = ToSet(s) \ {s[k]}
         /\ IsInjective(RemoveAt(s, k))
<1> DEFINE t == RemoveAt(s, k)
<1>1. /\ t \in Seq(S)
      /\ Len(t) = Len(s) - 1
      /\ \A j \in 1..(Len(s) - 1) : t[j] = IF j < k THEN s[j] ELSE s[j + 1]
  BY RemoveAtProperties
<1>2. Len(s) \in Nat /\ DOMAIN s = 1..Len(s) /\ DOMAIN t = 1..Len(t)
  BY <1>1, LenProperties
<1>3. \A i, j \in 1..Len(s) : s[i] = s[j] => i = j
  BY <1>2 DEF IsInjective
<1> HIDE DEF t
<1>4. ASSUME NEW x \in ToSet(t)
      PROVE  x \in ToSet(s) \ {s[k]}
  <2>1. PICK j \in 1..Len(t) : x = t[j]
    BY <1>2 DEF ToSet
  <2>2. PICK i \in 1..Len(s) : x = s[i] /\ i # k
    <3>1. CASE j < k
      BY <1>1, <1>2, <2>1, <3>1
    <3>2. CASE ~(j < k)
      BY <1>1, <1>2, <2>1, <3>2
    <3> QED
      BY <3>1, <3>2
  <2> QED
    BY <1>2, <1>3, <2>2 DEF ToSet
<1>5. ASSUME NEW x \in ToSet(s), x # s[k]
      PROVE  x \in ToSet(t)
  <2>1. PICK i \in 1..Len(s) : x = s[i]
    BY <1>2 DEF ToSet
  <2>2. CASE i < k
    <3>1. i \in 1..Len(t) /\ t[i] = x
      BY <1>1, <1>2, <2>1, <2>2
    <3> QED
      BY <1>2, <3>1 DEF ToSet
  <2>3. CASE ~(i < k)
    <3>1. i - 1 \in 1..Len(t) /\ t[i - 1] = x
      BY <1>1, <1>2, <1>5, <2>1, <2>3
    <3> QED
      BY <1>2, <3>1 DEF ToSet
  <2> QED
    BY <2>2, <2>3
<1>6. \A i, j \in 1..Len(t) : t[i] = t[j] => i = j
  BY <1>1, <1>2, <1>3
<1>7. IsInjective(t)
  BY <1>2, <1>6 DEF IsInjective
<1> QED
  BY <1>4, <1>5, <1>7 DEF t

\* Insertion at the end adds just that element.
LEMMA AppendSet ==
  ASSUME NEW S, NEW s \in Seq(S), NEW e \in S
  PROVE  /\ ToSet(Append(s, e)) = ToSet(s) \cup {e}
         /\ IsInjective(s) /\ e \notin ToSet(s) => IsInjective(Append(s, e))
<1> DEFINE t == Append(s, e)
<1>1. /\ t \in Seq(S)
      /\ Len(t) = Len(s) + 1
      /\ \A i \in 1..Len(s) : t[i] = s[i]
      /\ t[Len(s) + 1] = e
  BY AppendProperties
<1>2. Len(s) \in Nat /\ DOMAIN s = 1..Len(s) /\ DOMAIN t = 1..(Len(s) + 1)
  BY <1>1, LenProperties
<1> HIDE DEF t
<1>3. ASSUME NEW x \in ToSet(t)
      PROVE  x \in ToSet(s) \cup {e}
  <2>1. PICK j \in 1..(Len(s) + 1) : x = t[j]
    BY <1>2 DEF ToSet
  <2> QED
    BY <1>1, <1>2, <2>1 DEF ToSet
<1>4. ASSUME NEW x \in ToSet(s)
      PROVE  x \in ToSet(t)
  <2>1. PICK j \in 1..Len(s) : x = s[j]
    BY <1>2 DEF ToSet
  <2>2. j \in 1..(Len(s) + 1)
    BY <1>2
  <2> QED
    BY <1>1, <1>2, <2>1, <2>2 DEF ToSet
<1>5. e \in ToSet(t)
  <2>1. Len(s) + 1 \in 1..(Len(s) + 1)
    BY <1>2
  <2> QED
    BY <1>1, <1>2, <2>1 DEF ToSet
<1>6. ASSUME IsInjective(s), e \notin ToSet(s)
      PROVE  IsInjective(t)
  <2>1. \A i, j \in 1..Len(s) : s[i] = s[j] => i = j
    BY <1>2, <1>6 DEF IsInjective
  <2>2. \A i \in 1..Len(s) : s[i] # e
    BY <1>2, <1>6 DEF ToSet
  <2>3. \A i, j \in 1..(Len(s) + 1) : t[i] = t[j] => i = j
    BY <1>1, <1>2, <2>1, <2>2
  <2> QED
    BY <1>2, <2>3 DEF IsInjective
<1> QED
  BY <1>3, <1>4, <1>5, <1>6 DEF t

\* Removal of the first element, as a removal at the first place.
LEMMA TailSet ==
  ASSUME NEW S, NEW s \in Seq(S), IsInjective(s), s # <<>>
  PROVE  /\ Tail(s) \in Seq(S)
         /\ Head(s) \in ToSet(s)
         /\ ToSet(Tail(s)) = ToSet(s) \ {Head(s)}
         /\ IsInjective(Tail(s))
<1>1. Len(s) \in Nat \ {0} /\ 1 \in 1..Len(s)
  BY EmptySeq, LenProperties
<1>2. /\ RemoveAt(s, 1) \in Seq(S)
      /\ Len(RemoveAt(s, 1)) = Len(s) - 1
      /\ \A j \in 1..(Len(s) - 1) : RemoveAt(s, 1)[j] = s[j + 1]
  <2>1. /\ RemoveAt(s, 1) \in Seq(S)
        /\ Len(RemoveAt(s, 1)) = Len(s) - 1
        /\ \A j \in 1..(Len(s) - 1) :
             RemoveAt(s, 1)[j] = IF j < 1 THEN s[j] ELSE s[j + 1]
    BY <1>1, RemoveAtProperties
  <2> QED
    BY <1>1, <2>1
<1>3. /\ Tail(s) \in Seq(S)
      /\ Len(Tail(s)) = Len(s) - 1
      /\ \A j \in 1..(Len(s) - 1) : Tail(s)[j] = s[j + 1]
      /\ Head(s) = s[1]
  BY <1>1, HeadTailProperties
<1>4. Tail(s) = RemoveAt(s, 1)
  <2>1. \A j \in 1..Len(Tail(s)) : Tail(s)[j] = RemoveAt(s, 1)[j]
    BY <1>2, <1>3
  <2> QED
    BY <1>2, <1>3, <2>1, SeqEqual
<1>5. s[1] \in ToSet(s)
  BY <1>1, ToSetProperties
<1>6. /\ ToSet(RemoveAt(s, 1)) = ToSet(s) \ {s[1]}
      /\ IsInjective(RemoveAt(s, 1))
  BY <1>1, RemoveAtSet
<1> QED
  BY <1>3, <1>4, <1>5, <1>6

-----------------------------------------------------------------------------
\* What a read of n tokens takes from those that have arrived, and leaves.
LEMMA CutProperties ==
  ASSUME NEW S, NEW s \in Seq(S), NEW n \in Nat, n <= Len(s)
  PROVE  /\ SubSeq(s, 1, n) \in Seq(S)
         /\ Len(SubSeq(s, 1, n)) = n
         /\ SubSeq(s, n + 1, Len(s)) \in Seq(S)
<1>1. /\ Len(s) \in Nat
      /\ \A i \in 1..Len(s) : s[i] \in S
  BY LenProperties
<1>2. /\ SubSeq(s, 1, n) \in Seq(S)
      /\ Len(SubSeq(s, 1, n)) = IF 1 <= n THEN n - 1 + 1 ELSE 0
  <2>1. \A i \in 1..n : s[i] \in S
    BY <1>1
  <2> QED
    BY <2>1, SubSeqProperties
<1>3. SubSeq(s, n + 1, Len(s)) \in Seq(S)
  <2>1. \A i \in (n + 1)..Len(s) : s[i] \in S
    BY <1>1
  <2> QED
    BY <1>1, <2>1, SubSeqProperties
<1> QED
  BY <1>1, <1>2, <1>3

-----------------------------------------------------------------------------
(* Induction, in the form of the least element that a set of numbers has:  *)
(* no prover needs to guess an operator, only the set.                     *)

\* A set with 0 and the successor of each of its numbers has all numbers.
LEMMA InductionOnNat ==
  ASSUME NEW T, 0 \in T, \A n \in Nat : n \in T => n + 1 \in T
  PROVE  \A n \in Nat : n \in T
<1> SUFFICES ASSUME NEW k \in Nat, k \notin T PROVE FALSE
  OBVIOUS
<1> DEFINE U == Nat \ T
           R == {p \in Nat \X Nat : p[1] < p[2]}
<1>1. IsWellFoundedOn(R, Nat)
  BY NatLessThanWellFounded DEF OpToRel
<1>2. PICK x \in U : \A y \in U : <<y, x>> \notin R
  <2>1. U \subseteq Nat /\ U # {}
    OBVIOUS
  <2> HIDE DEF U, R
  <2> QED
    BY <1>1, <2>1, WFMin
<1>3. x # 0 /\ x - 1 \in Nat /\ x - 1 \notin T
  OBVIOUS
<1>4. <<x - 1, x>> \in R
  BY <1>3
<1> QED
  BY <1>2, <1>3, <1>4

\* Induction on the numbers up to a bound.
LEMMA InductionUpTo ==
  ASSUME NEW N \in Nat, NEW T, 0 \in T, \A n \in 1..N : n - 1 \in T => n \in T
  PROVE  \A n \in 0..N : n \in T
<1> DEFINE U == {n \in Nat : n <= N => n \in T}
<1>1. 0 \in U
  OBVIOUS
<1>2. \A n \in Nat : n \in U => n + 1 \in U
  <2> TAKE n \in Nat
  <2>1. CASE n + 1 <= N
    <3>1. n + 1 \in 1..N /\ (n + 1) - 1 = n /\ n <= N
      BY <2>1
    <3> QED
      BY <2>1, <3>1
  <2> QED
    BY <2>1
<1> HIDE DEF U
<1>3. \A n \in Nat : n \in U
  BY <1>1, <1>2, InductionOnNat
<1> QED
  BY <1>3 DEF U

\* Definitions by recursion up to N: the value at n is made of that before it.
Steps(S, N) == [S \X (1..N) -> S]

Follows(f, N, base, step) ==
  f[0] = base /\ \A n \in 1..N : f[n] = step[<<f[n - 1], n>>]

CanFollow(N, S, base, step) == \E f \in [0..N -> S] : Follows(f, N, base, step)

\* A function that is defined by recursion up to a bound exists: what the CHOOSE that
\* stands for such a definition chooses has the property it is chosen for.
LEMMA RecursionUpTo ==
  ASSUME NEW N \in Nat, NEW S, NEW base \in S, NEW step \in Steps(S, N)
  PROVE  CanFollow(N, S, base, step)
<1> USE DEF Steps
<1> DEFINE T == {m \in 0..N : \E f \in [0..m -> S] :
                    f = [n \in 0..m |-> IF n = 0 THEN base ELSE step[<<f[n - 1], n>>]]}
<1>1. 0 \in T
  <2> DEFINE f == [n \in 0..0 |-> base]
  <2>1. f = [n \in 0..0 |-> IF n = 0 THEN base ELSE step[<<f[n - 1], n>>]]
    OBVIOUS
  <2>2. f \in [0..0 -> S] /\ 0 \in 0..N
    OBVIOUS
  <2> HIDE DEF f
  <2> QED
    BY <2>1, <2>2
<1>2. \A m \in 1..N : m - 1 \in T => m \in T
  <2> SUFFICES ASSUME NEW m \in 1..N, m - 1 \in T PROVE m \in T
    OBVIOUS
  <2>1. PICK f \in [0..(m - 1) -> S] :
          f = [n \in 0..(m - 1) |-> IF n = 0 THEN base ELSE step[<<f[n - 1], n>>]]
    OBVIOUS
  <2> HIDE DEF T
  <2>2. m \in Nat /\ m # 0 /\ m - 1 \in 0..(m - 1)
    OBVIOUS
  <2> DEFINE g == [n \in 0..m |-> IF n < m THEN f[n] ELSE step[<<f[m - 1], m>>]]
  <2>3. \A n \in 0..m : n < m => n \in 0..(m - 1) /\ g[n] = f[n]
    BY <2>2
  <2>4. g[m] = step[<<f[m - 1], m>>]
    <3>1. m \in 0..m /\ ~(m < m)
      BY <2>2
    <3> QED
      BY <3>1
  <2>5. g = [n \in 0..m |-> g[n]]
    OBVIOUS
  <2> HIDE DEF g
  <2>6. f[m - 1] \in S /\ step[<<f[m - 1], m>>] \in S
    BY <2>1, <2>2
  <2>7. \A n \in 0..m : n = m \/ n < m
    BY <2>2
  <2>8. \A n \in 0..m : g[n] \in S
    BY <2>1, <2>3, <2>4, <2>6, <2>7
  <2>9. ASSUME NEW n \in 0..m
        PROVE  g[n] = IF n = 0 THEN base ELSE step[<<g[n - 1], n>>]
    <3>1. CASE n < m
      <4>1. n = 0 \/ (n - 1 \in 0..m /\ n - 1 < m)
        BY <2>2, <3>1
      <4>2. f[n] = IF n = 0 THEN base ELSE step[<<f[n - 1], n>>]
        BY <2>1, <2>3, <3>1
      <4> QED
        BY <2>3, <3>1, <4>1, <4>2
    <3>2. CASE n = m
      <4>1. m - 1 \in 0..m /\ m - 1 < m
        BY <2>2
      <4>2. g[m - 1] = f[m - 1]
        BY <2>3, <4>1
      <4> QED
        BY <2>2, <2>4, <3>2, <4>2
    <3> QED
      BY <2>7, <3>1, <3>2
  <2>10. /\ g \in [0..m -> S]
         /\ g = [n \in 0..m |-> IF n = 0 THEN base ELSE step[<<g[n - 1], n>>]]
    BY <2>5, <2>8, <2>9
  <2>11. m \in 0..N
    OBVIOUS
  <2> QED
    BY <2>10, <2>11 DEF T
<1> HIDE DEF T
<1>3. N \in T
  BY <1>1, <1>2, InductionUpTo
<1>4. PICK f \in [0..N -> S] :
        f = [n \in 0..N |-> IF n = 0 THEN base ELSE step[<<f[n - 1], n>>]]
  BY <1>3 DEF T
<1>5. f[0] = base
  BY <1>4
<1>6. ASSUME NEW n \in 1..N
      PROVE  f[n] = step[<<f[n - 1], n>>]
  <2>1. n \in 0..N /\ n # 0
    OBVIOUS
  <2> QED
    BY <1>4, <2>1
<1> QED
  BY <1>5, <1>6 DEF Follows, CanFollow

-----------------------------------------------------------------------------
(* A sequence and the elements that it begins with.                        *)

LEMMA BeginningOfSeq ==
  ASSUME NEW S, NEW s \in Seq(S), NEW n \in 0..Len(s)
  PROVE  /\ SubSeq(s, 1, n) \in Seq(S)
         /\ Len(SubSeq(s, 1, n)) = n
         /\ \A j \in 1..n : SubSeq(s, 1, n)[j] = s[j]
<1>1. \A j \in 1..n : s[j] \in S
  BY LenProperties, ElementOfSeq
<1>2. /\ SubSeq(s, 1, n) \in Seq(S)
      /\ Len(SubSeq(s, 1, n)) = IF 1 <= n THEN n - 1 + 1 ELSE 0
      /\ \A j \in 1..(n - 1 + 1) : SubSeq(s, 1, n)[j] = s[1 + j - 1]
  BY <1>1, LenProperties, SubSeqProperties
<1> QED
  BY <1>2, LenProperties

LEMMA BeginningGrows ==
  ASSUME NEW S, NEW s \in Seq(S), NEW n \in 1..Len(s)
  PROVE  SubSeq(s, 1, n) = Append(SubSeq(s, 1, n - 1), s[n])
<1> DEFINE a == SubSeq(s, 1, n)
           b == SubSeq(s, 1, n - 1)
           c == Append(b, s[n])
<1>1. n \in 0..Len(s) /\ n - 1 \in 0..Len(s) /\ n - 1 \in Nat /\ s[n] \in S
  BY LenProperties, ElementOfSeq
<1>2. a \in Seq(S) /\ Len(a) = n /\ \A j \in 1..n : a[j] = s[j]
  BY <1>1, BeginningOfSeq
<1>3. b \in Seq(S) /\ Len(b) = n - 1 /\ \A j \in 1..(n - 1) : b[j] = s[j]
  BY <1>1, BeginningOfSeq
<1> HIDE DEF a, b
<1>4. /\ c \in Seq(S) /\ Len(c) = (n - 1) + 1
      /\ \A j \in 1..(n - 1) : c[j] = b[j]
      /\ c[(n - 1) + 1] = s[n]
  BY <1>1, <1>3, AppendProperties
<1> HIDE DEF c
<1>5. \A j \in 1..n : j = (n - 1) + 1 \/ j \in 1..(n - 1)
  BY <1>1
<1>6. \A j \in 1..n : a[j] = c[j]
  BY <1>2, <1>3, <1>4, <1>5
<1>7. Len(a) = Len(c)
  BY <1>1, <1>2, <1>4
<1>8. a = c
  BY <1>2, <1>4, <1>6, <1>7, SeqEqual
<1> QED
  BY <1>8 DEF a, b, c

LEMMA ConcatAppend ==
  ASSUME NEW S, NEW a \in Seq(S), NEW b \in Seq(S), NEW e \in S
  PROVE  a \o Append(b, e) = Append(a \o b, e)
<1>1. \A s \in Seq(S) : Append(s, e) = s \o <<e>>
  BY AppendIsConcat
<1>2. <<e>> \in Seq(S) /\ a \o b \in Seq(S)
  BY ConcatProperties
<1> QED
  BY <1>1, <1>2, ConcatAssociative

-----------------------------------------------------------------------------
(* The elements that are kept of a sequence.                               *)

Keeps(f, s, T) ==
  /\ f[0] = <<>>
  /\ \A n \in 1..Len(s) :
       f[n] = IF s[n] \in T THEN Append(f[n - 1], s[n]) ELSE f[n - 1]

CanKeep(s, S, T) ==
  \E f \in [0..Len(s) -> Seq(S)] : Keeps(f, s, T) /\ Keep(s, T) = f[Len(s)]

LEMMA KeepFollows ==
  ASSUME NEW S, NEW s \in Seq(S), NEW T
  PROVE  CanKeep(s, S, T)
<1> DEFINE N == Len(s)
           next == [p \in Seq(S) \X (1..N) |->
                      IF s[p[2]] \in T THEN Append(p[1], s[p[2]]) ELSE p[1]]
           kept[n \in 0..N] ==
             IF n = 0 THEN <<>>
             ELSE IF s[n] \in T THEN Append(kept[n - 1], s[n]) ELSE kept[n - 1]
<1>1. N \in Nat /\ \A n \in 1..N : s[n] \in S
  BY LenProperties, ElementOfSeq
<1>2. next \in Steps(Seq(S), N)
  <2>1. \A p \in Seq(S) \X (1..N) : Append(p[1], s[p[2]]) \in Seq(S)
    BY <1>1, AppendProperties
  <2> QED
    BY <2>1 DEF Steps
<1>3. \A v \in Seq(S), n \in 1..N :
        next[<<v, n>>] = IF s[n] \in T THEN Append(v, s[n]) ELSE v
  OBVIOUS
<1>4. <<>> \in Seq(S)
  BY EmptySeq
<1> HIDE DEF N, next
<1>5. PICK f \in [0..N -> Seq(S)] :
        f[0] = <<>> /\ \A n \in 1..N : f[n] = next[<<f[n - 1], n>>]
  <2>1. CanFollow(N, Seq(S), <<>>, next)
    BY <1>1, <1>2, <1>4, RecursionUpTo
  <2> QED
    BY <2>1 DEF CanFollow, Follows
<1>6. f = [n \in 0..N |->
             IF n = 0 THEN <<>>
             ELSE IF s[n] \in T THEN Append(f[n - 1], s[n]) ELSE f[n - 1]]
  <2>1. ASSUME NEW n \in 0..N, n # 0
        PROVE  f[n] = IF s[n] \in T THEN Append(f[n - 1], s[n]) ELSE f[n - 1]
    <3>1. n \in 1..N /\ n - 1 \in 0..N
      BY <1>1, <2>1
    <3>2. f[n - 1] \in Seq(S)
      BY <3>1
    <3> QED
      BY <1>3, <1>5, <3>1, <3>2
  <2>2. f = [n \in 0..N |-> f[n]]
    OBVIOUS
  <2> QED
    BY <1>5, <2>1, <2>2
<1>7. kept = [n \in 0..N |->
                IF n = 0 THEN <<>>
                ELSE IF s[n] \in T THEN Append(kept[n - 1], s[n]) ELSE kept[n - 1]]
  BY <1>6, Zenon
<1> HIDE DEF kept
<1>8. \A n \in 1..N :
        kept[n] = IF s[n] \in T THEN Append(kept[n - 1], s[n]) ELSE kept[n - 1]
  <2>1. \A n \in 1..N : n \in 0..N /\ n # 0
    BY <1>1
  <2> QED
    BY <1>7, <2>1
<1>9. kept[0] = <<>>
  BY <1>1, <1>7
<1>10. \A n \in 0..N : kept[n] \in Seq(S)
  <2> DEFINE U == {n \in 0..N : kept[n] \in Seq(S)}
  <2>1. 0 \in U
    BY <1>1, <1>4, <1>9
  <2>2. \A n \in 1..N : n - 1 \in U => n \in U
    <3> SUFFICES ASSUME NEW n \in 1..N, n - 1 \in U PROVE n \in U
      OBVIOUS
    <3>1. n \in 0..N
      BY <1>1
    <3>2. Append(kept[n - 1], s[n]) \in Seq(S)
      BY <1>1, AppendProperties
    <3> QED
      BY <1>8, <3>1, <3>2
  <2> HIDE DEF U
  <2>3. \A n \in 0..N : n \in U
    BY <1>1, <2>1, <2>2, InductionUpTo
  <2> QED
    BY <2>3 DEF U
<1>11. kept \in [0..N -> Seq(S)]
  <2>1. kept = [n \in 0..N |-> kept[n]]
    BY <1>7
  <2> QED
    BY <1>10, <2>1
<1>12. Keep(s, T) = kept[N]
  BY DEF Keep, kept, N
<1> QED
  BY <1>8, <1>9, <1>11, <1>12 DEF Keeps, CanKeep, N

\* What is kept of the first m elements depends on them only, and on which of them
\* are to be kept.
Alike(s, T, t, U, m) ==
  /\ m <= Len(s) /\ m <= Len(t)
  /\ \A n \in 1..m : s[n] = t[n] /\ (s[n] \in T <=> t[n] \in U)

LEMMA KeepsAgree ==
  ASSUME NEW S, NEW s \in Seq(S), NEW t \in Seq(S), NEW T, NEW U,
         NEW m \in Nat, Alike(s, T, t, U, m),
         NEW f, Keeps(f, s, T), NEW g, Keeps(g, t, U)
  PROVE  f[m] = g[m]
<1> USE DEF Alike
<1> DEFINE A == {n \in 0..m : f[n] = g[n]}
<1>1. 0 \in A
  BY DEF Keeps
<1>2. \A n \in 1..m : n - 1 \in A => n \in A
  <2> SUFFICES ASSUME NEW n \in 1..m, n - 1 \in A PROVE n \in A
    OBVIOUS
  <2>1. n \in 1..Len(s) /\ n \in 1..Len(t) /\ n \in 0..m
    BY LenProperties
  <2> QED
    BY <2>1 DEF Keeps
<1> HIDE DEF A
<1>3. \A n \in 0..m : n \in A
  BY <1>1, <1>2, InductionUpTo
<1>4. m \in 0..m
  OBVIOUS
<1> QED
  BY <1>3, <1>4 DEF A

LEMMA KeepType ==
  ASSUME NEW S, NEW s \in Seq(S), NEW T
  PROVE  Keep(s, T) \in Seq(S)
<1>1. Len(s) \in 0..Len(s)
  BY LenProperties
<1>2. CanKeep(s, S, T)
  BY KeepFollows
<1> QED
  BY <1>1, <1>2 DEF CanKeep

LEMMA KeepNothing ==
  ASSUME NEW T
  PROVE  Keep(<<>>, T) = <<>>
<1>1. <<>> \in Seq({}) /\ Len(<<>>) = 0
  BY EmptySeq
<1>2. CanKeep(<<>>, {}, T)
  BY <1>1, KeepFollows
<1> QED
  BY <1>1, <1>2 DEF CanKeep, Keeps

LEMMA KeepAppend ==
  ASSUME NEW S, NEW s \in Seq(S), NEW e \in S, NEW T
  PROVE  Keep(Append(s, e), T) =
           IF e \in T THEN Append(Keep(s, T), e) ELSE Keep(s, T)
<1> DEFINE t == Append(s, e)
           N == Len(s)
<1>1. /\ t \in Seq(S) /\ Len(t) = N + 1
      /\ \A n \in 1..N : t[n] = s[n]
      /\ t[N + 1] = e
      /\ N \in Nat
  BY AppendProperties, LenProperties
<1> HIDE DEF t
<1>2. PICK f \in [0..N -> Seq(S)] : Keeps(f, s, T) /\ Keep(s, T) = f[N]
  <2>1. CanKeep(s, S, T)
    BY KeepFollows
  <2> QED
    BY <2>1 DEF CanKeep
<1>3. PICK g \in [0..(N + 1) -> Seq(S)] : Keeps(g, t, T) /\ Keep(t, T) = g[N + 1]
  <2>1. CanKeep(t, S, T)
    BY <1>1, KeepFollows
  <2> QED
    BY <1>1, <2>1 DEF CanKeep
<1>4. f[N] = g[N]
  <2>1. Alike(s, T, t, T, N)
    BY <1>1 DEF Alike
  <2>2. Keeps(f, s, T) /\ Keeps(g, t, T) /\ N \in Nat /\ t \in Seq(S)
    BY <1>1, <1>2, <1>3
  <2> QED
    BY <2>1, <2>2, KeepsAgree
<1>5. N + 1 \in 1..Len(t) /\ (N + 1) - 1 = N
  BY <1>1
<1>6. g[N + 1] = IF e \in T THEN Append(g[N], e) ELSE g[N]
  BY <1>1, <1>3, <1>5 DEF Keeps
<1> QED
  BY <1>2, <1>3, <1>4, <1>6 DEF t

LEMMA KeepSame ==
  ASSUME NEW S, NEW s \in Seq(S), NEW T, NEW U,
         \A n \in 1..Len(s) : s[n] \in T <=> s[n] \in U
  PROVE  Keep(s, T) = Keep(s, U)
<1>1. Len(s) \in Nat
  BY LenProperties
<1>2. PICK f \in [0..Len(s) -> Seq(S)] : Keeps(f, s, T) /\ Keep(s, T) = f[Len(s)]
  <2>1. CanKeep(s, S, T)
    BY KeepFollows
  <2> QED
    BY <2>1 DEF CanKeep
<1>3. PICK g \in [0..Len(s) -> Seq(S)] : Keeps(g, s, U) /\ Keep(s, U) = g[Len(s)]
  <2>1. CanKeep(s, S, U)
    BY KeepFollows
  <2> QED
    BY <2>1 DEF CanKeep
<1>4. Alike(s, T, s, U, Len(s))
  BY <1>1 DEF Alike
<1>5. f[Len(s)] = g[Len(s)]
  BY <1>1, <1>2, <1>3, <1>4, KeepsAgree
<1> QED
  BY <1>2, <1>3, <1>5

-----------------------------------------------------------------------------
(* The elements of a sequence of sequences, one after the other.           *)

Flattens(f, s) ==
  f[0] = <<>> /\ \A n \in 1..Len(s) : f[n] = f[n - 1] \o s[n]

CanFlatten(s, S) ==
  \E f \in [0..Len(s) -> Seq(S)] : Flattens(f, s) /\ FlattenSeq(s) = f[Len(s)]

LEMMA FlattenFollows ==
  ASSUME NEW S, NEW s \in Seq(Seq(S))
  PROVE  CanFlatten(s, S)
<1> DEFINE N == Len(s)
           next == [p \in Seq(S) \X (1..N) |-> p[1] \o s[p[2]]]
           flatten[n \in 1..N] == IF n = 1 THEN s[n] ELSE flatten[n - 1] \o s[n]
<1>1. N \in Nat /\ \A n \in 1..N : s[n] \in Seq(S)
  BY LenProperties, ElementOfSeq
<1>2. next \in Steps(Seq(S), N)
  <2>1. \A p \in Seq(S) \X (1..N) : p[1] \o s[p[2]] \in Seq(S)
    BY <1>1, ConcatProperties
  <2> QED
    BY <2>1 DEF Steps
<1>3. \A v \in Seq(S), n \in 1..N : next[<<v, n>>] = v \o s[n]
  OBVIOUS
<1>4. <<>> \in Seq(S)
  BY EmptySeq
<1> HIDE DEF N, next
<1>5. PICK f \in [0..N -> Seq(S)] :
        f[0] = <<>> /\ \A n \in 1..N : f[n] = next[<<f[n - 1], n>>]
  <2>1. CanFollow(N, Seq(S), <<>>, next)
    BY <1>1, <1>2, <1>4, RecursionUpTo
  <2> QED
    BY <2>1 DEF CanFollow, Follows
<1>6. \A n \in 1..N : f[n] = f[n - 1] \o s[n]
  <2> TAKE n \in 1..N
  <2>1. n - 1 \in 0..N
    BY <1>1
  <2>2. f[n - 1] \in Seq(S)
    BY <2>1
  <2> QED
    BY <1>3, <1>5, <2>2
<1>7. Flattens(f, s)
  BY <1>5, <1>6 DEF Flattens, N
<1>8. CASE N = 0
  <2>1. s = <<>>
    BY <1>8, EmptySeq DEF N
  <2>2. FlattenSeq(s) = s
    BY <1>8 DEF FlattenSeq, N
  <2>3. FlattenSeq(s) = f[N]
    BY <1>5, <1>8, <2>1, <2>2
  <2> QED
    BY <1>7, <2>3 DEF CanFlatten, N
<1>9. CASE N # 0
  <2>1. \A n \in 1..N : f[n] = IF n = 1 THEN s[n] ELSE f[n - 1] \o s[n]
    <3> TAKE n \in 1..N
    <3>1. <<>> \o s[n] = s[n]
      BY <1>1, ConcatEmptySeq
    <3>2. n = 1 => n - 1 = 0
      OBVIOUS
    <3>3. n = 1 => f[n] = <<>> \o s[n]
      BY <1>5, <1>6, <3>2
    <3> QED
      BY <1>6, <3>1, <3>3
  <2> DEFINE g == [n \in 1..N |-> f[n]]
  <2>2. g = [n \in 1..N |-> IF n = 1 THEN s[n] ELSE g[n - 1] \o s[n]]
    <3>1. \A n \in 1..N : n # 1 => n - 1 \in 1..N
      BY <1>1
    <3>2. \A n \in 1..N : g[n] = IF n = 1 THEN s[n] ELSE g[n - 1] \o s[n]
      BY <2>1, <3>1
    <3>3. g = [n \in 1..N |-> g[n]]
      OBVIOUS
    <3> HIDE DEF g
    <3> QED
      BY <3>2, <3>3
  <2> HIDE DEF g
  <2>3. flatten = [n \in 1..N |-> IF n = 1 THEN s[n] ELSE flatten[n - 1] \o s[n]]
    BY <2>2, Zenon
  <2> HIDE DEF flatten
  <2> DEFINE U == {n \in 0..N : n = 0 \/ flatten[n] = f[n]}
  <2>4. \A n \in 0..N : n \in U
    <3>1. 0 \in U
      BY <1>1
    <3>2. \A n \in 1..N : n - 1 \in U => n \in U
      <4> SUFFICES ASSUME NEW n \in 1..N, n - 1 \in U PROVE n \in U
        OBVIOUS
      <4>1. n \in 0..N /\ (n # 1 => n - 1 # 0)
        BY <1>1
      <4>2. flatten[n] = IF n = 1 THEN s[n] ELSE flatten[n - 1] \o s[n]
        BY <2>3
      <4>3. f[n] = IF n = 1 THEN s[n] ELSE f[n - 1] \o s[n]
        BY <2>1
      <4>4. n # 1 => flatten[n - 1] = f[n - 1]
        BY <4>1
      <4>5. flatten[n] = f[n]
        BY <4>2, <4>3, <4>4
      <4> QED
        BY <4>1, <4>5
    <3> HIDE DEF U
    <3> QED
      BY <1>1, <3>1, <3>2, InductionUpTo
  <2>5. FlattenSeq(s) = flatten[N]
    BY <1>9 DEF FlattenSeq, flatten, N
  <2>6. N \in 0..N
    BY <1>1
  <2>7. FlattenSeq(s) = f[N]
    BY <1>9, <2>4, <2>5, <2>6
  <2> QED
    BY <1>7, <2>7 DEF CanFlatten, N
<1> QED
  BY <1>8, <1>9

LEMMA FlattenType ==
  ASSUME NEW S, NEW s \in Seq(Seq(S))
  PROVE  FlattenSeq(s) \in Seq(S)
<1>1. Len(s) \in 0..Len(s)
  BY LenProperties
<1>2. CanFlatten(s, S)
  BY FlattenFollows
<1> QED
  BY <1>1, <1>2 DEF CanFlatten

LEMMA FlattenNothing == FlattenSeq(<<>>) = <<>>
<1>1. Len(<<>>) = 0
  BY EmptySeq
<1> QED
  BY <1>1 DEF FlattenSeq

\* The first n + 1 sequences are the first n and one more.
LEMMA FlattenOneMore ==
  ASSUME NEW S, NEW s \in Seq(Seq(S)), NEW n \in 1..Len(s)
  PROVE  FlattenSeq(SubSeq(s, 1, n)) = FlattenSeq(SubSeq(s, 1, n - 1)) \o s[n]
<1> DEFINE p == SubSeq(s, 1, n)
           q == SubSeq(s, 1, n - 1)
<1>1. Len(s) \in Nat /\ n \in Nat /\ n - 1 \in Nat /\ n <= Len(s) /\ n - 1 <= Len(s)
      /\ n \in 1..n
  BY LenProperties
<1>2. \A m \in Nat : m <= Len(s) =>
        /\ SubSeq(s, 1, m) \in Seq(Seq(S)) /\ Len(SubSeq(s, 1, m)) = m
        /\ \A j \in 1..m : SubSeq(s, 1, m)[j] = s[j]
  <2> SUFFICES ASSUME NEW m \in Nat, m <= Len(s)
               PROVE  /\ SubSeq(s, 1, m) \in Seq(Seq(S)) /\ Len(SubSeq(s, 1, m)) = m
                      /\ \A j \in 1..m : SubSeq(s, 1, m)[j] = s[j]
    OBVIOUS
  <2>1. \A j \in 1..m : s[j] \in Seq(S)
    BY <1>1, ElementOfSeq
  <2>2. /\ SubSeq(s, 1, m) \in Seq(Seq(S))
        /\ Len(SubSeq(s, 1, m)) = IF 1 <= m THEN m - 1 + 1 ELSE 0
        /\ \A j \in 1..(m - 1 + 1) : SubSeq(s, 1, m)[j] = s[1 + j - 1]
    BY <2>1, SubSeqProperties
  <2> QED
    BY <2>2
<1>3. /\ p \in Seq(Seq(S)) /\ Len(p) = n /\ \A j \in 1..n : p[j] = s[j]
      /\ q \in Seq(Seq(S)) /\ Len(q) = n - 1 /\ \A j \in 1..(n - 1) : q[j] = s[j]
  BY <1>1, <1>2
<1> HIDE DEF p, q
<1>4. PICK f \in [0..n -> Seq(S)] : Flattens(f, p) /\ FlattenSeq(p) = f[n]
  <2>1. CanFlatten(p, S)
    BY <1>3, FlattenFollows
  <2> QED
    BY <1>3, <2>1 DEF CanFlatten
<1>5. PICK g \in [0..(n - 1) -> Seq(S)] : Flattens(g, q) /\ FlattenSeq(q) = g[n - 1]
  <2>1. CanFlatten(q, S)
    BY <1>3, FlattenFollows
  <2> QED
    BY <1>3, <2>1 DEF CanFlatten
<1>6. f[n - 1] = g[n - 1]
  <2> DEFINE A == {j \in 0..(n - 1) : f[j] = g[j]}
  <2>1. 0 \in A
    BY <1>1, <1>4, <1>5 DEF Flattens
  <2>2. \A j \in 1..(n - 1) : j - 1 \in A => j \in A
    <3> SUFFICES ASSUME NEW j \in 1..(n - 1), j - 1 \in A PROVE j \in A
      OBVIOUS
    <3>1. j \in 1..n /\ j \in 0..(n - 1)
      BY <1>1
    <3>2. f[j] = f[j - 1] \o s[j]
      BY <1>3, <1>4, <3>1 DEF Flattens
    <3>3. g[j] = g[j - 1] \o s[j]
      BY <1>3, <1>5 DEF Flattens
    <3> QED
      BY <3>1, <3>2, <3>3
  <2> HIDE DEF A
  <2>3. \A j \in 0..(n - 1) : j \in A
    BY <1>1, <2>1, <2>2, InductionUpTo
  <2>4. n - 1 \in 0..(n - 1)
    BY <1>1
  <2> QED
    BY <2>3, <2>4 DEF A
<1>7. f[n] = f[n - 1] \o s[n]
  BY <1>1, <1>3, <1>4 DEF Flattens
<1> QED
  BY <1>4, <1>5, <1>6, <1>7 DEF p, q

-----------------------------------------------------------------------------
(* Laws that are proved one element after the other.                       *)

\* What holds of no element, and of a sequence and one more, holds of all sequences.
LEMMA InductionOnSeq ==
  ASSUME NEW S, NEW T, <<>> \in T,
         \A s \in Seq(S), x \in S : s \in T => Append(s, x) \in T
  PROVE  Seq(S) \subseteq T
<1> SUFFICES ASSUME NEW s \in Seq(S) PROVE s \in T
  OBVIOUS
<1> DEFINE U == {n \in 0..Len(s) : SubSeq(s, 1, n) \in T}
<1>1. Len(s) \in Nat
  BY LenProperties
<1>2. 0 \in U
  <2>1. SubSeq(s, 1, 0) = <<>>
    BY SubSeqEmpty
  <2>2. SubSeq(s, 1, 0) \in T
    BY <2>1, Zenon
  <2> QED
    BY <1>1, <2>2
<1>3. \A n \in 1..Len(s) : n - 1 \in U => n \in U
  <2> SUFFICES ASSUME NEW n \in 1..Len(s), n - 1 \in U PROVE n \in U
    OBVIOUS
  <2>1. SubSeq(s, 1, n) = Append(SubSeq(s, 1, n - 1), s[n])
    BY BeginningGrows
  <2>2. n \in 0..Len(s) /\ n - 1 \in 0..Len(s) /\ s[n] \in S
    BY <1>1, ElementOfSeq
  <2>3. SubSeq(s, 1, n - 1) \in Seq(S)
    BY <2>2, BeginningOfSeq
  <2> QED
    BY <2>1, <2>2, <2>3
<1> HIDE DEF U
<1>4. \A n \in 0..Len(s) : n \in U
  BY <1>1, <1>2, <1>3, InductionUpTo
<1>5. SubSeq(s, 1, Len(s)) \in T
  BY <1>1, <1>4 DEF U
<1> QED
  BY <1>5, SubSeqFull

LEMMA FlattenAppend ==
  ASSUME NEW S, NEW s \in Seq(Seq(S)), NEW t \in Seq(S)
  PROVE  FlattenSeq(Append(s, t)) = FlattenSeq(s) \o t
<1> DEFINE u == Append(s, t)
           N == Len(s)
<1>1. /\ u \in Seq(Seq(S)) /\ Len(u) = N + 1 /\ N \in Nat
      /\ u[N + 1] = t /\ \A i \in 1..N : u[i] = s[i]
  BY AppendProperties, LenProperties
<1>2. SubSeq(u, 1, N + 1) = u
  BY <1>1, SubSeqFull
<1>3. SubSeq(u, 1, N) = s
  <2>1. /\ SubSeq(u, 1, N) \in Seq(Seq(S)) /\ Len(SubSeq(u, 1, N)) = N
        /\ \A i \in 1..N : SubSeq(u, 1, N)[i] = u[i]
    BY <1>1, BeginningOfSeq
  <2> HIDE DEF u
  <2> QED
    BY <1>1, <2>1, SeqEqual
<1> HIDE DEF u
<1>4. FlattenSeq(SubSeq(u, 1, N + 1)) = FlattenSeq(SubSeq(u, 1, (N + 1) - 1)) \o u[N + 1]
  <2>1. N + 1 \in 1..Len(u)
    BY <1>1
  <2> HIDE DEF N
  <2> QED
    BY <1>1, <2>1, FlattenOneMore
<1>5. (N + 1) - 1 = N
  BY <1>1
<1> QED
  BY <1>1, <1>2, <1>3, <1>4, <1>5 DEF u

\* A list that a rule makes, and the list that it makes of one element more.
Grows(e, f, N, S) ==
  /\ N \in Nat /\ e \in [1..N -> S] /\ f \in [1..(N + 1) -> S]
  /\ \A i \in 1..N : f[i] = e[i]

LEMMA ListGrows ==
  ASSUME NEW S, NEW N, NEW e, NEW f, Grows(e, f, N, S)
  PROVE  f = Append(e, f[N + 1]) /\ e \in Seq(S) /\ f \in Seq(S)
<1> USE DEF Grows
<1>1. e \in Seq(S) /\ Len(e) = N
  <2>1. \A i \in 1..N : e[i] \in S
    OBVIOUS
  <2>2. e \in Seq(S)
    BY <2>1
  <2>3. DOMAIN e = 1..N
    OBVIOUS
  <2> QED
    BY <2>2, <2>3, LenProperties
<1>2. f \in Seq(S) /\ Len(f) = N + 1
  <2>1. f \in Seq(S)
    OBVIOUS
  <2>2. DOMAIN f = 1..(N + 1)
    OBVIOUS
  <2> QED
    BY <2>1, <2>2, LenProperties
<1>3. f[N + 1] \in S
  OBVIOUS
<1> DEFINE g == Append(e, f[N + 1])
<1>4. g \in Seq(S) /\ Len(g) = N + 1 /\ g[N + 1] = f[N + 1] /\ \A i \in 1..N : g[i] = e[i]
  BY <1>1, <1>3, AppendProperties
<1> HIDE DEF g
<1>5. ASSUME NEW i \in 1..(N + 1)
      PROVE  g[i] = f[i]
  <2>1. i \in 1..N \/ i = N + 1
    OBVIOUS
  <2>2. i \in 1..N => f[i] = e[i]
    OBVIOUS
  <2> QED
    BY <1>4, <2>1, <2>2
<1>6. f = g
  BY <1>2, <1>4, <1>5, SeqEqual
<1> QED
  BY <1>1, <1>2, <1>6 DEF g

\* The list that a rule makes of a sequence, element by element.
Ruled(s, g) == [i \in DOMAIN s |-> g[s[i]]]

Rule(g, S, T) == g \in [S -> T]

LEMMA RuledNothing ==
  ASSUME NEW g
  PROVE  Ruled(<<>>, g) = <<>>
BY DEF Ruled

LEMMA RuledAppend ==
  ASSUME NEW S, NEW T, NEW g, Rule(g, S, T), NEW s \in Seq(S), NEW x \in S
  PROVE  /\ Ruled(Append(s, x), g) = Append(Ruled(s, g), g[x])
         /\ Ruled(s, g) \in Seq(T)
         /\ g[x] \in T
<1> DEFINE t == Append(s, x)
           N == Len(s)
           e == Ruled(s, g)
           f == Ruled(t, g)
<1>1. /\ N \in Nat /\ DOMAIN s = 1..N /\ \A i \in 1..N : s[i] \in S
      /\ t \in Seq(S) /\ Len(t) = N + 1 /\ DOMAIN t = 1..(N + 1)
      /\ \A i \in 1..N : t[i] = s[i]
      /\ t[N + 1] = x
  BY LenProperties, ElementOfSeq, AppendProperties
<1> HIDE DEF t, N
<1>2. g[x] \in T
  BY DEF Rule
<1>3. e \in [1..N -> T]
  BY <1>1 DEF Rule, Ruled
<1>4. f \in [1..(N + 1) -> T]
  <2>1. \A i \in 1..(N + 1) : t[i] \in S
    BY <1>1, ElementOfSeq
  <2> QED
    BY <1>1, <2>1 DEF Rule, Ruled
<1>5. \A i \in 1..N : f[i] = e[i]
  BY <1>1 DEF Ruled
<1>6. f[N + 1] = g[x]
  BY <1>1 DEF Ruled
<1> HIDE DEF e, f
<1>7. Grows(e, f, N, T)
  BY <1>1, <1>3, <1>4, <1>5 DEF Grows
<1>8. f = Append(e, f[N + 1]) /\ e \in Seq(T)
  BY <1>7, ListGrows
<1> QED
  BY <1>2, <1>6, <1>8 DEF e, f, t

LEMMA RuledType ==
  ASSUME NEW S, NEW T, NEW g, Rule(g, S, T), NEW s \in Seq(S)
  PROVE  Ruled(s, g) \in Seq(T) /\ Len(Ruled(s, g)) = Len(s)
<1>1. Len(s) \in Nat /\ DOMAIN s = 1..Len(s) /\ \A i \in 1..Len(s) : s[i] \in S
  BY LenProperties, ElementOfSeq
<1>2. Ruled(s, g) \in [1..Len(s) -> T]
  BY <1>1 DEF Rule, Ruled
<1>3. Ruled(s, g) \in Seq(T) /\ DOMAIN Ruled(s, g) = 1..Len(s)
  BY <1>1, <1>2
<1> QED
  BY <1>1, <1>3, LenProperties

LEMMA RuledConcat ==
  ASSUME NEW S, NEW T, NEW g, Rule(g, S, T), NEW a \in Seq(S), NEW b \in Seq(S)
  PROVE  Ruled(a \o b, g) = Ruled(a, g) \o Ruled(b, g)
<1> DEFINE L(s) == Ruled(s, g)
           U == {s \in Seq(S) : L(a \o s) = L(a) \o L(s)}
<1>1. L(a) \in Seq(T)
  BY RuledType
<1>2. <<>> \in U
  <2>1. a \o <<>> = a /\ L(<<>>) = <<>> /\ L(a) \o <<>> = L(a)
    BY <1>1, RuledNothing, ConcatEmptySeq
  <2> HIDE DEF L
  <2> QED
    BY <2>1, EmptySeq
<1>3. ASSUME NEW s \in Seq(S), NEW x \in S, s \in U
      PROVE  Append(s, x) \in U
  <2>1. a \o Append(s, x) = Append(a \o s, x) /\ a \o s \in Seq(S) /\ Append(s, x) \in Seq(S)
    BY ConcatAppend, ConcatProperties, AppendProperties
  <2>2. L(Append(a \o s, x)) = Append(L(a \o s), g[x])
    <3> DEFINE both == a \o s
    <3>1. both \in Seq(S) /\ x \in S /\ Rule(g, S, T)
      BY <2>1
    <3> HIDE DEF both
    <3>2. L(Append(both, x)) = Append(L(both), g[x])
      BY <3>1, RuledAppend
    <3> QED
      BY <3>2 DEF both
  <2>3. L(Append(s, x)) = Append(L(s), g[x]) /\ L(s) \in Seq(T) /\ g[x] \in T
    BY RuledAppend
  <2>4. L(a \o s) = L(a) \o L(s)
    BY <1>3
  <2> HIDE DEF L
  <2>5. L(a) \o Append(L(s), g[x]) = Append(L(a) \o L(s), g[x])
    BY <1>1, <2>3, ConcatAppend
  <2> QED
    BY <2>1, <2>2, <2>3, <2>4, <2>5
<1> HIDE DEF U
<1>4. b \in U
  BY <1>2, <1>3, InductionOnSeq
<1> QED
  BY <1>4 DEF U

\* The texts that a rule makes of the elements, one behind the other.
LEMMA FlatRuledAppend ==
  ASSUME NEW S, NEW T, NEW g, Rule(g, S, Seq(T)), NEW s \in Seq(S), NEW x \in S
  PROVE  /\ FlattenSeq(Ruled(Append(s, x), g)) = FlattenSeq(Ruled(s, g)) \o g[x]
         /\ FlattenSeq(Ruled(s, g)) \in Seq(T)
         /\ g[x] \in Seq(T)
<1> DEFINE U == Seq(T)
           e == Ruled(s, g)
<1>1. Rule(g, S, U)
  OBVIOUS
<1> HIDE DEF U, e
<1>2. Ruled(Append(s, x), g) = Append(e, g[x]) /\ e \in Seq(U) /\ g[x] \in U
  BY <1>1, RuledAppend DEF e
<1>3. e \in Seq(Seq(T)) /\ g[x] \in Seq(T)
  BY <1>2 DEF U
<1>4. FlattenSeq(Append(e, g[x])) = FlattenSeq(e) \o g[x]
  BY <1>3, FlattenAppend
<1>5. FlattenSeq(e) \in Seq(T)
  BY <1>3, FlattenType
<1> QED
  BY <1>2, <1>3, <1>4, <1>5 DEF e

\* Where two sequences meet.
LEMMA ConcatCut ==
  ASSUME NEW S, NEW a \in Seq(S), NEW b \in Seq(S)
  PROVE  /\ SubSeq(a \o b, 1, Len(a)) = a
         /\ SubSeq(a \o b, Len(a) + 1, Len(a \o b)) = b
<1> DEFINE s == a \o b
           m == SubSeq(s, 1, Len(a))
           n == SubSeq(s, Len(a) + 1, Len(s))
<1>1. /\ s \in Seq(S) /\ Len(s) = Len(a) + Len(b) /\ Len(a) \in Nat /\ Len(b) \in Nat
      /\ \A i \in 1..(Len(a) + Len(b)) : s[i] = IF i <= Len(a) THEN a[i] ELSE b[i - Len(a)]
      /\ \A i \in 1..Len(s) : s[i] \in S
  BY ConcatProperties, LenProperties, ElementOfSeq
<1> HIDE DEF s
<1>2. m \in Seq(S) /\ Len(m) = Len(a) /\ \A i \in 1..Len(a) : m[i] = s[i]
  BY <1>1, BeginningOfSeq
<1>3. n \in Seq(S) /\ Len(n) = Len(b) /\ \A i \in 1..Len(b) : n[i] = s[Len(a) + i]
  <2>1. \A i \in (Len(a) + 1)..Len(s) : s[i] \in S
    BY <1>1
  <2>2. /\ n \in Seq(S)
        /\ Len(n) = IF Len(a) + 1 <= Len(s) THEN Len(s) - (Len(a) + 1) + 1 ELSE 0
        /\ \A i \in 1..(Len(s) - (Len(a) + 1) + 1) : n[i] = s[(Len(a) + 1) + i - 1]
    BY <1>1, <2>1, SubSeqProperties
  <2> HIDE DEF n
  <2>3. Len(s) - (Len(a) + 1) + 1 = Len(b)
    BY <1>1
  <2>4. \A i \in 1..Len(b) : (Len(a) + 1) + i - 1 = Len(a) + i
    BY <1>1
  <2>5. Len(n) = Len(b)
    BY <1>1, <2>2
  <2>6. \A i \in 1..Len(b) : n[i] = s[(Len(a) + 1) + i - 1]
    BY <2>2, <2>3
  <2> QED
    BY <2>2, <2>4, <2>5, <2>6
<1> HIDE DEF m, n
<1>4. m = a
  BY <1>1, <1>2, SeqEqual
<1>5. n = b
  <2>1. \A i \in 1..Len(b) : n[i] = b[i]
    BY <1>1, <1>3
  <2> QED
    BY <1>3, <2>1, SeqEqual
<1> QED
  BY <1>4, <1>5 DEF m, n, s

LEMMA ConcatSet ==
  ASSUME NEW S, NEW a \in Seq(S), NEW b \in Seq(S)
  PROVE  ToSet(a \o b) = ToSet(a) \cup ToSet(b)
<1>1. /\ Len(a \o b) = Len(a) + Len(b) /\ Len(a) \in Nat /\ Len(b) \in Nat
      /\ \A i \in 1..(Len(a) + Len(b)) :
           (a \o b)[i] = IF i <= Len(a) THEN a[i] ELSE b[i - Len(a)]
      /\ DOMAIN a = 1..Len(a) /\ DOMAIN b = 1..Len(b)
      /\ DOMAIN (a \o b) = 1..(Len(a) + Len(b))
  BY ConcatProperties, LenProperties
<1>2. ToSet(a \o b) \subseteq ToSet(a) \cup ToSet(b)
  <2> SUFFICES ASSUME NEW i \in 1..(Len(a) + Len(b))
               PROVE  (a \o b)[i] \in ToSet(a) \cup ToSet(b)
    BY <1>1 DEF ToSet
  <2>1. CASE i <= Len(a)
    BY <1>1, <2>1 DEF ToSet
  <2>2. CASE ~(i <= Len(a))
    <3>1. i - Len(a) \in 1..Len(b)
      BY <1>1, <2>2
    <3> QED
      BY <1>1, <2>2, <3>1 DEF ToSet
  <2> QED
    BY <2>1, <2>2
<1>3. ToSet(a) \subseteq ToSet(a \o b)
  <2> SUFFICES ASSUME NEW i \in 1..Len(a) PROVE a[i] \in ToSet(a \o b)
    BY <1>1 DEF ToSet
  <2>1. i \in 1..(Len(a) + Len(b)) /\ (a \o b)[i] = a[i]
    BY <1>1
  <2> QED
    BY <1>1, <2>1 DEF ToSet
<1>4. ToSet(b) \subseteq ToSet(a \o b)
  <2> SUFFICES ASSUME NEW i \in 1..Len(b) PROVE b[i] \in ToSet(a \o b)
    BY <1>1 DEF ToSet
  <2>1. Len(a) + i \in 1..(Len(a) + Len(b)) /\ (a \o b)[Len(a) + i] = b[i]
    BY <1>1
  <2> QED
    BY <1>1, <2>1 DEF ToSet
<1> QED
  BY <1>2, <1>3, <1>4
=============================================================================
