------------------------- MODULE HttpMessage_proofs -------------------------
(***************************************************************************)
(* Proofs about Url and HttpMessage, for every directory of hosts and all  *)
(* texts that a client may call the constructor and the setters with.      *)
(***************************************************************************)
EXTENDS HttpMessage, SequenceLemmas, FiniteSetTheorems, TLAPS

-----------------------------------------------------------------------------
(* Places in texts.                                                        *)

LEMMA LeastIsThere ==
  ASSUME NEW U, U \subseteq Nat, U # {}
  PROVE  Min(U) \in U /\ \A y \in U : Min(U) <= y
<1>1. PICK x \in U : \A y \in U : x <= y
  <2> DEFINE T == {n \in Nat : \A m \in 0..n : m \notin U}
  <2> SUFFICES ASSUME \A x \in U : \E y \in U : ~(x <= y) PROVE FALSE
    OBVIOUS
  <2>1. 0 \in T
    OBVIOUS
  <2>2. \A n \in Nat : n \in T => n + 1 \in T
    OBVIOUS
  <2> HIDE DEF T
  <2>3. \A n \in Nat : n \in T
    BY <2>1, <2>2, InductionOnNat
  <2>4. PICK x \in U : x \in Nat
    OBVIOUS
  <2>5. x \in T /\ x \in 0..x
    BY <2>3, <2>4
  <2> QED
    BY <2>5 DEF T
<1> QED
  BY <1>1 DEF Min

LEMMA GreatestIsThere ==
  ASSUME NEW N \in Nat, NEW U, U \subseteq 1..N, U # {}
  PROVE  Max(U) \in U /\ \A y \in U : Max(U) >= y
<1>1. PICK x \in U : \A y \in U : x >= y
  <2> DEFINE T == {n \in 0..N : \A y \in U : y <= N - n}
  <2> SUFFICES ASSUME \A x \in U : \E y \in U : ~(x >= y) PROVE FALSE
    OBVIOUS
  <2>1. 0 \in T
    OBVIOUS
  <2>2. \A n \in 1..N : n - 1 \in T => n \in T
    <3> SUFFICES ASSUME NEW n \in 1..N, n - 1 \in T PROVE n \in T
      OBVIOUS
    <3>1. \A y \in U : y <= N - (n - 1) /\ y \in 1..N
      OBVIOUS
    <3>2. N - (n - 1) \notin U
      BY <3>1
    <3>3. \A y \in U : y # N - (n - 1)
      BY <3>2
    <3>4. \A y \in U : y <= N - n
      BY <3>1, <3>3
    <3> QED
      BY <3>4
  <2> HIDE DEF T
  <2>3. \A n \in 0..N : n \in T
    BY <2>1, <2>2, InductionUpTo
  <2>4. N \in T
    BY <2>3
  <2>5. PICK y \in U : y \in 1..N
    OBVIOUS
  <2>6. y <= N - N
    BY <2>4 DEF T
  <2> QED
    BY <2>5, <2>6
<1> QED
  BY <1>1 DEF Max

\* find() and find_last_of(): 0, or a place where the character stands.
LEMMA FindPlace ==
  ASSUME NEW S, NEW s \in Seq(S), NEW c
  PROVE  Find(s, c) \in 0..Len(s) /\ FindLast(s, c) \in 0..Len(s)
<1> DEFINE I == {i \in 1..Len(s) : s[i] = c}
<1>1. Len(s) \in Nat
  BY LenProperties
<1>2. Find(s, c) = IF I # {} THEN Min(I) ELSE 0
  BY DEF Find, SelectInSeq
<1>3. FindLast(s, c) = IF I # {} THEN Max(I) ELSE 0
  BY DEF FindLast, SelectLastInSeq
<1>4. I \subseteq 1..Len(s) /\ I \subseteq Nat
  OBVIOUS
<1> HIDE DEF I
<1>5. I # {} => Min(I) \in I /\ Max(I) \in I
  BY <1>1, <1>4, LeastIsThere, GreatestIsThere
<1>6. \A i \in I : i \in 0..Len(s)
  BY <1>1, <1>4
<1>7. 0 \in 0..Len(s)
  BY <1>1
<1> QED
  BY <1>2, <1>3, <1>5, <1>6, <1>7

LEMMA PartOfText ==
  ASSUME NEW S, NEW s \in Seq(S), NEW a \in Nat \ {0}, NEW b \in Int, b <= Len(s)
  PROVE  SubSeq(s, a, b) \in Seq(S)
<1>1. \A i \in a..b : s[i] \in S
  BY LenProperties, ElementOfSeq
<1> QED
  BY <1>1, SubSeqProperties

LEMMA BeforeAfter ==
  ASSUME NEW S, NEW s \in Seq(S), NEW i \in 0..(Len(s) + 1)
  PROVE  Before(s, i) \in Seq(S) /\ After(s, i) \in Seq(S)
<1>1. Len(s) \in Nat /\ i \in Nat /\ i - 1 \in Int /\ i - 1 <= Len(s) /\ i + 1 \in Nat \ {0}
  BY LenProperties
<1>2. SubSeq(s, 1, i - 1) \in Seq(S) /\ SubSeq(s, i + 1, Len(s)) \in Seq(S)
  BY <1>1, PartOfText
<1> QED
  BY <1>2, EmptySeq DEF Before, After

LEMMA AroundFirst ==
  ASSUME NEW S, NEW s \in Seq(S), NEW c
  PROVE  /\ Before(s, Find(s, c)) \in Seq(S) /\ After(s, Find(s, c)) \in Seq(S)
         /\ Before(s, FindLast(s, c)) \in Seq(S) /\ After(s, FindLast(s, c)) \in Seq(S)
<1>1. Find(s, c) \in 0..(Len(s) + 1) /\ FindLast(s, c) \in 0..(Len(s) + 1)
  BY FindPlace, LenProperties
<1> QED
  BY <1>1, BeforeAfter

\* A character that a text does not hold.
LEMMA FindNone ==
  ASSUME NEW S, NEW s \in Seq(S), NEW c, c \notin ToSet(s)
  PROVE  Find(s, c) = 0 /\ FindLast(s, c) = 0
<1> DEFINE I == {i \in 1..Len(s) : s[i] = c}
<1>1. I = {}
  BY LenProperties DEF ToSet
<1> QED
  BY <1>1 DEF Find, SelectInSeq, FindLast, SelectLastInSeq

\* What the text a, the character c and the text b make.
LEMMA Around ==
  ASSUME NEW S, NEW a \in Seq(S), NEW c \in S, NEW b \in Seq(S)
  PROVE  LET s == a \o <<c>> \o b IN
           /\ s \in Seq(S) /\ Len(s) = Len(a) + 1 + Len(b)
           /\ s[Len(a) + 1] = c
           /\ \A i \in 1..Len(a) : s[i] = a[i]
           /\ \A i \in 1..Len(b) : s[Len(a) + 1 + i] = b[i]
           /\ SubSeq(s, 1, Len(a)) = a
           /\ SubSeq(s, Len(a) + 2, Len(s)) = b
<1> DEFINE t == a \o <<c>>
           s == t \o b
<1>1. /\ Len(a) \in Nat /\ Len(b) \in Nat /\ <<c>> \in Seq(S) /\ Len(<<c>>) = 1
  BY LenProperties
<1>2. /\ t \in Seq(S) /\ Len(t) = Len(a) + 1 /\ t[Len(a) + 1] = c
      /\ \A i \in 1..Len(a) : t[i] = a[i]
  <2>1. t = Append(a, c)
    BY AppendIsConcat
  <2> HIDE DEF t
  <2> QED
    BY <2>1, AppendProperties
<1> HIDE DEF t
<1>3. /\ s \in Seq(S) /\ Len(s) = Len(t) + Len(b)
      /\ \A i \in 1..(Len(t) + Len(b)) : s[i] = IF i <= Len(t) THEN t[i] ELSE b[i - Len(t)]
  BY <1>2, ConcatProperties
<1>4. SubSeq(s, 1, Len(t)) = t /\ SubSeq(s, Len(t) + 1, Len(s)) = b
  BY <1>2, ConcatCut
<1> HIDE DEF s
<1>5. s[Len(a) + 1] = c
  BY <1>1, <1>2, <1>3
<1>6. \A i \in 1..Len(a) : s[i] = a[i]
  BY <1>1, <1>2, <1>3
<1>7. ASSUME NEW i \in 1..Len(b)
      PROVE  s[Len(a) + 1 + i] = b[i]
  <2>1. Len(a) + 1 + i \in 1..(Len(t) + Len(b)) /\ ~(Len(a) + 1 + i <= Len(t))
        /\ Len(a) + 1 + i - Len(t) = i
    BY <1>1, <1>2
  <2>2. PICK k \in 1..(Len(t) + Len(b)) : k = Len(a) + 1 + i
    BY <2>1
  <2>3. s[k] = b[k - Len(t)]
    BY <1>3, <2>1, <2>2
  <2>4. k - Len(t) = i
    BY <2>1, <2>2
  <2>5. s[k] = b[i]
    BY <2>3, <2>4
  <2> QED
    BY <2>2, <2>5
<1>8. SubSeq(s, 1, Len(a)) = a
  <2>1. Len(a) \in 0..Len(s)
    BY <1>1, <1>2, <1>3
  <2>2. /\ SubSeq(s, 1, Len(a)) \in Seq(S) /\ Len(SubSeq(s, 1, Len(a))) = Len(a)
        /\ \A j \in 1..Len(a) : SubSeq(s, 1, Len(a))[j] = s[j]
    BY <1>3, <2>1, BeginningOfSeq
  <2>3. \A j \in 1..Len(SubSeq(s, 1, Len(a))) : SubSeq(s, 1, Len(a))[j] = a[j]
    BY <1>6, <2>2
  <2> QED
    BY <2>2, <2>3, SeqEqual
<1>9. Len(t) + 1 = Len(a) + 2 /\ Len(t) + Len(b) = Len(a) + 1 + Len(b)
  BY <1>1, <1>2
<1> QED
  BY <1>3, <1>4, <1>5, <1>6, <1>7, <1>8, <1>9 DEF s, t

\* The first place of a character, and the last.
LEMMA FindFirst ==
  ASSUME NEW S, NEW a \in Seq(S), NEW c \in S, NEW b \in Seq(S), c \notin ToSet(a)
  PROVE  LET s == a \o <<c>> \o b IN
           Find(s, c) = Len(a) + 1 /\ Before(s, Find(s, c)) = a /\ After(s, Find(s, c)) = b
<1> DEFINE s == a \o <<c>> \o b
           I == {i \in 1..Len(s) : s[i] = c}
<1>1. Len(a) \in Nat /\ Len(b) \in Nat
  BY LenProperties
<1>2. /\ Len(s) = Len(a) + 1 + Len(b) /\ s[Len(a) + 1] = c
      /\ \A i \in 1..Len(a) : s[i] = a[i]
      /\ SubSeq(s, 1, Len(a)) = a /\ SubSeq(s, Len(a) + 2, Len(s)) = b
  BY Around
<1>3. Find(s, c) = IF I # {} THEN Min(I) ELSE 0
  BY DEF Find, SelectInSeq
<1> HIDE DEF s
<1>4. \A i \in 1..Len(a) : s[i] # c
  BY <1>2, LenProperties DEF ToSet
<1>5. Len(a) + 1 \in I /\ I \subseteq Nat /\ \A i \in I : Len(a) + 1 <= i
  BY <1>1, <1>2, <1>4
<1> HIDE DEF I
<1>6. Min(I) \in I /\ \A y \in I : Min(I) <= y
  BY <1>5, LeastIsThere
<1>7. Find(s, c) = Len(a) + 1
  <2>1. I # {} /\ Min(I) \in Nat
    BY <1>5, <1>6
  <2>2. Len(a) + 1 <= Min(I)
    BY <1>5, <1>6
  <2>3. Min(I) <= Len(a) + 1
    BY <1>5, <1>6
  <2>4. Find(s, c) = Min(I)
    BY <1>3, <2>1
  <2> QED
    BY <1>1, <2>1, <2>2, <2>3, <2>4
<1>8. Len(a) + 1 # 0 /\ Len(a) + 1 - 1 = Len(a) /\ Len(a) + 1 + 1 = Len(a) + 2
  BY <1>1
<1>9. Before(s, Len(a) + 1) = a /\ After(s, Len(a) + 1) = b
  BY <1>2, <1>8 DEF Before, After
<1> QED
  BY <1>7, <1>9 DEF s

LEMMA FindLastOne ==
  ASSUME NEW S, NEW a \in Seq(S), NEW c \in S, NEW b \in Seq(S), c \notin ToSet(b)
  PROVE  LET s == a \o <<c>> \o b IN
           /\ FindLast(s, c) = Len(a) + 1
           /\ Before(s, Len(a) + 1) = a /\ SubSeq(s, Len(a) + 2, Len(s)) = b
<1> DEFINE s == a \o <<c>> \o b
           I == {i \in 1..Len(s) : s[i] = c}
<1>1. Len(a) \in Nat /\ Len(b) \in Nat
  BY LenProperties
<1>2. /\ Len(s) = Len(a) + 1 + Len(b) /\ s[Len(a) + 1] = c
      /\ \A i \in 1..Len(b) : s[Len(a) + 1 + i] = b[i]
      /\ SubSeq(s, 1, Len(a)) = a /\ SubSeq(s, Len(a) + 2, Len(s)) = b
  BY Around
<1>3. FindLast(s, c) = IF I # {} THEN Max(I) ELSE 0
  BY DEF FindLast, SelectLastInSeq
<1> HIDE DEF s
<1>4. ASSUME NEW i \in 1..Len(s), i > Len(a) + 1
      PROVE  s[i] # c
  <2>1. i - Len(a) - 1 \in 1..Len(b) /\ Len(a) + 1 + (i - Len(a) - 1) = i
    BY <1>1, <1>2, <1>4
  <2>2. s[i] = b[i - Len(a) - 1]
    BY <1>2, <2>1
  <2> QED
    BY <2>1, <2>2, LenProperties DEF ToSet
<1>5. Len(a) + 1 \in I /\ I \subseteq 1..Len(s) /\ \A i \in I : i <= Len(a) + 1
  <2>1. Len(a) + 1 \in 1..Len(s)
    BY <1>1, <1>2
  <2>2. \A i \in I : i \in 1..Len(s) /\ ~(i > Len(a) + 1)
    BY <1>4
  <2> QED
    BY <1>1, <1>2, <2>1, <2>2
<1> HIDE DEF I
<1>6. Max(I) \in I /\ \A y \in I : Max(I) >= y
  <2>1. Len(s) \in Nat
    BY <1>1, <1>2
  <2> QED
    BY <1>5, <2>1, GreatestIsThere
<1>7. FindLast(s, c) = Len(a) + 1
  <2>1. I # {} /\ Max(I) \in Int
    <3>1. Len(s) \in Nat
      BY <1>1, <1>2
    <3>2. Max(I) \in 1..Len(s)
      BY <1>5, <1>6, Zenon
    <3> QED
      BY <1>5, <3>1, <3>2
  <2>2. Max(I) >= Len(a) + 1
    BY <1>5, <1>6
  <2>3. Max(I) <= Len(a) + 1
    BY <1>5, <1>6
  <2>4. FindLast(s, c) = Max(I)
    BY <1>3, <2>1
  <2> QED
    BY <1>1, <2>1, <2>2, <2>3, <2>4
<1>8. Len(a) + 1 # 0 /\ Len(a) + 1 - 1 = Len(a)
  BY <1>1
<1>9. Before(s, Len(a) + 1) = a
  BY <1>2, <1>8 DEF Before
<1> QED
  BY <1>2, <1>7, <1>9 DEF s

\* A text that holds a character, around the first place of it.
LEMMA CutAtFirst ==
  ASSUME NEW S, NEW s \in Seq(S), NEW c
  PROVE  /\ c \notin ToSet(Before(s, Find(s, c)))
         /\ Find(s, c) # 0 =>
              /\ c \in S
              /\ s = Before(s, Find(s, c)) \o <<c>> \o After(s, Find(s, c))
<1> DEFINE I == {i \in 1..Len(s) : s[i] = c}
           n == Find(s, c)
           a == Before(s, n)
           b == After(s, n)
<1>1. Len(s) \in Nat /\ DOMAIN s = 1..Len(s)
  BY LenProperties
<1>2. n = IF I # {} THEN Min(I) ELSE 0
  BY DEF Find, SelectInSeq
<1>3. a \in Seq(S) /\ b \in Seq(S)
  BY AroundFirst
<1>4. CASE I = {}
  <2>1. n = 0
    BY <1>2, <1>4
  <2>2. a = s
    BY <2>1 DEF Before
  <2>3. c \notin ToSet(s)
    BY <1>1, <1>4 DEF ToSet
  <2> QED
    BY <2>1, <2>2, <2>3
<1>5. CASE I # {}
  <2>1. I \subseteq Nat
    OBVIOUS
  <2>2. n \in I /\ \A y \in I : n <= y
    <3> HIDE DEF I, n
    <3> QED
      BY <1>2, <1>5, <2>1, LeastIsThere
  <2>3. n \in 1..Len(s) /\ s[n] = c /\ \A i \in 1..Len(s) : i < n => s[i] # c
    <3>1. \A i \in 1..Len(s) : s[i] = c => n <= i
      BY <2>2
    <3>2. n \in 1..Len(s) /\ s[n] = c
      BY <2>2
    <3> HIDE DEF n, I
    <3> QED
      BY <3>1, <3>2
  <2> HIDE DEF I, n
  <2>4. a = SubSeq(s, 1, n - 1) /\ b = SubSeq(s, n + 1, Len(s)) /\ n # 0
    BY <2>3 DEF Before, After
  <2>5. n - 1 \in 0..Len(s)
    BY <1>1, <2>3
  <2>6. Len(a) = n - 1 /\ \A j \in 1..(n - 1) : a[j] = s[j]
    BY <2>4, <2>5, BeginningOfSeq
  <2>7. c \notin ToSet(a)
    <3>1. DOMAIN a = 1..(n - 1)
      BY <1>3, <2>6, LenProperties
    <3>2. \A j \in 1..(n - 1) : j \in 1..Len(s) /\ j < n
      BY <1>1, <2>3
    <3> HIDE DEF a
    <3> QED
      BY <2>3, <2>6, <3>1, <3>2 DEF ToSet
  <2>8. c \in S
    BY <2>3, ElementOfSeq
  <2>9. s = a \o <<c>> \o b
    <3>1. SubSeq(s, 1, n) = Append(a, c)
      BY <2>3, <2>4, BeginningGrows
    <3>2. Append(a, c) = a \o <<c>>
      BY <1>3, <2>8, AppendIsConcat
    <3>3. SubSeq(s, 1, n) \o SubSeq(s, n + 1, Len(s)) = SubSeq(s, 1, Len(s))
      <4>1. 1 \in 1..(Len(s) + 1) /\ n \in (1 - 1)..Len(s) /\ Len(s) \in n..Len(s)
        BY <1>1, <2>3
      <4> QED
        BY <4>1, ConcatAdjacentSubSeq
    <3>4. SubSeq(s, 1, Len(s)) = s
      BY SubSeqFull
    <3> QED
      BY <2>4, <3>1, <3>2, <3>3, <3>4
  <2> QED
    BY <2>7, <2>8, <2>9 DEF n
<1> QED
  BY <1>4, <1>5

-----------------------------------------------------------------------------
(* Percent encoding.                                                       *)

LEMMA PercentIsText ==
  ASSUME NEW c
  PROVE  Percent(c) \in Text
<1>1. Digit(c) \in Words
  <2>1. CASE c \in Special
    BY <2>1, WordsAssumption
  <2>2. CASE c \notin Special
    <3>1. Digit(c) = Digit("?")
      BY <2>2, Zenon DEF Digit, Special
    <3>2. "?" \in Special
      BY DEF Special
    <3>3. Digit("?") \in Words
      BY <3>2, WordsAssumption
    <3> QED
      BY <3>1, <3>3
  <2> QED
    BY <2>1, <2>2
<1>2. PICK d \in Words : d = Digit(c)
  BY <1>1
<1>3. <<"%", "0x", d>> \in Seq(Words)
  BY WordsAssumption
<1> QED
  BY <1>2, <1>3 DEF Percent, Text

LEMMA EncodedIsText ==
  ASSUME NEW s \in Text, NEW chars
  PROVE  EncodeOnly(s, chars) \in Text
<1> DEFINE e == [i \in DOMAIN s |-> IF s[i] \in chars THEN Percent(s[i]) ELSE <<s[i]>>]
<1>1. DOMAIN s = 1..Len(s) /\ Len(s) \in Nat /\ \A i \in 1..Len(s) : s[i] \in Words
  BY LenProperties, ElementOfSeq DEF Text
<1>2. ASSUME NEW i \in 1..Len(s)
      PROVE  e[i] \in Seq(Words)
  <2>1. PICK w \in Words : w = s[i]
    BY <1>1
  <2>2. <<w>> \in Seq(Words) /\ Percent(w) \in Seq(Words)
    BY PercentIsText DEF Text
  <2>3. e[i] = IF w \in chars THEN Percent(w) ELSE <<w>>
    BY <1>1, <2>1
  <2> QED
    BY <2>2, <2>3
<1>3. e = [i \in 1..Len(s) |-> e[i]]
  BY <1>1
<1> HIDE DEF e
<1>4. e \in Seq(Seq(Words))
  BY <1>1, <1>2, <1>3
<1>5. FlattenSeq(e) \in Seq(Words)
  BY <1>4, FlattenType
<1> QED
  BY <1>5 DEF EncodeOnly, e, Text

Users == [name : Text, thrown : BOOLEAN]

LEMMA EncodeAtType ==
  ASSUME NEW user \in Users, NEW i \in Nat \ {0}
  PROVE  EncodeAt(user, i) \in Users
<1> DEFINE name == user.name
<1>1. name \in Seq(Words) /\ Len(name) \in Nat /\ DOMAIN name = 1..Len(name)
  BY LenProperties DEF Users, Text
<1>2. CASE i \in DOMAIN name
  <2>1. /\ SubSeq(name, 1, i - 1) \in Seq(Words)
        /\ After(name, i) \in Seq(Words)
    <3>1. i - 1 \in Int /\ i - 1 <= Len(name) /\ i \in 0..(Len(name) + 1)
      BY <1>1, <1>2
    <3> QED
      BY <1>1, <3>1, PartOfText, BeforeAfter
  <2>2. SubSeq(name, 1, i - 1) \o Percent(name[i]) \o After(name, i) \in Seq(Words)
    BY <2>1, PercentIsText, ConcatProperties DEF Text
  <2> QED
    BY <2>2 DEF EncodeAt, Users, Text
<1>3. CASE i \notin DOMAIN name
  BY <1>3 DEF EncodeAt, Users
<1> QED
  BY <1>2, <1>3

LEMMA EncodeUserType ==
  ASSUME NEW user \in Users, NEW name \in Text
  PROVE  EncodeUser(user, name) \in Users
<1> DEFINE N == Len(name)
           next == [p \in Users \X (1..N) |->
                      IF name[p[2]] \in Special THEN EncodeAt(p[1], p[2]) ELSE p[1]]
           done[n \in 0..N] ==
             IF n = 0 THEN user
             ELSE IF name[n] \in Special THEN EncodeAt(done[n - 1], n) ELSE done[n - 1]
<1>1. N \in Nat
  BY LenProperties DEF Text
<1>2. next \in Steps(Users, N)
  <2>1. \A v \in Users, n \in 1..N : EncodeAt(v, n) \in Users
    BY EncodeAtType
  <2> QED
    BY <2>1 DEF Steps
<1>3. \A v \in Users, n \in 1..N :
        next[<<v, n>>] = IF name[n] \in Special THEN EncodeAt(v, n) ELSE v
  OBVIOUS
<1> HIDE DEF N, next
<1>4. PICK f \in [0..N -> Users] :
        f[0] = user /\ \A n \in 1..N : f[n] = next[<<f[n - 1], n>>]
  <2>1. CanFollow(N, Users, user, next)
    BY <1>1, <1>2, RecursionUpTo
  <2> QED
    BY <2>1 DEF CanFollow, Follows
<1>5. f = [n \in 0..N |->
             IF n = 0 THEN user
             ELSE IF name[n] \in Special THEN EncodeAt(f[n - 1], n) ELSE f[n - 1]]
  <2>1. ASSUME NEW n \in 0..N, n # 0
        PROVE  f[n] = IF name[n] \in Special THEN EncodeAt(f[n - 1], n) ELSE f[n - 1]
    <3>1. n \in 1..N /\ n - 1 \in 0..N
      BY <1>1, <2>1
    <3>2. f[n - 1] \in Users
      BY <3>1
    <3> QED
      BY <1>3, <1>4, <3>1, <3>2
  <2>2. f = [n \in 0..N |-> f[n]]
    OBVIOUS
  <2> QED
    BY <1>4, <2>1, <2>2
<1>6. done = [n \in 0..N |->
                IF n = 0 THEN user
                ELSE IF name[n] \in Special THEN EncodeAt(done[n - 1], n)
                     ELSE done[n - 1]]
  BY <1>5, Zenon
<1> HIDE DEF done
<1>7. \A n \in 0..N : done[n] \in Users
  <2> DEFINE T == {n \in 0..N : done[n] \in Users}
  <2>1. 0 \in T
    BY <1>1, <1>6
  <2>2. \A n \in 1..N : n - 1 \in T => n \in T
    <3> SUFFICES ASSUME NEW n \in 1..N, n - 1 \in T
                 PROVE  n \in T
      OBVIOUS
    <3>1. n \in 0..N /\ n # 0 /\ n \in Nat \ {0}
      BY <1>1
    <3>2. done[n] = IF name[n] \in Special THEN EncodeAt(done[n - 1], n)
                    ELSE done[n - 1]
      BY <1>6, <3>1
    <3>3. EncodeAt(done[n - 1], n) \in Users
      BY <3>1, EncodeAtType
    <3> QED
      BY <3>1, <3>2, <3>3
  <2> HIDE DEF T
  <2>3. \A n \in 0..N : n \in T
    BY <1>1, <2>1, <2>2, InductionUpTo
  <2> QED
    BY <2>3 DEF T
<1>8. EncodeUser(user, name) = done[N]
  BY DEF EncodeUser, done, N
<1> QED
  BY <1>1, <1>7, <1>8

-----------------------------------------------------------------------------
(* The members of an Url.                                                  *)

UrlRecord ==
  [scheme : Text, user : Text, password : Text, host : Text, port : Text,
   local : Ports, path : Text, query : Text, fragment : Text,
   ips : Seq(Addresses), error : UrlErrors, valid : BOOLEAN]

\* What a step leaves alone that decides about the addresses.
SameAddresses(u, v) == v.host = u.host /\ v.ips = u.ips /\ v.error = u.error

LEMMA BlankType == Blank \in UrlRecord
<1>1. <<>> \in Text /\ <<>> \in Seq(Addresses)
  BY EmptySeq DEF Text
<1>2. 0 \in Ports
  BY DEF Ports
<1> QED
  BY <1>1, <1>2 DEF Blank, UrlRecord, UrlErrors

LEMMA WithPortType ==
  ASSUME NEW u \in UrlRecord, NEW text \in Text
  PROVE  /\ WithPort(u, text) \in UrlRecord
         /\ SameAddresses(u, WithPort(u, text)) /\ WithPort(u, text).valid = u.valid
<1> DEFINE n == IF PortThrows(text) THEN u.local ELSE Number[text[1]] % 65536
<1>1. n \in Ports
  <2>1. ~PortThrows(text) => Number[text[1]] \in Int
    <3>1. \A word \in DOMAIN Number : Number[word] \in Int
      BY UrlAssumption, Zenon
    <3> QED
      BY <3>1 DEF PortThrows
  <2> DEFINE m == 65536
  <2>2. m \in Nat \ {0}
    OBVIOUS
  <2>3. 0..(m - 1) = Ports
    BY DEF Ports
  <2>4. u.local \in Ports
    BY DEF UrlRecord
  <2>5. n = IF PortThrows(text) THEN u.local ELSE Number[text[1]] % m
    OBVIOUS
  <2> HIDE DEF n, m
  <2>6. \A x \in Int : x % m \in 0..(m - 1)
    BY <2>2
  <2> QED
    BY <2>1, <2>3, <2>4, <2>5, <2>6
<1>2. WithPort(u, text) = [u EXCEPT !.port = text, !.local = n]
  BY DEF WithPort
<1> HIDE DEF n
<1> QED
  BY <1>1, <1>2, Zenon DEF UrlRecord, SameAddresses

LEMMA WithSchemeType ==
  ASSUME NEW u \in UrlRecord, NEW scheme \in Text
  PROVE  /\ WithScheme(u, scheme) \in UrlRecord
         /\ SameAddresses(u, WithScheme(u, scheme))
         /\ WithScheme(u, scheme).valid = u.valid
<1> DEFINE v == [u EXCEPT !.scheme = scheme]
<1>1. v \in UrlRecord /\ SameAddresses(u, v) /\ v.valid = u.valid
  BY DEF UrlRecord, SameAddresses
<1>2. CASE \E s \in DOMAIN DefaultPort : scheme = <<s>>
  <2>1. PICK s \in DOMAIN DefaultPort : scheme = <<s>>
    BY <1>2
  <2>2. scheme[1] = s
    BY <2>1
  <2>3. DefaultPort[s] \in Ports /\ <<DefaultPortText[s]>> \in Text
    <3>1. DefaultPort[s] \in Ports
      <4>1. \A n \in 0..1000 : n \in Ports
        BY DEF Ports
      <4>2. DefaultPort[s] \in {20, 22, 25, 80, 143, 443, 995}
        BY DEF DefaultPort
      <4> QED
        BY <4>1, <4>2
    <3>2. DefaultPortText[s] \in Words
      BY WordsAssumption DEF DefaultPort, DefaultPortText
    <3> QED
      BY <3>1, <3>2 DEF Text
  <2>4. WithScheme(u, scheme) =
          [v EXCEPT !.port = <<DefaultPortText[s]>>, !.local = DefaultPort[s]]
    BY <1>2, <2>2 DEF WithScheme
  <2> HIDE DEF v
  <2> QED
    BY <1>1, <2>3, <2>4 DEF UrlRecord, SameAddresses
<1>3. CASE ~\E s \in DOMAIN DefaultPort : scheme = <<s>>
  BY <1>1, <1>3 DEF WithScheme
<1> QED
  BY <1>2, <1>3

\* What the resolver says: addresses of the host, an error, or nothing at all.
LEMMA AnswersType ==
  ASSUME NEW host, NEW answer \in Answers(host)
  PROVE  /\ answer.ips \in Seq(Addresses) /\ answer.error \in UrlErrors
         /\ ToSet(answer.ips) \subseteq AddressesOf(host)
         /\ answer.error = "none" /\ answer.ips = <<>> => answer = Silence
<1>1. ToSet(<<>>) = {} /\ <<>> \in Seq(Addresses)
  BY EmptySeq DEF ToSet
<1>2. CASE answer = Silence
  BY <1>1, <1>2 DEF Silence, Answer, UrlErrors
<1>3. CASE answer \in {Answer(<<>>, "TRY_AGAIN_ERROR"), Answer(<<>>, "NOT_FOUND_ERROR")}
  <2>1. answer.ips = <<>> /\ answer.error \in {"TRY_AGAIN_ERROR", "NOT_FOUND_ERROR"}
    BY <1>3 DEF Answer
  <2> QED
    BY <1>1, <2>1 DEF UrlErrors
<1>4. CASE host \in DOMAIN Directory /\ answer = Answer(Directory[host], "none")
  <2>1. /\ Directory[host] \in Seq(Addresses) /\ Directory[host] # <<>>
        /\ AddressesOf(host) = ToSet(Directory[host])
    BY <1>4, UrlAssumption DEF AddressesOf
  <2> QED
    BY <1>4, <2>1 DEF Answer, UrlErrors
<1> QED
  BY <1>2, <1>3, <1>4 DEF Answers

\* The addresses of a host that is resolved come behind the others.
LEMMA WithHostType ==
  ASSUME NEW u \in UrlRecord, NEW host \in Text, NEW answer \in Answers(host)
  PROVE  /\ WithHost(u, host, answer) \in UrlRecord
         /\ WithHost(u, host, answer).host = host
         /\ WithHost(u, host, answer).valid = u.valid
         /\ WithHost(u, host, answer).ips = u.ips \o answer.ips
         /\ WithHost(u, host, answer).error = "none" =>
              u.error = "none" /\ answer.error = "none"
<1> DEFINE ips == u.ips \o answer.ips
           error == IF answer.error = "none" THEN u.error ELSE answer.error
           v == WithHost(u, host, answer)
<1>1. answer.ips \in Seq(Addresses) /\ answer.error \in UrlErrors
  BY AnswersType
<1>2. ips \in Seq(Addresses)
  <2>1. u.ips \in Seq(Addresses)
    BY DEF UrlRecord
  <2> QED
    BY <1>1, <2>1, ConcatProperties
<1>3. error \in UrlErrors /\ (error = "none" => u.error = "none" /\ answer.error = "none")
  BY <1>1 DEF UrlRecord
<1>4. v = [u EXCEPT !.host = host, !.ips = ips, !.error = error]
  BY DEF WithHost
<1> HIDE DEF ips, error, v
<1>5. /\ v \in UrlRecord /\ v.host = host /\ v.valid = u.valid
      /\ v.ips = ips /\ v.error = error
  BY <1>2, <1>3, <1>4 DEF UrlRecord
<1> QED
  BY <1>3, <1>5 DEF v, ips

LEMMA WithUserInfoType ==
  ASSUME NEW u \in UrlRecord, NEW info \in Text
  PROVE  /\ WithUserInfo(u, info) \in UrlRecord
         /\ SameAddresses(u, WithUserInfo(u, info))
         /\ WithUserInfo(u, info).valid = u.valid
<1>1. Before(info, Find(info, ":")) \in Text /\ After(info, Find(info, ":")) \in Text
  BY AroundFirst DEF Text
<1> QED
  BY <1>1 DEF WithUserInfo, UrlRecord, SameAddresses

LEMMA WithUserType ==
  ASSUME NEW u \in UrlRecord, NEW name \in Text, NEW word \in Text
  PROVE  /\ WithUser(u, name, word) \in UrlRecord
         /\ SameAddresses(u, WithUser(u, name, word))
         /\ WithUser(u, name, word).valid = u.valid
<1> DEFINE once == EncodeUser([name |-> name, thrown |-> FALSE], name)
           twice == EncodeUser(once, name)
<1>1. once \in Users /\ twice \in Users
  <2>1. [name |-> name, thrown |-> FALSE] \in Users
    BY DEF Users
  <2> QED
    BY <2>1, EncodeUserType
<1>2. twice.name \in Text
  BY <1>1 DEF Users
<1>3. WithUser(u, name, word) =
        [u EXCEPT !.user = twice.name, !.password = IF once.thrown THEN @ ELSE word]
  BY DEF WithUser
<1> HIDE DEF once, twice
<1>4. CASE once.thrown
  BY <1>2, <1>3, <1>4 DEF UrlRecord, SameAddresses
<1>5. CASE ~once.thrown
  BY <1>2, <1>3, <1>5 DEF UrlRecord, SameAddresses
<1> QED
  BY <1>4, <1>5

-----------------------------------------------------------------------------
(* The constructor.                                                        *)

LEMMA WithTailType ==
  ASSUME NEW u \in UrlRecord, NEW tail \in Text
  PROVE  WithTail(u, tail) \in UrlRecord /\ SameAddresses(u, WithTail(u, tail))
<1> DEFINE path == Before(tail, Find(tail, "?"))
           behind == After(tail, Find(tail, "?"))
           query == Before(behind, Find(behind, "#"))
           fragment == After(behind, Find(behind, "#"))
<1>1. path \in Text /\ behind \in Text
  BY AroundFirst DEF Text
<1>2. query \in Text /\ fragment \in Text
  BY <1>1, AroundFirst DEF Text
<1>3. WithTail(u, tail) =
        [u EXCEPT !.path = path, !.query = query, !.fragment = fragment, !.valid = TRUE]
  BY DEF WithTail
<1> HIDE DEF path, query, fragment
<1> DEFINE v == [u EXCEPT !.path = path, !.query = query]
<1>4. v \in UrlRecord /\ SameAddresses(u, v)
  BY <1>1, <1>2 DEF UrlRecord, SameAddresses
<1>5. WithTail(u, tail) = [v EXCEPT !.fragment = fragment, !.valid = TRUE]
  BY <1>3
<1> HIDE DEF v
<1>6. WithTail(u, tail) \in UrlRecord /\ SameAddresses(v, WithTail(u, tail))
  BY <1>2, <1>4, <1>5 DEF UrlRecord, SameAddresses
<1> QED
  BY <1>4, <1>6 DEF SameAddresses

\* The host of an authority.
HostIn(authority) == Before(SiteOf(authority), Find(SiteOf(authority), ":"))

LEMMA SiteParts ==
  ASSUME NEW S, NEW authority \in Seq(S)
  PROVE  /\ SiteOf(authority) \in Seq(S)
         /\ HostIn(authority) \in Seq(S)
         /\ After(SiteOf(authority), Find(SiteOf(authority), ":")) \in Seq(S)
         /\ Before(authority, FindLast(authority, "@")) \in Seq(S)
<1>1. SiteOf(authority) \in Seq(S)
  <2>1. /\ FindLast(authority, "@") + 1 \in Nat \ {0}
        /\ Len(authority) \in Int /\ Len(authority) <= Len(authority)
    BY FindPlace, LenProperties
  <2> QED
    BY <2>1, PartOfText DEF SiteOf
<1> QED
  BY <1>1, AroundFirst DEF HostIn

LEMMA SiteType ==
  ASSUME NEW authority \in Text
  PROVE  /\ SiteOf(authority) \in Text
         /\ HostIn(authority) \in Text
         /\ After(SiteOf(authority), Find(SiteOf(authority), ":")) \in Text
         /\ Before(authority, FindLast(authority, "@")) \in Text
BY SiteParts DEF Text

\* An authority gives an Url the address that its host stands for, or what the resolver
\* says of the host that is named in it.
LEMMA WithAuthorityType ==
  ASSUME NEW u \in UrlRecord, u.host = <<>>, u.ips = <<>>, NEW authority \in Text,
         NEW answer \in Answers(HostIn(authority))
  PROVE  LET v == WithAuthority(u, authority, answer) IN
           /\ v \in UrlRecord
           /\ v.valid = u.valid
           /\ v.error = "none" /\ v.host # <<>> =>
                v.host = HostIn(authority) /\ v.ips = answer.ips /\ answer.error = "none"
<1> DEFINE at == FindLast(authority, "@")
           site == SiteOf(authority)
           colon == Find(site, ":")
           host == HostIn(authority)
           v == IF at = 0 THEN u ELSE WithUserInfo(u, Before(authority, at))
           w == IF colon = 0 THEN v ELSE WithPort(v, After(site, colon))
           x == WithAuthority(u, authority, answer)
<1>1. host \in Text
  BY SiteType
<1>2. v \in UrlRecord /\ SameAddresses(u, v) /\ v.valid = u.valid
  <2>1. CASE at = 0
    BY <2>1 DEF SameAddresses
  <2>2. CASE at # 0
    BY <2>2, SiteType, WithUserInfoType
  <2> QED
    BY <2>1, <2>2
<1> HIDE DEF v
<1>3. w \in UrlRecord /\ SameAddresses(v, w) /\ w.valid = v.valid
  <2>1. CASE colon = 0
    BY <1>2, <2>1 DEF SameAddresses
  <2>2. CASE colon # 0
    BY <1>2, <2>2, SiteType, WithPortType
  <2> QED
    BY <2>1, <2>2
<1>4. w.host = <<>> /\ w.ips = <<>> /\ w.valid = u.valid
  BY <1>2, <1>3 DEF SameAddresses
<1>5. x = IF \E a \in Addresses : host = <<a>> THEN [w EXCEPT !.ips = host]
          ELSE IF \E d \in Dotted : host = <<d>>
                 THEN [w EXCEPT !.error = "IP_CONVERTER_ERROR"]
          ELSE WithHost(w, host, answer)
  BY DEF WithAuthority, HostIn, v
<1> HIDE DEF w, x, host
<1>6. CASE \E a \in Addresses : host = <<a>>
  <2>1. x = [w EXCEPT !.ips = host]
    BY <1>5, <1>6
  <2>2. host \in Seq(Addresses)
    BY <1>6
  <2>3. x \in UrlRecord /\ x.host = w.host /\ x.valid = w.valid
    BY <1>3, <2>1, <2>2 DEF UrlRecord
  <2> QED
    BY <1>4, <2>3 DEF x
<1>7. CASE ~(\E a \in Addresses : host = <<a>>) /\ \E d \in Dotted : host = <<d>>
  <2>1. x = [w EXCEPT !.error = "IP_CONVERTER_ERROR"]
    BY <1>5, <1>7
  <2>2. x \in UrlRecord /\ x.host = w.host /\ x.valid = w.valid
    BY <1>3, <2>1 DEF UrlRecord, UrlErrors
  <2> QED
    BY <1>4, <2>2 DEF x
<1>8. CASE ~(\E a \in Addresses : host = <<a>>) /\ ~\E d \in Dotted : host = <<d>>
  <2>1. x = WithHost(w, host, answer)
    BY <1>5, <1>8
  <2>2. answer \in Answers(host)
    BY DEF host
  <2>3. /\ x \in UrlRecord /\ x.host = host /\ x.valid = w.valid
        /\ x.ips = w.ips \o answer.ips /\ (x.error = "none" => answer.error = "none")
    BY <1>1, <1>3, <2>1, <2>2, WithHostType
  <2>4. x.ips = answer.ips
    <3>1. x.ips = <<>> \o answer.ips
      BY <1>4, <2>3
    <3>2. answer.ips \in Seq(Addresses)
      BY <2>2, AnswersType
    <3>3. <<>> \o answer.ips = answer.ips
      BY <3>2, ConcatEmptySeq
    <3> QED
      BY <3>1, <3>3
  <2> QED
    BY <1>4, <2>3, <2>4 DEF x, host
<1> QED
  BY <1>6, <1>7, <1>8

\* Two slashes of a text stand at a place in it, if there are any.
LEMMA RestParts ==
  ASSUME NEW S, NEW rest \in Seq(S)
  PROVE  /\ Slashes(rest) # 0 => BodyOf(rest) \in Seq(S)
         /\ AuthorityOf(rest) \in Seq(S)
         /\ TailOf(rest) \in Seq(S)
<1> DEFINE body == BodyOf(rest)
           end == AuthorityEnd(rest)
<1>1. Len(rest) \in Nat
  BY LenProperties
<1>2. <<>> \in Seq(S)
  BY EmptySeq
<1>3. CASE Slashes(rest) = 0
  BY <1>2, <1>3 DEF AuthorityOf, TailOf
<1>4. CASE Slashes(rest) # 0
  <2>1. body \in Seq(S) /\ Len(body) \in Nat
    <3>1. SubSeq(rest, 3, Len(rest)) \in Seq(S)
      <4>1. Len(rest) \in Int /\ Len(rest) <= Len(rest) /\ 3 \in Nat \ {0}
        BY <1>1
      <4> QED
        BY <4>1, PartOfText
    <3> QED
      BY <1>4, <3>1, LenProperties DEF BodyOf
  <2>2. Slashes(rest) \in Nat \ {0}
    <3> DEFINE pairs == [i \in 1..(Len(rest) - 1) |-> <<rest[i], rest[i + 1]>>]
               P == {i \in 1..Len(pairs) : pairs[i] = <<"/", "/">>}
    <3>1. Slashes(rest) = IF P # {} THEN Min(P) ELSE 0
      BY DEF Slashes, SelectInSeq
    <3> HIDE DEF pairs
    <3>2. P \subseteq Nat \ {0}
      OBVIOUS
    <3>3. P # {} => Min(P) \in P
      BY <3>2, LeastIsThere
    <3> HIDE DEF P
    <3> QED
      BY <1>4, <3>1, <3>2, <3>3
  <2>3. end \in 0..Len(body)
    <3> DEFINE P == {i \in Slashes(rest)..Len(body) : body[i] = "/"}
    <3>1. end = IF P = {} THEN 0 ELSE Min(P)
      BY DEF AuthorityEnd, SelectInSubSeq
    <3>2. P \subseteq Nat /\ \A i \in P : i \in 0..Len(body)
      BY <2>1, <2>2
    <3>3. P # {} => Min(P) \in P
      BY <3>2, LeastIsThere
    <3> HIDE DEF P, end, body
    <3> QED
      BY <2>1, <3>1, <3>2, <3>3
  <2>4. Before(body, end) \in Seq(S)
    <3>1. end \in 0..(Len(body) + 1)
      BY <2>1, <2>3
    <3> QED
      BY <2>1, <3>1, BeforeAfter
  <2>5. end # 0 => SubSeq(body, end, Len(body)) \in Seq(S)
    <3>1. end # 0 => end \in Nat \ {0}
      BY <2>1, <2>3
    <3>2. Len(body) \in Int /\ Len(body) <= Len(body)
      BY <2>1
    <3> QED
      BY <2>1, <3>1, <3>2, PartOfText
  <2> QED
    BY <1>2, <1>4, <2>1, <2>4, <2>5 DEF AuthorityOf, TailOf
<1> QED
  BY <1>3, <1>4

LEMMA PartsType ==
  ASSUME NEW rest \in Text
  PROVE  /\ Slashes(rest) # 0 => BodyOf(rest) \in Text
         /\ AuthorityOf(rest) \in Text
         /\ TailOf(rest) \in Text
BY RestParts DEF Text

LEMMA ParseType ==
  ASSUME NEW text \in Text, NEW answer \in Answers(HostOf(text))
  PROVE  LET u == Parse(text, answer) IN
           /\ u \in UrlRecord
           /\ u.valid => u.error = "none"
           /\ u.error = "none" /\ u.host # <<>> =>
                u.host = HostOf(text) /\ u.ips = answer.ips /\ answer.error = "none"
<1> DEFINE rest == RestOf(text)
           u == WithScheme(Blank, SchemeOf(text))
           v == IF Slashes(rest) = 0 THEN u
                ELSE WithAuthority(u, AuthorityOf(rest), answer)
           p == Parse(text, answer)
<1>1. SchemeOf(text) \in Text /\ rest \in Text
  BY AroundFirst DEF SchemeOf, RestOf, Text
<1>2. u \in UrlRecord /\ u.host = <<>> /\ u.ips = <<>> /\ u.valid = FALSE
  <2>1. Blank \in UrlRecord /\ SameAddresses(Blank, u) /\ u.valid = Blank.valid
    BY <1>1, BlankType, WithSchemeType
  <2>2. Blank.host = <<>> /\ Blank.ips = <<>> /\ Blank.valid = FALSE
    BY DEF Blank
  <2>3. u \in UrlRecord
    BY <1>1, BlankType, WithSchemeType
  <2> QED
    BY <2>1, <2>2, <2>3 DEF SameAddresses
<1>3. HostOf(text) = HostIn(AuthorityOf(rest))
  BY DEF HostOf, HostIn
<1>4. p = IF Find(text, ":") = 0 THEN [Blank EXCEPT !.error = "BAD_URL_FORMAT"]
          ELSE IF v.error # "none" THEN v
          ELSE WithTail(v, TailOf(rest))
  BY DEF Parse
<1> HIDE DEF u
<1>5. /\ v \in UrlRecord /\ v.valid = FALSE
      /\ v.error = "none" /\ v.host # <<>> =>
           v.host = HostOf(text) /\ v.ips = answer.ips /\ answer.error = "none"
  <2>1. CASE Slashes(rest) = 0
    BY <1>2, <2>1
  <2>2. CASE Slashes(rest) # 0
    <3>1. AuthorityOf(rest) \in Text /\ answer \in Answers(HostIn(AuthorityOf(rest)))
      BY <1>1, <1>3, PartsType
    <3>2. v = WithAuthority(u, AuthorityOf(rest), answer)
      BY <2>2
    <3> HIDE DEF v
    <3> QED
      BY <1>2, <1>3, <3>1, <3>2, WithAuthorityType
  <2> QED
    BY <2>1, <2>2
<1>6. TailOf(rest) \in Text
  BY <1>1, PartsType
<1> HIDE DEF rest, v, p
<1>7. CASE Find(text, ":") = 0
  <2>1. p = [Blank EXCEPT !.error = "BAD_URL_FORMAT"]
    BY <1>4, <1>7
  <2>2. p \in UrlRecord /\ p.valid = Blank.valid /\ p.error = "BAD_URL_FORMAT"
    BY <2>1, BlankType DEF UrlRecord, UrlErrors
  <2>3. Blank.valid = FALSE
    BY DEF Blank
  <2> QED
    BY <2>2, <2>3 DEF p
<1>8. CASE Find(text, ":") # 0 /\ v.error # "none"
  <2>1. p = v
    BY <1>4, <1>8
  <2> QED
    BY <1>5, <1>8, <2>1 DEF p
<1>9. CASE Find(text, ":") # 0 /\ v.error = "none"
  <2>1. p = WithTail(v, TailOf(rest))
    BY <1>4, <1>9
  <2>2. p \in UrlRecord /\ SameAddresses(v, p)
    BY <1>5, <1>6, <2>1, WithTailType
  <2>3. p.host = v.host /\ p.ips = v.ips /\ p.error = v.error
    BY <2>2 DEF SameAddresses
  <2> QED
    BY <1>5, <1>9, <2>2, <2>3 DEF p
<1> QED
  BY <1>7, <1>8, <1>9

-----------------------------------------------------------------------------
(* The addresses of an Url.                                                *)

\* What the hosts that were resolved have to do with the host and the addresses
\* of the object.
HostsAgree ==
  /\ url.host = <<>> => named = {} /\ url.ips = <<>>
  /\ url.host # <<>> => url.host \in named
  /\ url.error = "none" /\ named = {url.host} =>
       /\ ToSet(url.ips) \subseteq AddressesOf(url.host)
       /\ url.ips = <<>> => silent

AddressInv ==
  /\ url \in UrlRecord
  /\ IsFiniteSet(named) /\ given \in BOOLEAN
  /\ url.valid => url.error = "none"
  /\ ~given => HostsAgree

LEMMA TextsAreInputs ==
  /\ UrlInputs.texts \subseteq Text
  /\ UrlInputs.schemes \subseteq Text
  /\ UrlInputs.hosts \subseteq Text \ {<<>>}
  /\ UrlInputs.users \subseteq Text
  /\ UrlInputs.passwords \subseteq Text
  /\ UrlInputs.ports \subseteq Text
  /\ UrlInputs.paths \subseteq Text
  /\ UrlInputs.queries \subseteq Text
  /\ UrlInputs.fragments \subseteq Text
BY UrlAssumption

LEMMA AddressInvInit == UrlInit => AddressInv
<1> SUFFICES ASSUME UrlInit PROVE AddressInv
  OBVIOUS
<1>1. CASE /\ url = [Blank EXCEPT !.valid = TRUE]
           /\ named = {} /\ given = FALSE /\ silent = FALSE
  <2>1. /\ url \in UrlRecord /\ url.host = Blank.host /\ url.ips = Blank.ips
        /\ url.error = Blank.error
    BY <1>1, BlankType DEF UrlRecord
  <2>2. Blank.host = <<>> /\ Blank.ips = <<>> /\ Blank.error = "none"
    BY DEF Blank
  <2>3. IsFiniteSet(named)
    BY <1>1, FS_EmptySet
  <2>4. HostsAgree
    BY <1>1, <2>1, <2>2 DEF HostsAgree
  <2> QED
    BY <1>1, <2>1, <2>2, <2>3, <2>4 DEF AddressInv
<1>2. CASE \E text \in UrlInputs.texts : \E answer \in Answers(HostOf(text)) :
             /\ url = Parse(text, answer)
             /\ named = {url.host} \ {<<>>}
             /\ given = (url.host = <<>> /\ url.ips # <<>>)
             /\ silent = (url.host # <<>> /\ answer = Silence)
  <2> PICK text \in UrlInputs.texts :
        \E answer \in Answers(HostOf(text)) :
          /\ url = Parse(text, answer)
          /\ silent = (url.host # <<>> /\ answer = Silence)
    BY <1>2
  <2>1. PICK answer \in Answers(HostOf(text)) :
               /\ url = Parse(text, answer)
               /\ silent = (url.host # <<>> /\ answer = Silence)
    OBVIOUS
  <2>2. /\ url \in UrlRecord
        /\ url.valid => url.error = "none"
        /\ url.error = "none" /\ url.host # <<>> =>
             url.host = HostOf(text) /\ url.ips = answer.ips /\ answer.error = "none"
    BY <2>1, ParseType, TextsAreInputs
  <2>3. IsFiniteSet(named)
    BY <1>2, FS_Singleton, FS_Subset
  <2>4. ASSUME ~given PROVE HostsAgree
    <3>1. url.host = <<>> => named = {} /\ url.ips = <<>>
      BY <1>2, <2>4
    <3>2. url.host # <<>> => named = {url.host}
      BY <1>2
    <3>3. ASSUME url.error = "none", named = {url.host}
          PROVE  /\ ToSet(url.ips) \subseteq AddressesOf(url.host)
                 /\ url.ips = <<>> => silent
      <4>1. /\ url.host = HostOf(text) /\ url.host # <<>>
            /\ url.ips = answer.ips /\ answer.error = "none"
        BY <2>2, <3>1, <3>3
      <4> QED
        BY <2>1, <4>1, AnswersType
    <3> QED
      BY <3>1, <3>2, <3>3 DEF HostsAgree
  <2>5. given \in BOOLEAN
    BY <1>2
  <2> QED
    BY <2>2, <2>3, <2>4, <2>5 DEF AddressInv
<1> QED
  BY <1>1, <1>2 DEF UrlInit

\* A call that leaves the host, the addresses and the error alone and validates
\* nothing.
LEMMA QuietCall ==
  ASSUME AddressInv, url' \in UrlRecord, SameAddresses(url, url'),
         url'.valid => url.valid, UNCHANGED <<named, given, silent>>
  PROVE  AddressInv'
<1>1. url'.host = url.host /\ url'.ips = url.ips /\ url'.error = url.error
  BY DEF SameAddresses
<1>2. HostsAgree => HostsAgree'
  BY <1>1 DEF HostsAgree
<1> QED
  BY <1>1, <1>2 DEF AddressInv

\* A call that goes wrong: the Url is marked.
LEMMA BadCall ==
  ASSUME AddressInv, url' \in UrlRecord, url'.host = url.host, url'.ips = url.ips,
         url'.error # "none", url'.valid = FALSE, UNCHANGED <<named, given, silent>>
  PROVE  AddressInv'
<1>1. HostsAgree => HostsAgree'
  BY DEF HostsAgree
<1> QED
  BY <1>1 DEF AddressInv

LEMMA AddressInvSetScheme ==
  ASSUME AddressInv, NEW scheme \in UrlInputs.schemes, SetScheme(scheme)
  PROVE  AddressInv'
<1>1. url \in UrlRecord /\ scheme \in Text
  BY TextsAreInputs DEF AddressInv
<1>2. CASE ToSet(scheme) \cap Special = {}
  <2>1. url' = WithScheme(url, scheme) /\ UNCHANGED <<named, given, silent>>
    BY <1>2 DEF SetScheme, Put
  <2> QED
    BY <1>1, <2>1, WithSchemeType, QuietCall
<1>3. CASE ToSet(scheme) \cap Special # {}
  <2>1. url' = [url EXCEPT !.valid = FALSE] /\ UNCHANGED <<named, given, silent>>
    BY <1>3 DEF SetScheme, Put
  <2>2. url' \in UrlRecord /\ SameAddresses(url, url') /\ url'.valid = FALSE
    BY <1>1, <2>1 DEF UrlRecord, SameAddresses
  <2> QED
    BY <2>1, <2>2, QuietCall
<1> QED
  BY <1>2, <1>3

\* When the host is the only one that was ever set, its addresses follow none or
\* their own.
LEMMA AddressInvSetAuthority ==
  ASSUME AddressInv, NEW host \in UrlInputs.hosts, NEW name \in UrlInputs.users,
         NEW word \in UrlInputs.passwords, SetAuthority(host, name, word)
  PROVE  AddressInv'
<1>1. /\ url \in UrlRecord /\ host \in Text /\ host # <<>>
      /\ name \in Text /\ word \in Text
  BY TextsAreInputs DEF AddressInv
<1>2. CASE ToSet(host) \cap Special # {}
  <2>1. /\ url' = [url EXCEPT !.error = "BAD_HOST_FORMAT", !.valid = FALSE]
        /\ UNCHANGED <<named, given, silent>>
    BY <1>2 DEF SetAuthority
  <2>2. /\ url' \in UrlRecord /\ url'.host = url.host /\ url'.ips = url.ips
        /\ url'.error # "none" /\ url'.valid = FALSE
    BY <1>1, <2>1 DEF UrlRecord, UrlErrors
  <2> QED
    BY <2>1, <2>2, BadCall
<1>3. CASE ToSet(host) \cap Special = {}
  <2>1. PICK answer \in Answers(host) :
          /\ silent' = (silent \/ answer = Silence)
          /\ LET u == WithHost(url, host, answer) IN
               url' = IF u.error # "none" THEN [u EXCEPT !.valid = FALSE]
                      ELSE WithUser(u, name, word)
    BY <1>3 DEF SetAuthority
  <2>2. named' = named \cup {host} /\ UNCHANGED given
    BY <1>3 DEF SetAuthority
  <2> DEFINE u == WithHost(url, host, answer)
  <2>3. /\ u \in UrlRecord /\ u.host = host /\ u.valid = url.valid
        /\ u.ips = url.ips \o answer.ips
        /\ u.error = "none" => url.error = "none" /\ answer.error = "none"
    BY <1>1, WithHostType
  <2>4. url' = IF u.error # "none" THEN [u EXCEPT !.valid = FALSE]
               ELSE WithUser(u, name, word)
    BY <2>1
  <2> HIDE DEF u
  <2>5. /\ url' \in UrlRecord /\ SameAddresses(u, url')
        /\ url'.valid => u.error = "none"
    <3>1. CASE u.error # "none"
      <4>1. url' = [u EXCEPT !.valid = FALSE]
        BY <2>4, <3>1
      <4>2. url' \in UrlRecord /\ SameAddresses(u, url') /\ url'.valid = FALSE
        BY <2>3, <4>1 DEF UrlRecord, SameAddresses
      <4> QED
        BY <4>2
    <3>2. CASE u.error = "none"
      <4>1. url' = WithUser(u, name, word)
        BY <2>4, <3>2
      <4> QED
        BY <1>1, <2>3, <3>2, <4>1, WithUserType
    <3> QED
      BY <3>1, <3>2
  <2>6. url'.host = host /\ url'.ips = u.ips /\ url'.error = u.error
    BY <2>3, <2>5 DEF SameAddresses
  <2>7. IsFiniteSet(named')
    BY <2>2, FS_AddElement DEF AddressInv
  <2>8. ASSUME ~given' PROVE HostsAgree'
    <3>1. url'.host # <<>> /\ url'.host \in named'
      BY <1>1, <2>2, <2>6
    <3>2. ASSUME url'.error = "none", named' = {url'.host}
          PROVE  /\ ToSet(url'.ips) \subseteq AddressesOf(url'.host)
                 /\ url'.ips = <<>> => silent'
      <4>1. /\ url.error = "none" /\ answer.error = "none"
            /\ url'.ips = url.ips \o answer.ips
        BY <2>3, <2>6, <3>2
      <4>2. HostsAgree
        BY <2>2, <2>8 DEF AddressInv
      <4>3. url.ips = <<>> \/ ToSet(url.ips) \subseteq AddressesOf(host)
        <5>1. CASE url.host = <<>>
          BY <4>2, <5>1 DEF HostsAgree
        <5>2. CASE url.host # <<>>
          <6>1. url.host = host /\ named = {url.host}
            BY <2>2, <2>6, <3>2, <4>2, <5>2 DEF HostsAgree
          <6> QED
            BY <4>1, <4>2, <6>1 DEF HostsAgree
        <5> QED
          BY <5>1, <5>2
      <4>4. /\ url.ips \in Seq(Addresses) /\ answer.ips \in Seq(Addresses)
            /\ ToSet(answer.ips) \subseteq AddressesOf(host)
            /\ answer.ips = <<>> => silent'
        BY <1>1, <2>1, <4>1, AnswersType DEF UrlRecord
      <4>5. ToSet(url.ips \o answer.ips) = ToSet(url.ips) \cup ToSet(answer.ips)
        BY <4>4, ConcatSet
      <4>6. url.ips = <<>> => ToSet(url.ips) = {}
        BY EmptySeq DEF ToSet
      <4>7. url.ips \o answer.ips = <<>> => answer.ips = <<>>
        BY <4>4
      <4> QED
        BY <2>6, <4>1, <4>3, <4>4, <4>5, <4>6, <4>7
    <3> QED
      BY <3>1, <3>2 DEF HostsAgree
  <2> QED
    BY <2>2, <2>5, <2>6, <2>7, <2>8 DEF AddressInv
<1> QED
  BY <1>2, <1>3

LEMMA AddressInvAddHostIP ==
  ASSUME AddressInv, NEW ip \in UrlInputs.ips, AddHostIP(ip)
  PROVE  AddressInv'
<1>1. url \in UrlRecord /\ IsFiniteSet(named) /\ (url.valid => url.error = "none")
  BY DEF AddressInv
<1>2. UNCHANGED named /\ given' = TRUE
  BY DEF AddHostIP
<1>3. CASE ip \in Addresses
  <2> DEFINE ips == Append(url.ips, ip)
  <2>1. url' = [url EXCEPT !.ips = ips]
    BY <1>3 DEF AddHostIP
  <2>2. ips \in Seq(Addresses)
    BY <1>1, <1>3, AppendProperties DEF UrlRecord
  <2> HIDE DEF ips
  <2>3. url' \in UrlRecord /\ url'.valid = url.valid /\ url'.error = url.error
    BY <1>1, <2>1, <2>2 DEF UrlRecord
  <2> QED
    BY <1>1, <1>2, <2>3 DEF AddressInv
<1>4. CASE ip \notin Addresses
  <2> DEFINE e == IF ip \in Dotted THEN "IP_CONVERTER_ERROR" ELSE "BAD_IP_FORMAT"
  <2>1. url' = [url EXCEPT !.valid = FALSE, !.error = e]
    BY <1>4 DEF AddHostIP
  <2>2. e \in UrlErrors
    BY DEF UrlErrors
  <2> HIDE DEF e
  <2>3. url' \in UrlRecord /\ url'.valid = FALSE
    BY <1>1, <2>1, <2>2 DEF UrlRecord
  <2> QED
    BY <1>1, <1>2, <2>3 DEF AddressInv
<1> QED
  BY <1>3, <1>4

\* A setter of one part.
LEMMA AddressInvPut ==
  ASSUME AddressInv, NEW v \in UrlRecord, Put(v), SameAddresses(url, v),
         v.valid = url.valid
  PROVE  AddressInv'
BY QuietCall DEF Put

LEMMA AddressInvSetPort ==
  ASSUME AddressInv, NEW text \in UrlInputs.ports, SetPort(text)
  PROVE  AddressInv'
<1>1. url \in UrlRecord /\ text \in Text
  BY TextsAreInputs DEF AddressInv
<1>2. Put(WithPort(url, text))
  BY DEF SetPort
<1> QED
  BY <1>1, <1>2, WithPortType, AddressInvPut

LEMMA AddressInvSetPath ==
  ASSUME AddressInv, NEW path \in UrlInputs.paths, SetPath(path)
  PROVE  AddressInv'
<1> DEFINE text == EncodeOnly(path, Special \ {"/"})
           v == [url EXCEPT !.path = text]
<1>1. url \in UrlRecord /\ text \in Text
  BY TextsAreInputs, EncodedIsText DEF AddressInv
<1>2. Put(v)
  BY DEF SetPath
<1> HIDE DEF text
<1>3. v \in UrlRecord /\ SameAddresses(url, v) /\ v.valid = url.valid
  BY <1>1 DEF UrlRecord, SameAddresses
<1> HIDE DEF v
<1> QED
  BY <1>2, <1>3, AddressInvPut

LEMMA AddressInvSetQuery ==
  ASSUME AddressInv, NEW query \in UrlInputs.queries, SetQuery(query)
  PROVE  AddressInv'
<1> DEFINE text == EncodeOnly(query, Special \ {"&", "=", ";"})
           v == [url EXCEPT !.query = text]
<1>1. url \in UrlRecord /\ text \in Text
  <2> DEFINE chars == Special \ {"&", "=", ";"}
  <2> HIDE DEF chars
  <2>1. query \in Text
    BY TextsAreInputs
  <2>2. EncodeOnly(query, chars) \in Text
    BY <2>1, EncodedIsText
  <2> QED
    BY <2>2, Zenon DEF AddressInv, chars
<1>2. Put(v)
  BY Zenon DEF SetQuery
<1> HIDE DEF text
<1>3. v \in UrlRecord /\ SameAddresses(url, v) /\ v.valid = url.valid
  BY <1>1 DEF UrlRecord, SameAddresses
<1> HIDE DEF v
<1> QED
  BY <1>2, <1>3, AddressInvPut

LEMMA AddressInvSetFragment ==
  ASSUME AddressInv, NEW fragment \in UrlInputs.fragments, SetFragment(fragment)
  PROVE  AddressInv'
<1> DEFINE text == EncodeOnly(fragment, Special)
           v == [url EXCEPT !.fragment = text]
<1>1. url \in UrlRecord /\ text \in Text
  BY TextsAreInputs, EncodedIsText DEF AddressInv
<1>2. Put(v)
  BY DEF SetFragment
<1> HIDE DEF text
<1>3. v \in UrlRecord /\ SameAddresses(url, v) /\ v.valid = url.valid
  BY <1>1 DEF UrlRecord, SameAddresses
<1> HIDE DEF v
<1> QED
  BY <1>2, <1>3, AddressInvPut

\* The calls of a request have no part in the Url.
LEMMA RequestCallsLeaveUrl ==
  MessageNext => UrlNext \/ UNCHANGED <<url, named, given, silent>>
<1> SUFFICES ASSUME MessageNext, ~UrlNext PROVE UNCHANGED <<url, named, given, silent>>
  OBVIOUS
<1>1. ASSUME NEW kind \in Kinds, NewRequest(kind) PROVE UNCHANGED <<url, named, given, silent>>
  BY <1>1 DEF NewRequest, urlVars
<1>2. ASSUME Compose PROVE UNCHANGED <<url, named, given, silent>>
  BY <1>2 DEF Compose, urlVars
<1>3. ASSUME NEW head \in Heads, InitResponse(head)
      PROVE  UNCHANGED <<url, named, given, silent>>
  BY <1>3 DEF InitResponse, urlVars
<1>4. ASSUME NEW field, AddHeader(field) \/ AddParam(field)
      PROVE  UNCHANGED <<url, named, given, silent>>
  <2>1. CASE AddHeader(field)
    BY <2>1, Zenon DEF AddHeader, Change
  <2>2. CASE AddParam(field)
    BY <2>2, Zenon DEF AddParam, Change
  <2> QED
    BY <1>4, <2>1, <2>2
<1>5. ASSUME NEW x, SetBody(x) \/ SetSSL(x) \/ SetRequest(x)
      PROVE  UNCHANGED <<url, named, given, silent>>
  BY <1>5 DEF SetBody, SetSSL, SetRequest, Change
<1> QED
  BY <1>1, <1>2, <1>3, <1>4, <1>5 DEF MessageNext

LEMMA AddressInvNext == AddressInv /\ [MessageNext]_messageVars => AddressInv'
<1> SUFFICES ASSUME AddressInv, [MessageNext]_messageVars PROVE AddressInv'
  OBVIOUS
<1>1. CASE UNCHANGED <<url, named, given, silent>>
  BY <1>1 DEF AddressInv, HostsAgree
<1>2. CASE UrlNext
  <2>1. CASE \E scheme \in UrlInputs.schemes : SetScheme(scheme)
    BY <2>1, AddressInvSetScheme
  <2>2. CASE \E host \in UrlInputs.hosts, name \in UrlInputs.users,
                word \in UrlInputs.passwords : SetAuthority(host, name, word)
    BY <2>2, AddressInvSetAuthority
  <2>3. CASE \E ip \in UrlInputs.ips : AddHostIP(ip)
    BY <2>3, AddressInvAddHostIP
  <2>4. CASE \E text \in UrlInputs.ports : SetPort(text)
    BY <2>4, AddressInvSetPort
  <2>5. CASE \E path \in UrlInputs.paths : SetPath(path)
    BY <2>5, AddressInvSetPath
  <2>6. CASE \E query \in UrlInputs.queries : SetQuery(query)
    BY <2>6, AddressInvSetQuery
  <2>7. CASE \E fragment \in UrlInputs.fragments : SetFragment(fragment)
    BY <2>7, AddressInvSetFragment
  <2> QED
    BY <1>2, <2>1, <2>2, <2>3, <2>4, <2>5, <2>6, <2>7 DEF UrlNext
<1>3. UrlNext \/ UNCHANGED <<url, named, given, silent>>
  BY RequestCallsLeaveUrl DEF messageVars, urlVars
<1> QED
  BY <1>1, <1>2, <1>3

\* src/url.cpp:41-285: the members of an Url keep their types whatever texts and
\* setters it is made of, an Url that is valid carries no error, and the hosts that
\* were resolved are those that its host and its addresses come from.
THEOREM AddressInvHolds == MessageSpec => []AddressInv
<1>1. MessageInit => AddressInv
  BY AddressInvInit DEF MessageInit
<1>2. AddressInv /\ [MessageNext]_messageVars => AddressInv'
  BY AddressInvNext
<1> QED
  BY <1>1, <1>2, PTL DEF MessageSpec

\* src/url.cpp:361-403: the addresses of a valid Url, to the first of which the handlers
\* connect, are those of the host that the Url and the Host header name, as long as one
\* host was ever set and no address was added; there is none only after a resolution
\* that failed for a reason the code does not know.
THEOREM AddressIsOfHostAlways == MessageSpec => []AddressIsOfHost
<1>1. AddressInv => AddressIsOfHost
  <2> SUFFICES ASSUME AddressInv, url.valid, ~given, Cardinality(named) = 1
               PROVE  /\ ToSet(url.ips) \subseteq AddressesOf(url.host)
                      /\ url.ips = <<>> => silent
    BY DEF AddressIsOfHost
  <2>1. HostsAgree /\ url.error = "none" /\ IsFiniteSet(named)
    BY DEF AddressInv
  <2>2. \E x : named = {x}
    BY <2>1, FS_Singleton
  <2>3. named = {url.host}
    BY <2>1, <2>2 DEF HostsAgree
  <2> QED
    BY <2>1, <2>3 DEF HostsAgree
<1> QED
  BY <1>1, AddressInvHolds, PTL

\* The members of an Url have their types.
THEOREM UrlTypeCorrect == MessageSpec => []UrlTypeOK
<1>1. AddressInv => UrlTypeOK
  BY DEF AddressInv, UrlRecord, UrlTypeOK
<1> QED
  BY <1>1, AddressInvHolds, PTL

-----------------------------------------------------------------------------
(* The data of a request.                                                  *)

\* Lengths are written as words.
LengthsAreWords == \A n \in Nat : ToString(n) \in Words

LEMMA TextsFollow ==
  ASSUME NEW s \in Text, NEW t \in Text
  PROVE  s \o t \in Text
BY ConcatProperties DEF Text

LEMMA WrittenWords ==
  /\ Space \in Words /\ "HTTP/1.1" \in Words /\ EndOfLine \in Words /\ "/" \in Words
  /\ "?" \in Words /\ "&" \in Words /\ "=" \in Words /\ ":" \in Words
  /\ "host" \in Words /\ "content-length" \in Words
BY HttpAssumption

LEMMA NoText == <<>> \in Text
BY EmptySeq DEF Text

LEMMA OneWord ==
  ASSUME NEW w \in Words
  PROVE  <<w>> \in Text
BY DEF Text

LEMMA TwoWords ==
  ASSUME NEW v \in Words, NEW w \in Words
  PROVE  <<v, w>> \in Text
BY DEF Text

LEMMA PrefixedType ==
  ASSUME NEW c \in Words, NEW s \in Text
  PROVE  Prefixed(c, s) \in Text
<1>1. <<c>> \o s \in Text
  BY OneWord, TextsFollow
<1> QED
  BY <1>1, NoText DEF Prefixed

\* The elements of a list of texts that a rule makes of those of another list.
LEMMA TextsOfList ==
  ASSUME NEW N \in Nat, NEW f, f = [i \in 1..N |-> f[i]], \A i \in 1..N : f[i] \in Text
  PROVE  f \in Seq(Text)
OBVIOUS

LEMMA FlattenedIsText ==
  ASSUME NEW texts \in Seq(Text)
  PROVE  FlattenSeq(texts) \in Text
BY FlattenType DEF Text

LEMMA JoinedType ==
  ASSUME NEW texts \in Seq(Text), NEW c \in Words
  PROVE  Joined(texts, c) \in Text
<1> DEFINE f == [i \in DOMAIN texts |-> IF i = 1 THEN texts[i] ELSE <<c>> \o texts[i]]
<1>1. Len(texts) \in Nat /\ DOMAIN texts = 1..Len(texts)
      /\ \A i \in 1..Len(texts) : texts[i] \in Text
  BY LenProperties, ElementOfSeq
<1>2. \A t \in Text : <<c>> \o t \in Text
  <2>1. <<c>> \in Text
    BY OneWord
  <2> QED
    BY <2>1, TextsFollow
<1>3. f = [i \in 1..Len(texts) |-> f[i]] /\ \A i \in 1..Len(texts) : f[i] \in Text
  BY <1>1, <1>2
<1>4. f \in Seq(Text)
  <2> HIDE DEF f
  <2> QED
    BY <1>1, <1>3, TextsOfList
<1> QED
  BY <1>4, FlattenedIsText DEF Joined

\* One text for each field of a list.
LEMMA FieldTexts ==
  ASSUME NEW fields \in Seq(Fields), NEW rule,
         rule = [i \in DOMAIN fields |-> rule[i]],
         \A i \in DOMAIN fields : fields[i] \in Fields => rule[i] \in Text
  PROVE  rule \in Seq(Text)
<1>1. Len(fields) \in Nat /\ DOMAIN fields = 1..Len(fields)
      /\ \A i \in 1..Len(fields) : fields[i] \in Fields
  BY LenProperties, ElementOfSeq
<1> QED
  BY <1>1, TextsOfList

LEMMA HeaderLinesType ==
  ASSUME NEW headers \in Seq(Fields)
  PROVE  HeaderLines(headers) \in Text
<1> DEFINE rule == [i \in DOMAIN headers |->
                      <<headers[i].name, ":">> \o headers[i].value \o <<EndOfLine>>]
<1>1. ASSUME NEW field \in Fields
      PROVE  <<field.name, ":">> \o field.value \o <<EndOfLine>> \in Text
  <2>1. field.name \in Words /\ field.value \in Text
    BY DEF Fields
  <2>2. <<field.name, ":">> \in Text /\ <<EndOfLine>> \in Text
    BY <2>1, WrittenWords, OneWord, TwoWords
  <2>3. field.value \o <<EndOfLine>> \in Text
    BY <2>1, <2>2, TextsFollow
  <2>4. <<field.name, ":">> \o field.value \in Text
    BY <2>1, <2>2, TextsFollow
  <2> QED
    BY <2>2, <2>3, <2>4, TextsFollow
<1>2. rule = [i \in DOMAIN headers |-> rule[i]]
  OBVIOUS
<1>3. \A i \in DOMAIN headers : headers[i] \in Fields => rule[i] \in Text
  BY <1>1
<1> HIDE DEF rule
<1>4. rule \in Seq(Text)
  BY <1>2, <1>3, FieldTexts
<1> QED
  BY <1>4, FlattenedIsText DEF HeaderLines, rule

-----------------------------------------------------------------------------
(* The type of a request.                                                  *)

Members ==
  {"kind", "url", "params", "body", "data", "composed", "head", "response",
   "error", "headers", "ssl"}

IsRequest(r) ==
  /\ r = [f \in Members |-> r[f]]
  /\ r.kind \in Kinds
  /\ r.url \in UrlRecord
  /\ r.headers \in Seq(Fields) /\ r.params \in Seq(Fields)
  /\ r.body \in Text /\ r.data \in Text
  /\ r.ssl \in BOOLEAN /\ r.composed \in BOOLEAN
  /\ r.error \in {"none", "INVALID_URL"}

LEMMA GetFieldsType ==
  ASSUME NEW r, IsRequest(r)
  PROVE  GetFields(r) \in Text
<1> DEFINE rule == [i \in DOMAIN r.params |->
                      <<r.params[i].name>> \o Prefixed("=", r.params[i].value)]
<1>1. r.params \in Seq(Fields) /\ r.url.query \in Text
  BY DEF IsRequest, UrlRecord
<1>2. ASSUME NEW field \in Fields
      PROVE  <<field.name>> \o Prefixed("=", field.value) \in Text
  <2>1. field.name \in Words /\ field.value \in Text
    BY DEF Fields
  <2>2. <<field.name>> \in Text /\ Prefixed("=", field.value) \in Text
    BY <2>1, WrittenWords, OneWord, PrefixedType
  <2> QED
    BY <2>2, TextsFollow
<1>3. rule \in Seq(Text)
  <2>1. /\ rule = [i \in DOMAIN r.params |-> rule[i]]
        /\ \A i \in DOMAIN r.params : r.params[i] \in Fields => rule[i] \in Text
    BY <1>2
  <2> HIDE DEF rule
  <2> QED
    BY <1>1, <2>1, FieldTexts
<1> DEFINE params == IF r.params = <<>> THEN <<>> ELSE <<"?">> \o Joined(rule, "&")
<1>4. params \in Text /\ Prefixed("&", r.url.query) \in Text
  <2> HIDE DEF rule
  <2>1. Joined(rule, "&") \in Text /\ <<"?">> \in Text
    BY <1>3, JoinedType, OneWord, WrittenWords
  <2>2. <<"?">> \o Joined(rule, "&") \in Text
    BY <2>1, TextsFollow
  <2>3. Prefixed("&", r.url.query) \in Text
    BY <1>1, WrittenWords, PrefixedType
  <2> QED
    BY <2>2, <2>3, NoText
<1>5. GetFields(r) = params \o Prefixed("&", r.url.query)
  BY DEF GetFields
<1> HIDE DEF params
<1> QED
  BY <1>4, <1>5, TextsFollow

LEMMA FormType ==
  ASSUME NEW r, IsRequest(r)
  PROVE  Form(r) \in Text
<1> DEFINE headers == r.headers
           rule == [i \in DOMAIN r.params |->
                      <<r.params[i].name, "=">> \o FormValue(headers, r.params[i].value)]
<1>1. r.params \in Seq(Fields)
  BY DEF IsRequest
<1> HIDE DEF headers
<1>2. ASSUME NEW field \in Fields
      PROVE  <<field.name, "=">> \o FormValue(headers, field.value) \in Text
  <2>1. field.name \in Words /\ field.value \in Text
    BY DEF Fields
  <2>2. encodeUrl(field.value) \in Text
    BY <2>1, EncodedIsText DEF encodeUrl
  <2>3. <<field.name, "=">> \in Text
    BY <2>1, WrittenWords, TwoWords
  <2>4. FormValue(headers, field.value) \in {encodeUrl(field.value), <<>>, field.value}
    BY DEF FormValue
  <2>5. FormValue(headers, field.value) \in Text
    BY <2>1, <2>2, <2>4, NoText
  <2> QED
    BY <2>3, <2>5, TextsFollow
<1>3. rule \in Seq(Text)
  <2>1. /\ rule = [i \in DOMAIN r.params |-> rule[i]]
        /\ \A i \in DOMAIN r.params : r.params[i] \in Fields => rule[i] \in Text
    BY <1>2
  <2> HIDE DEF rule
  <2> QED
    BY <1>1, <2>1, FieldTexts
<1>4. Joined(rule, "&") \in Text
  <2> HIDE DEF rule
  <2> QED
    BY <1>3, JoinedType, WrittenWords
<1> QED
  BY <1>4 DEF Form, headers

LEMMA WithBodyType ==
  ASSUME LengthsAreWords, NEW r, IsRequest(r)
  PROVE  IsRequest(WithBody(r))
<1> DEFINE body == IF r.body = <<>> THEN Form(r) ELSE r.body
           length == Field("content-length", <<ToString(Len(body))>>)
           headers == Append(r.headers, length)
<1>1. body \in Text
  BY FormType DEF IsRequest
<1> HIDE DEF body
<1>2. length \in Fields
  <2>1. Len(body) \in Nat
    BY <1>1, LenProperties DEF Text
  <2>2. ToString(Len(body)) \in Words
    BY <2>1 DEF LengthsAreWords
  <2>3. <<ToString(Len(body))>> \in Text
    BY <2>2, OneWord
  <2> QED
    BY <2>3, WrittenWords DEF Fields, Field
<1> HIDE DEF length
<1>3. headers \in Seq(Fields)
  BY <1>2, AppendProperties DEF IsRequest
<1> HIDE DEF headers
<1>4. WithBody(r) = IF r.kind \notin Bodied THEN r
                    ELSE [r EXCEPT !.body = body, !.headers = headers]
  BY DEF WithBody, body, length, headers
<1>5. IsRequest([r EXCEPT !.body = body, !.headers = headers])
  BY <1>1, <1>3 DEF IsRequest, Members
<1> QED
  BY <1>4, <1>5

LEMMA TargetType ==
  ASSUME NEW path \in Text
  PROVE  Target(path) \in Text
<1>1. <<"/">> \o path \in Text
  BY WrittenWords, OneWord, TextsFollow
<1> QED
  BY <1>1 DEF Target

LEMMA requestDataType ==
  ASSUME LengthsAreWords, NEW r, IsRequest(r)
  PROVE  IsRequest(requestData(r))
<1> DEFINE w == WithBody(r)
           target == Target(r.url.path)
           query == IF r.kind = "GET" THEN GetFields(r) ELSE <<>>
           lines == HeaderLines(w.headers)
           start == <<r.kind, Space>>
           version == <<Space, "HTTP/1.1", EndOfLine>>
           blank == <<EndOfLine>>
           data == w.data \o start \o target \o query \o version \o lines \o blank \o w.body
<1>1. IsRequest(w)
  BY WithBodyType
<1>2. w.data \in Text /\ w.body \in Text /\ lines \in Text
  BY <1>1, HeaderLinesType DEF IsRequest
<1>3. target \in Text
  BY TargetType DEF IsRequest, UrlRecord
<1>4. query \in Text
  BY GetFieldsType, NoText
<1>5. start \in Text
  <2>1. r.kind \in Words
    BY HttpAssumption DEF IsRequest
  <2> QED
    BY <2>1, WrittenWords, TwoWords
<1>6. version \in Text /\ blank \in Text
  BY WrittenWords, OneWord DEF Text
<1>7. requestData(r) = IF r.composed THEN r ELSE [w EXCEPT !.composed = TRUE, !.data = data]
  BY DEF requestData
<1>8. data \in Text
  <2> HIDE DEF w, start, target, query, version, lines, blank
  <2>1. w.data \o start \in Text
    BY <1>2, <1>5, TextsFollow
  <2>2. w.data \o start \o target \in Text
    BY <2>1, <1>3, TextsFollow
  <2>3. w.data \o start \o target \o query \in Text
    BY <2>2, <1>4, TextsFollow
  <2>4. w.data \o start \o target \o query \o version \in Text
    BY <2>3, <1>6, TextsFollow
  <2>5. w.data \o start \o target \o query \o version \o lines \in Text
    BY <2>4, <1>2, TextsFollow
  <2>6. w.data \o start \o target \o query \o version \o lines \o blank \in Text
    BY <2>5, <1>6, TextsFollow
  <2> QED
    BY <2>6, <1>2, TextsFollow
<1> HIDE DEF w, data
<1>9. IsRequest([w EXCEPT !.composed = TRUE, !.data = data])
  BY <1>1, <1>8 DEF IsRequest, Members
<1> QED
  BY <1>7, <1>9

LEMMA MakeType ==
  ASSUME url \in UrlRecord, NEW kind \in Kinds
  PROVE  IsRequest(Make(kind))
<1> DEFINE bad == \/ ~url.valid
                  \/ /\ url.scheme \notin {<<"http">>, <<"https">>}
                     /\ url.port \notin {<<"80">>, <<"443">>}
           headers == IF bad THEN <<>> ELSE <<Field("host", url.host)>>
           error == IF bad THEN "INVALID_URL" ELSE "none"
           ssl == ~bad /\ url.local = 443
<1>1. headers \in Seq(Fields)
  <2>1. Field("host", url.host) \in Fields
    BY WrittenWords DEF Field, Fields, UrlRecord
  <2>2. <<Field("host", url.host)>> \in Seq(Fields)
    BY <2>1
  <2> QED
    BY <2>2, EmptySeq
<1>2. error \in {"none", "INVALID_URL"} /\ ssl \in BOOLEAN
  OBVIOUS
<1>3. <<>> \in Text /\ <<>> \in Seq(Fields)
  BY NoText, EmptySeq
<1>4. Make(kind) =
        [kind |-> kind, url |-> url, params |-> <<>>, body |-> <<>>, data |-> <<>>,
         composed |-> FALSE, head |-> {}, response |-> Unanswered, error |-> error,
         headers |-> headers, ssl |-> ssl]
  BY DEF Make
<1> HIDE DEF headers, error, ssl
<1> DEFINE r == [kind |-> kind, url |-> url, params |-> <<>>, body |-> <<>>,
                 data |-> <<>>, composed |-> FALSE, head |-> {},
                 response |-> Unanswered, error |-> error, headers |-> headers,
                 ssl |-> ssl]
<1>5. r = [f \in Members |-> r[f]]
  BY DEF Members
<1>6. IsRequest(r)
  BY <1>1, <1>2, <1>3, <1>5 DEF IsRequest
<1> QED
  BY <1>4, <1>6

RequestInv == request = None \/ IsRequest(request)

LEMMA FieldsAreInputs ==
  /\ HttpInputs.headers \subseteq Fields
  /\ HttpInputs.params \subseteq Fields
  /\ HttpInputs.bodies \subseteq Text
  /\ HttpInputs.ssl \subseteq BOOLEAN
  /\ HttpInputs.data \subseteq Text
BY HttpAssumption

LEMMA RequestInvNext ==
  ASSUME LengthsAreWords, AddressInv, RequestInv, [MessageNext]_messageVars
  PROVE  RequestInv'
<1>1. CASE UNCHANGED request
  BY <1>1 DEF RequestInv, IsRequest
<1>2. ASSUME NEW kind \in Kinds, NewRequest(kind) PROVE RequestInv'
  <2>1. request' = Make(kind) /\ url \in UrlRecord
    BY <1>2 DEF NewRequest, AddressInv
  <2>2. IsRequest(request')
    BY <2>1, MakeType
  <2> QED
    BY <2>2 DEF RequestInv, IsRequest
<1>3. request # None => IsRequest(request)
  BY DEF RequestInv
<1>4. ASSUME NEW field \in HttpInputs.headers, AddHeader(field) PROVE RequestInv'
  <2> DEFINE headers == Append(request.headers, field)
  <2>1. request' = request \/ request' = [request EXCEPT !.headers = headers]
    BY <1>4, Zenon DEF AddHeader, Change
  <2>2. IsRequest(request) /\ field \in Fields
    BY <1>3, <1>4, FieldsAreInputs, Zenon DEF AddHeader, Change
  <2>3. headers \in Seq(Fields)
    BY <2>2, AppendProperties DEF IsRequest
  <2> HIDE DEF headers
  <2>4. CASE request' = [request EXCEPT !.headers = headers]
    <3>1. IsRequest(request')
      BY <2>2, <2>3, <2>4 DEF IsRequest, Members
    <3> QED
      BY <3>1 DEF RequestInv, IsRequest
  <2> QED
    BY <1>1, <2>1, <2>4
<1>5. ASSUME NEW field \in HttpInputs.params, AddParam(field) PROVE RequestInv'
  <2> DEFINE params == Append(request.params, field)
  <2>1. request' = request \/ request' = [request EXCEPT !.params = params]
    BY <1>5, Zenon DEF AddParam, Change
  <2>2. IsRequest(request) /\ field \in Fields
    BY <1>3, <1>5, FieldsAreInputs, Zenon DEF AddParam, Change
  <2>3. params \in Seq(Fields)
    BY <2>2, AppendProperties DEF IsRequest
  <2> HIDE DEF params
  <2>4. CASE request' = [request EXCEPT !.params = params]
    <3>1. IsRequest(request')
      BY <2>2, <2>3, <2>4 DEF IsRequest, Members
    <3> QED
      BY <3>1 DEF RequestInv, IsRequest
  <2> QED
    BY <1>1, <2>1, <2>4
<1>6. ASSUME NEW body \in HttpInputs.bodies, SetBody(body) PROVE RequestInv'
  <2>1. IsRequest(request) /\ body \in Text /\ request' = [request EXCEPT !.body = body]
    BY <1>3, <1>6, FieldsAreInputs DEF SetBody, Change
  <2>2. IsRequest(request')
    BY <2>1 DEF IsRequest, Members
  <2> QED
    BY <2>2 DEF RequestInv, IsRequest
<1>7. ASSUME NEW value \in HttpInputs.ssl, SetSSL(value) PROVE RequestInv'
  <2>1. IsRequest(request) /\ value \in BOOLEAN /\ request' = [request EXCEPT !.ssl = value]
    BY <1>3, <1>7, FieldsAreInputs DEF SetSSL, Change
  <2>2. IsRequest(request')
    BY <2>1 DEF IsRequest, Members
  <2> QED
    BY <2>2 DEF RequestInv, IsRequest
<1>8. ASSUME NEW data \in HttpInputs.data, SetRequest(data) PROVE RequestInv'
  <2>1. IsRequest(request) /\ data \in Text /\ request' = [request EXCEPT !.data = data]
    BY <1>3, <1>8, FieldsAreInputs DEF SetRequest, Change
  <2>2. IsRequest(request')
    BY <2>1 DEF IsRequest, Members
  <2> QED
    BY <2>2 DEF RequestInv, IsRequest
<1>9. ASSUME Compose PROVE RequestInv'
  <2>1. IsRequest(request) /\ request' = requestData(request)
    BY <1>3, <1>9 DEF Compose
  <2>2. IsRequest(request')
    BY <2>1, requestDataType
  <2> QED
    BY <2>2 DEF RequestInv, IsRequest
<1>10. ASSUME NEW head \in Heads, InitResponse(head) PROVE RequestInv'
  <2> DEFINE h == {head}
             a == IF HeadThrows(Spell(head)) THEN [error |-> "terminated"]
                  ELSE HttpResponse(Spell(head))
  <2>1. request' = [request EXCEPT !.head = h, !.response = a]
    BY <1>10 DEF InitResponse
  <2> HIDE DEF h, a
  <2>2. IsRequest(request)
    BY <1>3, <1>10 DEF InitResponse
  <2>3. IsRequest(request')
    BY <2>1, <2>2 DEF IsRequest, Members
  <2> QED
    BY <2>3 DEF RequestInv, IsRequest
<1>11. CASE MessageNext
  BY <1>1, <1>2, <1>4, <1>5, <1>6, <1>7, <1>8, <1>9, <1>10, <1>11 DEF MessageNext
<1> QED
  BY <1>1, <1>11 DEF messageVars

\* src/http_request.cpp:19-230: whatever is called on an Url and a request in whatever
\* order, their members, the headers, the parameters and the data that is written
\* have their types, if lengths are written as words.
THEOREM MessageTypeCorrect ==
  ASSUME LengthsAreWords
  PROVE  MessageSpec => []MessageTypeOK
<1>1. MessageInit => RequestInv
  BY DEF MessageInit, RequestInv
<1>2. AddressInv /\ RequestInv /\ [MessageNext]_messageVars => RequestInv'
  BY RequestInvNext
<1>3. AddressInv /\ RequestInv => MessageTypeOK
  BY DEF AddressInv, UrlRecord, UrlTypeOK, RequestInv, IsRequest, RequestTypeOK,
         MessageTypeOK
<1> QED
  BY <1>1, <1>2, <1>3, AddressInvHolds, PTL DEF MessageSpec

-----------------------------------------------------------------------------
(* Percent encoding loses nothing.                                         *)

\* What a rule for words makes of a text.
Mapped(s, g) == FlattenSeq([i \in DOMAIN s |-> g[s[i]]])

Rules == [Words -> Text]

LEMMA MappedType ==
  ASSUME NEW g \in Rules, NEW s \in Text
  PROVE  Mapped(s, g) \in Text
<1> DEFINE e == [i \in DOMAIN s |-> g[s[i]]]
<1>1. Len(s) \in Nat /\ DOMAIN s = 1..Len(s) /\ \A i \in 1..Len(s) : s[i] \in Words
  BY LenProperties, ElementOfSeq DEF Text
<1>2. e = [i \in 1..Len(s) |-> e[i]] /\ \A i \in 1..Len(s) : e[i] \in Text
  BY <1>1 DEF Rules
<1> HIDE DEF e
<1>3. e \in Seq(Text)
  BY <1>1, <1>2, TextsOfList
<1> QED
  BY <1>3, FlattenedIsText DEF Mapped, e

LEMMA MappedNothing == \A g : Mapped(<<>>, g) = <<>>
<1> TAKE g
<1>1. DOMAIN <<>> = {}
  OBVIOUS
<1>2. [i \in DOMAIN <<>> |-> g[<<>>[i]]] = <<>>
  BY <1>1
<1> QED
  BY <1>2, FlattenNothing DEF Mapped

LEMMA MappedAppend ==
  ASSUME NEW g \in Rules, NEW s \in Text, NEW x \in Words
  PROVE  Mapped(Append(s, x), g) = Mapped(s, g) \o g[x]
<1> DEFINE t == Append(s, x)
           N == Len(s)
           e == [i \in DOMAIN s |-> g[s[i]]]
           f == [i \in DOMAIN t |-> g[t[i]]]
<1>1. /\ N \in Nat /\ DOMAIN s = 1..N /\ \A i \in 1..N : s[i] \in Words
      /\ t \in Text /\ Len(t) = N + 1 /\ DOMAIN t = 1..(N + 1)
      /\ \A i \in 1..N : t[i] = s[i]
      /\ t[N + 1] = x
  BY LenProperties, ElementOfSeq, AppendProperties DEF Text
<1> HIDE DEF t
<1>2. /\ f = [i \in 1..(N + 1) |-> f[i]] /\ \A i \in 1..(N + 1) : f[i] \in Text
      /\ e = [i \in 1..N |-> e[i]] /\ \A i \in 1..N : f[i] = e[i]
      /\ f[N + 1] = g[x]
  <2>1. \A i \in 1..(N + 1) : t[i] \in Words
    BY <1>1, ElementOfSeq DEF Text
  <2> QED
    BY <1>1, <2>1 DEF Rules
<1> HIDE DEF e, f, N
<1>3. f \in Seq(Text) /\ Len(f) = N + 1
  <2>1. N + 1 \in Nat
    BY <1>1
  <2>2. f \in Seq(Text)
    BY <1>2, <2>1, TextsOfList
  <2>3. DOMAIN f = 1..(N + 1)
    BY <1>2
  <2> QED
    BY <2>1, <2>2, <2>3, LenProperties
<1>4. SubSeq(f, 1, N + 1) = f
  BY <1>1, <1>2, <1>3, BeginningOfSeq, LenProperties
<1>5. SubSeq(f, 1, N) = e
  <2>1. N \in 0..Len(f)
    BY <1>1, <1>3
  <2>2. /\ SubSeq(f, 1, N) \in Seq(Text) /\ Len(SubSeq(f, 1, N)) = N
        /\ \A i \in 1..N : SubSeq(f, 1, N)[i] = f[i]
    BY <1>3, <2>1, BeginningOfSeq
  <2>3. SubSeq(f, 1, N) = [i \in 1..N |-> SubSeq(f, 1, N)[i]]
    BY <2>2, LenProperties
  <2> QED
    BY <1>2, <2>2, <2>3
<1>6. FlattenSeq(f) = FlattenSeq(e) \o g[x]
  <2>1. N + 1 \in 1..Len(f) /\ (N + 1) - 1 = N
    BY <1>1, <1>3
  <2>2. f \in Seq(Seq(Words))
    BY <1>3 DEF Text
  <2>3. FlattenSeq(SubSeq(f, 1, N + 1))
          = FlattenSeq(SubSeq(f, 1, (N + 1) - 1)) \o f[N + 1]
    BY <2>1, <2>2, FlattenOneMore
  <2> QED
    BY <1>2, <1>4, <1>5, <2>1, <2>3
<1> QED
  BY <1>6 DEF Mapped, e, f, t

\* What stands for the percent sign and the digits behind it.
Signs == {"%", "0x"} \cup {Digit(c) : c \in Special}

\* The rules of EncodeOnly and of Decoded.
Encoding(chars) == [x \in Words |-> IF x \in chars THEN Percent(x) ELSE <<x>>]

Decoding ==
  [x \in Words |->
     LET of == {c \in Special : x = Digit(c)} IN
       IF x \in {"%", "0x"} THEN <<>>
       ELSE IF of = {} THEN <<x>> ELSE <<CHOOSE c \in of : TRUE>>]

\* No two characters have the same digits, and none has a sign of its own.
LEMMA DigitsDiffer ==
  /\ \A c \in Special, d \in Special : Digit(c) = Digit(d) => c = d
  /\ \A c \in Special : Digit(c) # "%" /\ Digit(c) # "0x"
  /\ \A c \in Special : Digit(c) \notin Special /\ Digit(c) # EndOfLine
  /\ "0x" \notin Special /\ EndOfLine \notin Special /\ "0x" # EndOfLine
<1>1. ASSUME NEW c \in Special
      PROVE  \/ c = " " /\ Digit(c) = "0x "
             \/ c = "@" /\ Digit(c) = "0x@"
             \/ c = "#" /\ Digit(c) = "0x#"
             \/ c = "%" /\ Digit(c) = "0x%"
             \/ c = "&" /\ Digit(c) = "0x&"
             \/ c = "=" /\ Digit(c) = "0x="
             \/ c = ":" /\ Digit(c) = "0x:"
             \/ c = ";" /\ Digit(c) = "0x;"
             \/ c = "/" /\ Digit(c) = "0x/"
             \/ c = "?" /\ Digit(c) = "0x?"
  <2>1. \/ c = " " \/ c = "@" \/ c = "#" \/ c = "%" \/ c = "&" \/ c = "=" \/ c = ":"
        \/ c = ";" \/ c = "/" \/ c = "?"
    BY Zenon DEF Special
  <2>2. c = " " => Digit(c) = "0x "
    BY Zenon DEF Digit
  <2>3. c = "@" => Digit(c) = "0x@"
    BY Zenon DEF Digit
  <2>4. c = "#" => Digit(c) = "0x#"
    BY Zenon DEF Digit
  <2>5. c = "%" => Digit(c) = "0x%"
    BY Zenon DEF Digit
  <2>6. c = "&" => Digit(c) = "0x&"
    BY Zenon DEF Digit
  <2>7. c = "=" => Digit(c) = "0x="
    BY Zenon DEF Digit
  <2>8. c = ":" => Digit(c) = "0x:"
    BY Zenon DEF Digit
  <2>9. c = ";" => Digit(c) = "0x;"
    BY Zenon DEF Digit
  <2>10. c = "/" => Digit(c) = "0x/"
    BY Zenon DEF Digit
  <2>11. c = "?" => Digit(c) = "0x?"
    BY Zenon DEF Digit
  <2> QED
    BY <2>1, <2>2, <2>3, <2>4, <2>5, <2>6, <2>7, <2>8, <2>9, <2>10, <2>11, Zenon
<1> DEFINE Of(x) ==
      CASE x = "0x " -> " " [] x = "0x@" -> "@" [] x = "0x#" -> "#" [] x = "0x%" -> "%"
        [] x = "0x&" -> "&" [] x = "0x=" -> "=" [] x = "0x:" -> ":" [] x = "0x;" -> ";"
        [] x = "0x/" -> "/" [] OTHER -> "?"
<1>2. ASSUME NEW c \in Special, NEW d \in Special, Digit(c) = Digit(d)
      PROVE  c = d
  <2>1. ASSUME NEW e \in Special PROVE Of(Digit(e)) = e
    BY <1>1, Zenon
  <2> HIDE DEF Of
  <2>2. Of(Digit(c)) = c /\ Of(Digit(d)) = d
    BY <2>1
  <2> QED
    BY <1>2, <2>2
<1>3. ASSUME NEW c \in Special
      PROVE  Digit(c) # "%" /\ Digit(c) # "0x"
  BY <1>1, Zenon
<1>4. ASSUME NEW c \in Special
      PROVE  Digit(c) \notin Special /\ Digit(c) # EndOfLine
  BY <1>1, Zenon DEF Special, EndOfLine
<1>5. "0x" \notin Special /\ EndOfLine \notin Special /\ "0x" # EndOfLine
  BY Zenon DEF Special, EndOfLine
<1> QED
  BY <1>2, <1>3, <1>4, <1>5

LEMMA RulesType ==
  ASSUME NEW chars
  PROVE  Encoding(chars) \in Rules /\ Decoding \in Rules
<1>1. ASSUME NEW x \in Words
      PROVE  (IF x \in chars THEN Percent(x) ELSE <<x>>) \in Text
  <2>1. <<x>> \in Text /\ Percent(x) \in Text
    BY PercentIsText, OneWord
  <2> QED
    BY <2>1
<1>2. ASSUME NEW x \in Words
      PROVE  Decoding[x] \in Text
  <2> DEFINE of == {c \in Special : x = Digit(c)}
  <2>1. Decoding[x] = IF x \in {"%", "0x"} THEN <<>>
                      ELSE IF of = {} THEN <<x>> ELSE <<CHOOSE c \in of : TRUE>>
    BY DEF Decoding
  <2>2. of # {} => (CHOOSE c \in of : TRUE) \in Words
    <3>1. of \subseteq Words
      BY WordsAssumption
    <3> HIDE DEF of
    <3> QED
      BY <3>1
  <2> HIDE DEF of
  <2>3. <<x>> \in Text /\ (of # {} => <<CHOOSE c \in of : TRUE>> \in Text)
    BY <2>2, OneWord
  <2> QED
    BY <2>1, <2>3, NoText
<1>3. Decoding = [x \in Words |-> Decoding[x]]
  BY DEF Decoding
<1> QED
  BY <1>1, <1>2, <1>3 DEF Encoding, Rules

LEMMA ReadByRules ==
  ASSUME NEW s \in Text, NEW chars
  PROVE  EncodeOnly(s, chars) = Mapped(s, Encoding(chars)) /\ Decoded(s) = Mapped(s, Decoding)
<1>1. \A i \in DOMAIN s : s[i] \in Words
  BY LenProperties, ElementOfSeq DEF Text
<1>2. [i \in DOMAIN s |-> IF s[i] \in chars THEN Percent(s[i]) ELSE <<s[i]>>]
        = [i \in DOMAIN s |-> Encoding(chars)[s[i]]]
  BY <1>1 DEF Encoding
<1>3. EncodeOnly(s, chars) = Mapped(s, Encoding(chars))
  BY <1>2 DEF EncodeOnly, Mapped
<1>4. [i \in DOMAIN s |->
         LET of == {c \in Special : s[i] = Digit(c)} IN
           IF s[i] \in {"%", "0x"} THEN <<>>
           ELSE IF of = {} THEN <<s[i]>> ELSE <<CHOOSE c \in of : TRUE>>]
        = [i \in DOMAIN s |-> Decoding[s[i]]]
  BY <1>1 DEF Decoding
<1>5. Decoded(s) = Mapped(s, Decoding)
  BY <1>4 DEF Decoded, Mapped
<1> QED
  BY <1>3, <1>5

\* A word that is decoded behind a text, and a character that is encoded there.
LEMMA DecodedWord ==
  ASSUME NEW x \in Words \ Signs
  PROVE  Decoding[x] = <<x>>
<1>1. {c \in Special : x = Digit(c)} = {} /\ x \notin {"%", "0x"}
  BY DEF Signs
<1> QED
  BY <1>1 DEF Decoding

LEMMA DecodedPercent ==
  ASSUME NEW t \in Text, NEW c \in Special
  PROVE  Mapped(t \o Percent(c), Decoding) = Append(Mapped(t, Decoding), c)
<1> DEFINE d == Digit(c)
           one == Append(t, "%")
           two == Append(one, "0x")
           three == Append(two, d)
           m == Mapped(t, Decoding)
<1>1. "%" \in Words /\ "0x" \in Words /\ d \in Words /\ Decoding \in Rules
  BY WordsAssumption, RulesType
<1>2. Decoding["%"] = <<>> /\ Decoding["0x"] = <<>>
  BY <1>1 DEF Decoding
<1>3. Decoding[d] = <<c>>
  <2> DEFINE of == {e \in Special : d = Digit(e)}
  <2>1. of = {c}
    BY DigitsDiffer
  <2>2. d \notin {"%", "0x"}
    BY DigitsDiffer
  <2>3. Decoding[d] = <<CHOOSE e \in of : TRUE>>
    BY <1>1, <2>1, <2>2 DEF Decoding
  <2> HIDE DEF of
  <2>4. (CHOOSE e \in of : TRUE) = c
    BY <2>1
  <2> QED
    BY <2>3, <2>4
<1> HIDE DEF d
<1>4. one \in Text /\ two \in Text
  BY <1>1, AppendProperties DEF Text
<1>5. m \in Text
  BY <1>1, MappedType
<1>6. Mapped(one, Decoding) = m
  <2>1. Mapped(one, Decoding) = m \o <<>>
    BY <1>1, <1>2, MappedAppend
  <2> QED
    BY <1>5, <2>1, ConcatEmptySeq DEF Text
<1>7. Mapped(two, Decoding) = m
  <2>1. Mapped(two, Decoding) = Mapped(one, Decoding) \o <<>>
    BY <1>1, <1>2, <1>4, MappedAppend
  <2> QED
    BY <1>5, <1>6, <2>1, ConcatEmptySeq DEF Text
<1>8. Mapped(three, Decoding) = Append(m, c)
  <2>1. Mapped(three, Decoding) = m \o <<c>>
    BY <1>1, <1>3, <1>4, <1>7, MappedAppend
  <2> QED
    BY <1>5, <2>1, AppendIsConcat DEF Text
<1>9. t \o Percent(c) = three
  <2>1. Percent(c) = Append(Append(Append(<<>>, "%"), "0x"), d)
    BY DEF Percent, d
  <2>2. /\ <<>> \in Text /\ Append(<<>>, "%") \in Text
        /\ Append(Append(<<>>, "%"), "0x") \in Text
    BY <1>1, NoText, AppendProperties DEF Text
  <2>3. t \o Append(<<>>, "%") = one
    <3>1. t \o <<>> = t
      BY ConcatEmptySeq DEF Text
    <3> QED
      BY <1>1, <2>2, <3>1, ConcatAppend DEF Text
  <2>4. t \o Append(Append(<<>>, "%"), "0x") = two
    BY <1>1, <2>2, <2>3, ConcatAppend DEF Text
  <2> QED
    BY <1>1, <2>1, <2>2, <2>4, ConcatAppend DEF Text
<1> QED
  BY <1>8, <1>9

\* src/network_utility.cpp:11-32 and 108-121, src/url.cpp:245-285: whatever characters a setter
\* encodes, if the percent sign is one of them a server reads the text back as it was
\* given, however long it is.
THEOREM EncodingIsReadBack ==
  ASSUME NEW s \in Text, NEW chars \in SUBSET Special, "%" \in chars,
         ToSet(s) \cap Signs \subseteq {"%"}
  PROVE  Decoded(EncodeOnly(s, chars)) = s
<1> DEFINE E(t) == Mapped(t, Encoding(chars))
           D(t) == Mapped(t, Decoding)
           part(k) == SubSeq(s, 1, k)
           N == Len(s)
           T == {k \in 0..N : D(E(part(k))) = part(k)}
<1>1. N \in Nat /\ Encoding(chars) \in Rules /\ Decoding \in Rules
  BY LenProperties, RulesType DEF Text
<1>2. ASSUME NEW t \in Text, NEW x \in Words, x \notin Signs \/ x = "%"
      PROVE  D(E(Append(t, x))) = Append(D(E(t)), x)
  <2>1. E(t) \in Text
    BY <1>1, MappedType
  <2>2. E(Append(t, x)) = E(t) \o Encoding(chars)[x]
    BY <1>1, MappedAppend
  <2>3. CASE x \in chars
    <3>1. Encoding(chars)[x] = Percent(x) /\ x \in Special
      BY <2>3 DEF Encoding
    <3> QED
      BY <2>1, <2>2, <3>1, DecodedPercent
  <2>4. CASE x \notin chars
    <3>1. Encoding(chars)[x] = <<x>> /\ x \in Words \ Signs
      BY <1>2, <2>4 DEF Encoding
    <3>2. E(t) \o <<x>> = Append(E(t), x)
      BY <2>1, AppendIsConcat DEF Text
    <3>3. D(Append(E(t), x)) = D(E(t)) \o <<x>>
      BY <1>1, <2>1, <3>1, MappedAppend, DecodedWord
    <3>4. D(E(t)) \in Text
      BY <1>1, <2>1, MappedType
    <3> QED
      BY <2>2, <3>1, <3>2, <3>3, <3>4, AppendIsConcat DEF Text
  <2> QED
    BY <2>3, <2>4
<1>3. 0 \in T
  <2>1. part(0) = <<>>
    BY <1>1, BeginningOfSeq, EmptySeq DEF Text
  <2>2. D(E(<<>>)) = <<>>
    BY MappedNothing
  <2>3. D(E(part(0))) = part(0)
    <3> HIDE DEF D, E, part
    <3> QED
      BY <2>1, <2>2
  <2> HIDE DEF D, E, part
  <2> QED
    BY <1>1, <2>3
<1>4. \A k \in 1..N : k - 1 \in T => k \in T
  <2> SUFFICES ASSUME NEW k \in 1..N, k - 1 \in T PROVE k \in T
    OBVIOUS
  <2>1. /\ k \in 0..N /\ k - 1 \in 0..N /\ D(E(part(k - 1))) = part(k - 1)
    BY <1>1
  <2>2. part(k) = Append(part(k - 1), s[k])
    BY BeginningGrows DEF Text
  <2>3. part(k - 1) \in Text
    BY <2>1, BeginningOfSeq DEF Text
  <2>4. s[k] \in Words /\ (s[k] \notin Signs \/ s[k] = "%")
    <3>1. s[k] \in Words /\ s[k] \in ToSet(s)
      BY <1>1, LenProperties, ElementOfSeq DEF Text, ToSet
    <3> QED
      BY <3>1
  <2> HIDE DEF D, E, part
  <2>5. D(E(part(k))) = part(k)
    BY <1>2, <2>1, <2>2, <2>3, <2>4
  <2> QED
    BY <2>1, <2>5
<1> HIDE DEF T
<1>5. N \in T
  <2>1. \A k \in 0..N : k \in T
    BY <1>1, <1>3, <1>4, InductionUpTo
  <2> QED
    BY <1>1, <2>1
<1>6. D(E(s)) = s
  <2>1. part(N) = s
    <3>1. N \in 0..N
      BY <1>1
    <3>2. /\ part(N) \in Seq(Words) /\ Len(part(N)) = N
          /\ \A j \in 1..N : part(N)[j] = s[j]
      BY <3>1, BeginningOfSeq DEF Text
    <3> HIDE DEF part
    <3> QED
      BY <3>2, SeqEqual DEF Text
  <2> QED
    BY <1>5, <2>1 DEF T
<1>7. E(s) \in Text
  BY <1>1, MappedType
<1> QED
  BY <1>6, <1>7, ReadByRules

-----------------------------------------------------------------------------
(* The pieces of a text between separators.                                *)

\* The lists of texts that have a last one, to which a character may be added.
Lists(S) == Seq(Seq(S)) \ {<<>>}

Extended(p, x) == [p EXCEPT ![Len(p)] = Append(@, x)]

NextPieces(p, x, c) == IF x = c THEN Append(p, <<>>) ELSE Extended(p, x)

LEMMA ExtendedIsList ==
  ASSUME NEW S, NEW p \in Lists(S), NEW x \in S
  PROVE  /\ Extended(p, x) \in Lists(S) /\ Len(Extended(p, x)) = Len(p)
         /\ \A i \in 1..Len(p) :
              Extended(p, x)[i] = IF i = Len(p) THEN Append(p[Len(p)], x) ELSE p[i]
<1>1. p \in Seq(Seq(S)) /\ Len(p) \in 1..Len(p) /\ Len(p) # 0
  BY EmptySeq, LenProperties DEF Lists
<1>2. p[Len(p)] \in Seq(S)
  BY <1>1, ElementOfSeq
<1>3. Append(p[Len(p)], x) \in Seq(S)
  BY <1>2, AppendProperties
<1>4. /\ Extended(p, x) \in Seq(Seq(S)) /\ Len(Extended(p, x)) = Len(p)
      /\ \A i \in 1..Len(p) :
           Extended(p, x)[i] = IF i = Len(p) THEN Append(p[Len(p)], x) ELSE p[i]
  BY <1>1, <1>3, ExceptSeq DEF Extended
<1>5. Extended(p, x) # <<>>
  BY <1>1, <1>4, EmptySeq
<1> QED
  BY <1>4, <1>5 DEF Lists

LEMMA NextPiecesIsList ==
  ASSUME NEW S, NEW p \in Lists(S), NEW x \in S, NEW c
  PROVE  NextPieces(p, x, c) \in Lists(S)
<1>1. <<>> \in Seq(S) /\ p \in Seq(Seq(S))
  BY EmptySeq DEF Lists
<1>2. Append(p, <<>>) \in Lists(S)
  BY <1>1, AppendProperties DEF Lists
<1> QED
  BY <1>2, ExtendedIsList DEF NextPieces

OnePiece == << <<>> >>

LEMMA OnePieceIsList ==
  ASSUME NEW S
  PROVE  OnePiece \in Lists(S)
<1>1. <<>> \in Seq(S)
  BY EmptySeq
<1>2. OnePiece \in Seq(Seq(S))
  BY <1>1 DEF OnePiece
<1>3. OnePiece # <<>>
  BY DEF OnePiece
<1> QED
  BY <1>2, <1>3 DEF Lists

ReadsPieces(f, s, c) ==
  f[0] = OnePiece /\ \A n \in 1..Len(s) : f[n] = NextPieces(f[n - 1], s[n], c)

CanRead(s, S, c) ==
  \E f \in [0..Len(s) -> Lists(S)] : ReadsPieces(f, s, c) /\ Pieces(s, c) = f[Len(s)]

LEMMA PiecesFollow ==
  ASSUME NEW S, NEW s \in Seq(S), NEW c
  PROVE  CanRead(s, S, c)
<1> DEFINE N == Len(s)
           next == [q \in Lists(S) \X (1..N) |-> NextPieces(q[1], s[q[2]], c)]
           read[n \in 0..N] ==
             IF n = 0 THEN << <<>> >>
             ELSE LET done == read[n - 1] IN
               IF s[n] = c THEN Append(done, <<>>)
               ELSE [done EXCEPT ![Len(done)] = Append(@, s[n])]
<1>1. N \in Nat /\ \A n \in 1..N : s[n] \in S
  BY LenProperties, ElementOfSeq
<1>2. next \in Steps(Lists(S), N)
  <2>1. \A q \in Lists(S) \X (1..N) : NextPieces(q[1], s[q[2]], c) \in Lists(S)
    BY <1>1, NextPiecesIsList
  <2> QED
    BY <2>1 DEF Steps
<1>3. \A v \in Lists(S), n \in 1..N : next[<<v, n>>] = NextPieces(v, s[n], c)
  OBVIOUS
<1> HIDE DEF N, next
<1>4. PICK f \in [0..N -> Lists(S)] :
        f[0] = OnePiece /\ \A n \in 1..N : f[n] = next[<<f[n - 1], n>>]
  <2>1. CanFollow(N, Lists(S), OnePiece, next)
    BY <1>1, <1>2, OnePieceIsList, RecursionUpTo
  <2> QED
    BY <2>1 DEF CanFollow, Follows
<1>5. ASSUME NEW n \in 1..N
      PROVE  f[n] = NextPieces(f[n - 1], s[n], c)
  <2>1. n - 1 \in 0..N
    BY <1>1
  <2>2. f[n - 1] \in Lists(S)
    BY <2>1
  <2> QED
    BY <1>3, <1>4, <2>2
<1>6. f = [n \in 0..N |->
             IF n = 0 THEN << <<>> >>
             ELSE LET done == f[n - 1] IN
               IF s[n] = c THEN Append(done, <<>>)
               ELSE [done EXCEPT ![Len(done)] = Append(@, s[n])]]
  <2>1. ASSUME NEW n \in 0..N, n # 0
        PROVE  f[n] = LET done == f[n - 1] IN
                        IF s[n] = c THEN Append(done, <<>>)
                        ELSE [done EXCEPT ![Len(done)] = Append(@, s[n])]
    <3>1. n \in 1..N
      BY <1>1, <2>1
    <3> QED
      BY <1>5, <3>1 DEF NextPieces, Extended
  <2>2. f = [n \in 0..N |-> f[n]]
    OBVIOUS
  <2>3. f[0] = << <<>> >>
    BY <1>4 DEF OnePiece
  <2> QED
    BY <2>1, <2>2, <2>3, Zenon
<1>7. read = [n \in 0..N |->
                IF n = 0 THEN << <<>> >>
                ELSE LET done == read[n - 1] IN
                  IF s[n] = c THEN Append(done, <<>>)
                  ELSE [done EXCEPT ![Len(done)] = Append(@, s[n])]]
  BY <1>6, Zenon
<1> HIDE DEF read
<1>8. ASSUME NEW n \in 1..N
      PROVE  read[n] = NextPieces(read[n - 1], s[n], c)
  <2>1. n \in 0..N /\ n # 0
    BY <1>1
  <2>2. read[n] = LET done == read[n - 1] IN
                    IF s[n] = c THEN Append(done, <<>>)
                    ELSE [done EXCEPT ![Len(done)] = Append(@, s[n])]
    BY <1>7, <2>1, Zenon
  <2> QED
    BY <2>2 DEF NextPieces, Extended
<1>9. read[0] = OnePiece
  BY <1>1, <1>7 DEF OnePiece
<1>10. \A n \in 0..N : read[n] \in Lists(S)
  <2> DEFINE U == {n \in 0..N : read[n] \in Lists(S)}
  <2>1. 0 \in U
    BY <1>1, <1>9, OnePieceIsList
  <2>2. \A n \in 1..N : n - 1 \in U => n \in U
    <3> SUFFICES ASSUME NEW n \in 1..N, n - 1 \in U PROVE n \in U
      OBVIOUS
    <3>1. n \in 0..N
      BY <1>1
    <3>2. NextPieces(read[n - 1], s[n], c) \in Lists(S)
      BY <1>1, NextPiecesIsList
    <3> QED
      BY <1>8, <3>1, <3>2
  <2> HIDE DEF U
  <2>3. \A n \in 0..N : n \in U
    BY <1>1, <2>1, <2>2, InductionUpTo
  <2> QED
    BY <2>3 DEF U
<1>11. read \in [0..N -> Lists(S)]
  <2>1. read = [n \in 0..N |-> read[n]]
    BY <1>7
  <2> QED
    BY <1>10, <2>1
<1>12. Pieces(s, c) = read[N]
  BY DEF Pieces, read, N
<1> QED
  BY <1>8, <1>9, <1>11, <1>12 DEF ReadsPieces, CanRead, N

\* The laws of Pieces: of no text, and of a text and one more character.
LEMMA PiecesOfNothing ==
  ASSUME NEW c
  PROVE  Pieces(<<>>, c) = OnePiece
<1>1. <<>> \in Seq({}) /\ Len(<<>>) = 0
  BY EmptySeq
<1>2. CanRead(<<>>, {}, c)
  BY <1>1, PiecesFollow
<1> QED
  BY <1>1, <1>2 DEF CanRead, ReadsPieces

LEMMA PiecesAreList ==
  ASSUME NEW S, NEW s \in Seq(S), NEW c
  PROVE  Pieces(s, c) \in Lists(S)
<1>1. Len(s) \in 0..Len(s)
  BY LenProperties
<1>2. CanRead(s, S, c)
  BY PiecesFollow
<1> QED
  BY <1>1, <1>2 DEF CanRead

LEMMA PiecesAppend ==
  ASSUME NEW S, NEW s \in Seq(S), NEW x \in S, NEW c
  PROVE  Pieces(Append(s, x), c) = NextPieces(Pieces(s, c), x, c)
<1> DEFINE t == Append(s, x)
           N == Len(s)
<1>1. /\ t \in Seq(S) /\ Len(t) = N + 1
      /\ \A n \in 1..N : t[n] = s[n]
      /\ t[N + 1] = x
      /\ N \in Nat
  BY AppendProperties, LenProperties
<1> HIDE DEF t
<1>2. PICK f \in [0..N -> Lists(S)] : ReadsPieces(f, s, c) /\ Pieces(s, c) = f[N]
  <2>1. CanRead(s, S, c)
    BY PiecesFollow
  <2> QED
    BY <2>1 DEF CanRead
<1>3. PICK g \in [0..(N + 1) -> Lists(S)] : ReadsPieces(g, t, c) /\ Pieces(t, c) = g[N + 1]
  <2>1. CanRead(t, S, c)
    BY <1>1, PiecesFollow
  <2> QED
    BY <1>1, <2>1 DEF CanRead
<1>4. f[N] = g[N]
  <2> DEFINE A == {n \in 0..N : f[n] = g[n]}
  <2>1. 0 \in A
    BY <1>1, <1>2, <1>3 DEF ReadsPieces
  <2>2. \A n \in 1..N : n - 1 \in A => n \in A
    <3> SUFFICES ASSUME NEW n \in 1..N, n - 1 \in A PROVE n \in A
      OBVIOUS
    <3>1. n \in 0..N /\ n \in 1..Len(t) /\ t[n] = s[n]
      BY <1>1
    <3>2. f[n] = NextPieces(f[n - 1], s[n], c) /\ g[n] = NextPieces(g[n - 1], t[n], c)
      BY <1>2, <1>3, <3>1 DEF ReadsPieces
    <3> QED
      BY <3>1, <3>2
  <2> HIDE DEF A
  <2>3. \A n \in 0..N : n \in A
    BY <1>1, <2>1, <2>2, InductionUpTo
  <2> QED
    BY <1>1, <2>3 DEF A
<1>5. N + 1 \in 1..Len(t) /\ (N + 1) - 1 = N
  BY <1>1
<1>6. g[N + 1] = NextPieces(g[N], x, c)
  BY <1>1, <1>3, <1>5 DEF ReadsPieces
<1> QED
  BY <1>2, <1>3, <1>4, <1>6 DEF t

LEMMA NextPiecesOfConcat ==
  ASSUME NEW S, NEW p \in Seq(Seq(S)), NEW q \in Lists(S), NEW x \in S, NEW c
  PROVE  NextPieces(p \o q, x, c) = p \o NextPieces(q, x, c)
<1> DEFINE r == p \o q
<1>1. q \in Seq(Seq(S)) /\ <<>> \in Seq(S)
  BY EmptySeq DEF Lists
<1>2. CASE x = c
  <2>1. p \o Append(q, <<>>) = Append(p \o q, <<>>)
    BY <1>1, ConcatAppend
  <2> QED
    BY <1>2, <2>1 DEF NextPieces
<1>3. CASE x # c
  <2>1. /\ Len(p) \in Nat /\ Len(q) \in Nat /\ Len(q) # 0
        /\ r \in Seq(Seq(S)) /\ Len(r) = Len(p) + Len(q)
        /\ \A i \in 1..(Len(p) + Len(q)) : r[i] = IF i <= Len(p) THEN p[i] ELSE q[i - Len(p)]
    BY <1>1, LenProperties, EmptySeq, ConcatProperties DEF Lists
  <2> HIDE DEF r
  <2>2. r \in Lists(S)
    BY <2>1, EmptySeq DEF Lists
  <2> DEFINE e == Extended(q, x)
             g == p \o e
             h == Extended(r, x)
  <2>3. /\ e \in Seq(Seq(S)) /\ Len(e) = Len(q)
        /\ \A i \in 1..Len(q) : e[i] = IF i = Len(q) THEN Append(q[Len(q)], x) ELSE q[i]
    BY ExtendedIsList DEF Lists
  <2>4. /\ h \in Seq(Seq(S)) /\ Len(h) = Len(r)
        /\ \A i \in 1..Len(r) : h[i] = IF i = Len(r) THEN Append(r[Len(r)], x) ELSE r[i]
    BY <2>2, ExtendedIsList DEF Lists
  <2> HIDE DEF e, h
  <2>5. /\ g \in Seq(Seq(S)) /\ Len(g) = Len(p) + Len(e)
        /\ \A i \in 1..(Len(p) + Len(e)) : g[i] = IF i <= Len(p) THEN p[i] ELSE e[i - Len(p)]
    BY <2>3, ConcatProperties
  <2> HIDE DEF g
  <2>6. ASSUME NEW i \in 1..Len(r)
        PROVE  h[i] = g[i]
    <3>1. i \in 1..(Len(p) + Len(q)) /\ i \in 1..(Len(p) + Len(e))
      BY <2>1, <2>3
    <3>2. CASE i <= Len(p)
      <4>1. i # Len(r)
        BY <2>1, <3>2
      <4> QED
        BY <2>1, <2>4, <2>5, <3>1, <3>2, <4>1
    <3>3. CASE ~(i <= Len(p)) /\ i # Len(r)
      <4>1. i - Len(p) \in 1..Len(q) /\ i - Len(p) # Len(q)
        BY <2>1, <3>1, <3>3
      <4>2. g[i] = e[i - Len(p)] /\ r[i] = q[i - Len(p)] /\ h[i] = r[i]
        BY <2>1, <2>4, <2>5, <3>1, <3>3
      <4> QED
        BY <2>3, <4>1, <4>2
    <3>4. CASE ~(i <= Len(p)) /\ i = Len(r)
      <4>1. i - Len(p) = Len(q) /\ Len(q) \in 1..Len(q)
        BY <2>1, <3>4
      <4>2. g[i] = e[Len(q)] /\ r[i] = q[Len(q)] /\ h[i] = Append(r[i], x)
        BY <2>1, <2>4, <2>5, <3>1, <3>4, <4>1
      <4> QED
        BY <2>3, <4>1, <4>2
    <3> QED
      BY <3>2, <3>3, <3>4
  <2>7. h = g
    BY <2>1, <2>3, <2>4, <2>5, <2>6, SeqEqual
  <2> QED
    BY <1>3, <2>7 DEF NextPieces, g, h, e, r
<1> QED
  BY <1>2, <1>3

\* A separator divides the pieces of a text into those before it and those behind it.
LEMMA PiecesAround ==
  ASSUME NEW S, NEW a \in Seq(S), NEW c \in S, NEW b \in Seq(S)
  PROVE  Pieces(a \o <<c>> \o b, c) = Pieces(a, c) \o Pieces(b, c)
<1> DEFINE t == a \o <<c>>
           P(s) == Pieces(s, c)
           T == {s \in Seq(S) : P(t \o s) = P(a) \o P(s)}
<1>1. t \in Seq(S) /\ t = Append(a, c) /\ <<>> \in Seq(S)
  BY AppendIsConcat, AppendProperties, EmptySeq
<1>2. P(a) \in Seq(Seq(S))
  BY PiecesAreList DEF Lists
<1>3. <<>> \in T
  <2>1. t \o <<>> = t
    BY <1>1, ConcatEmptySeq
  <2>2. P(Append(a, c)) = Append(P(a), <<>>)
    BY PiecesAppend DEF NextPieces
  <2>3. Append(P(a), <<>>) = P(a) \o << <<>> >>
    BY <1>1, <1>2, AppendIsConcat
  <2>4. P(<<>>) = << <<>> >>
    BY PiecesOfNothing DEF OnePiece
  <2>5. P(t \o <<>>) = P(a) \o P(<<>>)
    <3> HIDE DEF P, t
    <3> QED
      BY <1>1, <2>1, <2>2, <2>3, <2>4
  <2> HIDE DEF P, t
  <2> QED
    BY <1>1, <2>5
<1>4. ASSUME NEW s \in Seq(S), NEW x \in S, s \in T
      PROVE  Append(s, x) \in T
  <2>1. t \o Append(s, x) = Append(t \o s, x)
    BY <1>1, ConcatAppend
  <2>2. t \o s \in Seq(S) /\ Append(s, x) \in Seq(S)
    BY <1>1, ConcatProperties, AppendProperties
  <2>3. P(Append(t \o s, x)) = NextPieces(P(t \o s), x, c)
    BY <2>2, PiecesAppend
  <2>4. P(s) \in Lists(S)
    BY PiecesAreList
  <2>5. NextPieces(P(a) \o P(s), x, c) = P(a) \o NextPieces(P(s), x, c)
    BY <1>2, <2>4, NextPiecesOfConcat
  <2>6. P(Append(s, x)) = NextPieces(P(s), x, c)
    BY PiecesAppend
  <2>7. P(t \o s) = P(a) \o P(s)
    BY <1>4
  <2> HIDE DEF P, t
  <2> QED
    BY <2>1, <2>2, <2>3, <2>5, <2>6, <2>7
<1> HIDE DEF T
<1>5. b \in T
  BY <1>3, <1>4, InductionOnSeq
<1> QED
  BY <1>5 DEF T

\* A text without a separator is one piece.
LEMMA PiecesWhole ==
  ASSUME NEW S, NEW s \in Seq(S), NEW c, c \notin ToSet(s)
  PROVE  Pieces(s, c) = <<s>>
<1> DEFINE T == {t \in Seq(S) : c \notin ToSet(t) => Pieces(t, c) = <<t>>}
<1>1. <<>> \in T
  BY EmptySeq, PiecesOfNothing DEF OnePiece
<1>2. ASSUME NEW t \in Seq(S), NEW x \in S, t \in T
      PROVE  Append(t, x) \in T
  <2>1. ToSet(Append(t, x)) = ToSet(t) \cup {x} /\ Append(t, x) \in Seq(S)
    BY AppendSet, AppendProperties
  <2>2. ASSUME c \notin ToSet(Append(t, x))
        PROVE  Pieces(Append(t, x), c) = <<Append(t, x)>>
    <3>1. c \notin ToSet(t) /\ x # c
      BY <2>1, <2>2
    <3>2. Pieces(t, c) = <<t>>
      BY <1>2, <3>1
    <3>3. Pieces(Append(t, x), c) = Extended(<<t>>, x)
      BY <3>1, <3>2, PiecesAppend DEF NextPieces
    <3>4. Extended(<<t>>, x) = <<Append(t, x)>>
      BY DEF Extended
    <3> QED
      BY <3>3, <3>4
  <2> QED
    BY <2>1, <2>2
<1> HIDE DEF T
<1>3. s \in T
  BY <1>1, <1>2, InductionOnSeq
<1> QED
  BY <1>3 DEF T

\* Lines that end with a separator.
Lines(lines, c) == FlattenSeq([i \in DOMAIN lines |-> Append(lines[i], c)])

\* None of the lines holds a separator.
Unbroken(lines, c) == \A i \in 1..Len(lines) : c \notin ToSet(lines[i])

LEMMA LinesOfNothing ==
  ASSUME NEW c
  PROVE  Lines(<<>>, c) = <<>>
<1>1. [i \in DOMAIN <<>> |-> Append(<<>>[i], c)] = <<>>
  OBVIOUS
<1> QED
  BY <1>1, FlattenNothing DEF Lines

LEMMA LinesAppend ==
  ASSUME NEW S, NEW lines \in Seq(Seq(S)), NEW line \in Seq(S), NEW c \in S
  PROVE  /\ Lines(Append(lines, line), c) = Append(Lines(lines, c) \o line, c)
         /\ Lines(lines, c) \in Seq(S)
<1> DEFINE more == Append(lines, line)
           N == Len(lines)
           e == [i \in DOMAIN lines |-> Append(lines[i], c)]
           f == [i \in DOMAIN more |-> Append(more[i], c)]
<1>1. /\ N \in Nat /\ DOMAIN lines = 1..N /\ \A i \in 1..N : lines[i] \in Seq(S)
      /\ DOMAIN more = 1..(N + 1) /\ more \in Seq(Seq(S)) /\ Len(more) = N + 1
      /\ \A i \in 1..N : more[i] = lines[i]
      /\ more[N + 1] = line
  BY LenProperties, ElementOfSeq, AppendProperties
<1> HIDE DEF more
<1>2. \A t \in Seq(S) : Append(t, c) \in Seq(S)
  BY AppendProperties
<1>3. /\ e = [i \in 1..N |-> e[i]]
      /\ f = [i \in 1..(N + 1) |-> f[i]]
      /\ \A i \in 1..N : f[i] = e[i]
      /\ f[N + 1] = Append(line, c)
  <2> HIDE DEF N
  <2>1. e = [i \in 1..N |-> e[i]]
    BY <1>1
  <2>2. f = [i \in 1..(N + 1) |-> f[i]]
    BY <1>1
  <2>3. \A i \in 1..N : i \in 1..(N + 1)
    BY <1>1
  <2>4. N + 1 \in 1..(N + 1)
    BY <1>1
  <2>5. \A i \in 1..N : f[i] = e[i]
    BY <1>1, <2>3
  <2>6. f[N + 1] = Append(line, c)
    BY <1>1, <2>4
  <2> QED
    BY <2>1, <2>2, <2>5, <2>6
<1>4. \A i \in 1..(N + 1) : f[i] \in Seq(S)
  <2>1. \A i \in 1..(N + 1) : more[i] \in Seq(S)
    BY <1>1, ElementOfSeq
  <2> QED
    BY <1>1, <1>2, <2>1
<1> HIDE DEF e, f, N
<1>5. f = Append(e, Append(line, c)) /\ e \in Seq(Seq(S))
  <2> DEFINE U == Seq(S)
  <2>1. Grows(e, f, N, U)
    <3>1. \A i \in 1..N : i \in 1..(N + 1)
      BY <1>1
    <3>2. \A i \in 1..N : e[i] \in U
      BY <1>3, <1>4, <3>1
    <3>3. e \in [1..N -> U]
      BY <1>3, <3>2
    <3>4. f \in [1..(N + 1) -> U]
      BY <1>3, <1>4
    <3> QED
      BY <1>1, <1>3, <3>3, <3>4 DEF Grows
  <2> HIDE DEF U
  <2>2. f = Append(e, f[N + 1]) /\ e \in Seq(U)
    BY <2>1, ListGrows
  <2> QED
    BY <1>3, <2>2 DEF U
<1>6. Append(line, c) \in Seq(S)
  BY <1>2
<1>7. FlattenSeq(f) = FlattenSeq(e) \o Append(line, c)
  BY <1>5, <1>6, FlattenAppend
<1>8. FlattenSeq(e) \in Seq(S)
  BY <1>5, FlattenType
<1>9. FlattenSeq(e) \o Append(line, c) = Append(FlattenSeq(e) \o line, c)
  BY <1>8, ConcatAppend
<1> QED
  BY <1>7, <1>8, <1>9 DEF Lines, e, f, more

LEMMA LinesType ==
  ASSUME NEW S, NEW lines \in Seq(Seq(S)), NEW c \in S
  PROVE  Lines(lines, c) \in Seq(S)
<1>1. <<>> \in Seq(S)
  BY EmptySeq
<1> QED
  BY <1>1, LinesAppend

\* The pieces of lines are the lines, and what follows the last one.
LEMMA PiecesOfLines ==
  ASSUME NEW S, NEW c \in S, NEW lines \in Seq(Seq(S)), Unbroken(lines, c),
         NEW last \in Seq(S), c \notin ToSet(last)
  PROVE  Pieces(Lines(lines, c) \o last, c) = Append(lines, last)
<1> DEFINE Fits(l) == \A s \in Seq(S) : c \notin ToSet(s) =>
                        Pieces(Lines(l, c) \o s, c) = Append(l, s)
           T == {l \in Seq(Seq(S)) : Unbroken(l, c) => Fits(l)}
<1>1. <<>> \in T
  <2>1. <<>> \in Seq(Seq(S))
    BY EmptySeq
  <2>2. ASSUME NEW s \in Seq(S), c \notin ToSet(s)
        PROVE  Pieces(Lines(<<>>, c) \o s, c) = Append(<<>>, s)
    <3>1. Lines(<<>>, c) \o s = s
      BY LinesOfNothing, ConcatEmptySeq
    <3>2. Pieces(s, c) = <<s>>
      BY <2>2, PiecesWhole
    <3>3. Append(<<>>, s) = <<s>>
      OBVIOUS
    <3> QED
      BY <3>1, <3>2, <3>3
  <2> QED
    BY <2>1, <2>2
<1>2. ASSUME NEW l \in Seq(Seq(S)), NEW line \in Seq(S), l \in T
      PROVE  Append(l, line) \in T
  <2> DEFINE m == Append(l, line)
  <2>1. /\ m \in Seq(Seq(S)) /\ Len(m) = Len(l) + 1 /\ Len(l) \in Nat
        /\ \A i \in 1..Len(l) : m[i] = l[i]
        /\ m[Len(l) + 1] = line
    BY AppendProperties, LenProperties
  <2> HIDE DEF m
  <2>2. ASSUME Unbroken(m, c)
        PROVE  Unbroken(l, c) /\ c \notin ToSet(line)
    <3>1. \A i \in 1..Len(l) : i \in 1..Len(m)
      BY <2>1
    <3>2. Len(l) + 1 \in 1..Len(m)
      BY <2>1
    <3> QED
      BY <2>1, <2>2, <3>1, <3>2 DEF Unbroken
  <2>3. ASSUME Unbroken(m, c), NEW s \in Seq(S), c \notin ToSet(s)
        PROVE  Pieces(Lines(m, c) \o s, c) = Append(m, s)
    <3> DEFINE before == Lines(l, c) \o line
    <3>1. before \in Seq(S)
      BY LinesType, ConcatProperties
    <3>2. Lines(m, c) = before \o <<c>>
      <4>1. Lines(m, c) = Append(before, c)
        BY LinesAppend, Zenon DEF m
      <4> HIDE DEF before
      <4> QED
        BY <3>1, <4>1, AppendIsConcat
    <3> HIDE DEF before
    <3>3. Pieces(before \o <<c>> \o s, c) = Pieces(before, c) \o Pieces(s, c)
      BY <3>1, PiecesAround
    <3>4. Pieces(before, c) = m
      BY <1>2, <2>2, <2>3 DEF m, before
    <3>5. Pieces(s, c) = <<s>>
      BY <2>3, PiecesWhole
    <3>6. m \o <<s>> = Append(m, s)
      BY <2>1, AppendIsConcat
    <3> QED
      BY <3>2, <3>3, <3>4, <3>5, <3>6
  <2> QED
    BY <2>1, <2>3 DEF m
<1> HIDE DEF T
<1>3. lines \in T
  BY <1>1, <1>2, InductionOnSeq
<1> QED
  BY <1>3 DEF T

-----------------------------------------------------------------------------
(* The head of an answer.                                                  *)

\* The line of a field as a server writes it.
LineOf(head) ==
  [field \in Fields |-> <<field.name, ":">>
                          \o (IF head.spaced THEN <<Space>> ELSE <<>>) \o field.value]

\* What HttpHeaders makes of a line, and the field that it should make of one.
Reading == [line \in Text |-> IF IsHeader(line) THEN <<ReadLine(line)>> ELSE <<>>]

AsRead == [field \in Fields |-> Field(Lower[field.name], field.value)]

\* The fields that the heads hold and ResponseIsReadBack is about.
Legible(head) ==
  {field \in Fields :
    /\ field.name \notin {":", EndOfLine} /\ EndOfLine \notin ToSet(field.value)
    /\ field.value = <<>> \/ field.value[1] # Space
    /\ head.spaced \/ field.value # <<>>
    /\ Versions \cap ({field.name} \cup ToSet(field.value)) = {}}

\* The marks of a head are different words.
LEMMA MarksDiffer ==
  /\ Space # EndOfLine /\ ":" # EndOfLine
BY Zenon DEF Space, EndOfLine

\* Texts one behind the other.
LEMMA TextsAround ==
  ASSUME NEW s \in Text, NEW t \in Text
  PROVE  /\ ToSet(s \o t) = ToSet(s) \cup ToSet(t)
         /\ \A u \in Text : (s \o t) \o u = s \o (t \o u)
         /\ s \o <<>> = s /\ <<>> \o s = s
<1>1. s \in Seq(Words) /\ t \in Seq(Words)
  BY DEF Text
<1>2. ToSet(s \o t) = ToSet(s) \cup ToSet(t)
  BY <1>1, ConcatSet
<1>3. ASSUME NEW u \in Text
      PROVE  (s \o t) \o u = s \o (t \o u)
  <2>1. u \in Seq(Words)
    BY DEF Text
  <2> QED
    BY <1>1, <2>1, ConcatAssociative
<1> QED
  BY <1>1, <1>2, <1>3, ConcatEmptySeq

Groups(s, t) == \A u \in Text : (s \o t) \o u = s \o (t \o u)

LEMMA TextsGroup ==
  ASSUME NEW s \in Text, NEW t \in Text
  PROVE  Groups(s, t)
BY TextsAround DEF Groups

LEMMA OneAndOne ==
  ASSUME NEW v \in Words, NEW w \in Words
  PROVE  <<v>> \o <<w>> = <<v, w>>
<1>1. <<v>> \in Seq(Words)
  BY OneWord DEF Text
<1>2. Append(<<v>>, w) = <<v>> \o <<w>>
  BY <1>1, AppendIsConcat
<1>3. Append(<<v>>, w) = <<v, w>>
  <2>1. <<v, w>> \in Seq(Words) /\ Len(<<v, w>>) = 2
    BY TwoWords DEF Text
  <2>2. <<v>>[1] = v /\ <<v, w>>[1] = v /\ <<v, w>>[2] = w /\ Len(<<v>>) = 1
    OBVIOUS
  <2> DEFINE a == Append(<<v>>, w)
             one == <<v>>
             two == <<v, w>>
  <2> HIDE DEF one, two
  <2>3. a \in Seq(Words) /\ Len(a) = 2 /\ a[1] = v /\ a[2] = w
    BY <1>1, <2>2, AppendProperties DEF one, two
  <2> HIDE DEF a
  <2>4. \A i \in 1..2 : a[i] = two[i]
    BY <2>2, <2>3 DEF two
  <2> QED
    BY <2>1, <2>3, <2>4, SeqEqual DEF a, one, two
<1> QED
  BY <1>2, <1>3

LEMMA OneWordSet ==
  ASSUME NEW w \in Words
  PROVE  ToSet(<<w>>) = {w} /\ Len(<<w>>) = 1
BY DEF ToSet

LEMMA LineOfType ==
  ASSUME NEW head, NEW field \in Fields
  PROVE  LineOf(head)[field] \in Text
<1> DEFINE sp == IF head.spaced THEN <<Space>> ELSE <<>>
<1>1. <<field.name, ":">> \in Text /\ field.value \in Text
  BY TwoWords, WrittenWords DEF Fields
<1>2. sp \in Text
  BY WrittenWords, OneWord, NoText
<1> HIDE DEF sp
<1>3. <<field.name, ":">> \o sp \o field.value \in Text
  BY <1>1, <1>2, TextsFollow
<1> QED
  BY <1>3 DEF LineOf, sp

\* A field whose value is not empty, or stands behind a space, is read from its line.
LEMMA LegibleIsRead ==
  ASSUME NEW head, NEW field \in Legible(head)
  PROVE  LET line == LineOf(head)[field] IN
           /\ EndOfLine \notin ToSet(line)
           /\ Reading[line] = <<AsRead[field]>>
           /\ ~(IsHeader(line) /\ LineThrows(line))
<1> DEFINE name == field.name
           value == field.value
           sp == IF head.spaced THEN <<Space>> ELSE <<>>
           tail == sp \o value
           first == <<name>>
           colon == <<":">>
           line == first \o colon \o tail
<1>1. field \in Fields /\ name \in Words /\ value \in Text /\ name # ":"
  BY DEF Legible, Fields
<1>2. sp \in Text
  BY WrittenWords, OneWord, NoText
<1>3. sp = <<Space>> \/ (sp = <<>> /\ value # <<>>)
  BY DEF Legible
<1>4. ToSet(sp) \subseteq {Space}
  BY DEF ToSet
<1>5. LineOf(head)[field] = <<name, ":">> \o sp \o value
  BY <1>1 DEF LineOf
<1> HIDE DEF sp
<1>6. tail \in Text /\ ToSet(tail) = ToSet(sp) \cup ToSet(value)
  BY <1>1, <1>2, TextsFollow, TextsAround
<1>7. first \in Text /\ ToSet(first) = {name} /\ Len(first) = 1
  BY <1>1, OneWord, OneWordSet
<1>8. colon \in Text /\ ToSet(colon) = {":"}
  BY OneWord, OneWordSet, WrittenWords
<1>9. first \o colon = <<name, ":">>
  BY <1>1, OneAndOne, WrittenWords
<1> DEFINE front == first \o colon
<1>10. front \in Text /\ ToSet(front) = {name} \cup {":"}
  <2> HIDE DEF first, colon
  <2>1. ToSet(front) = ToSet(first) \cup ToSet(colon) /\ front \in Text
    BY <1>7, <1>8, TextsFollow, TextsAround, Zenon
  <2> QED
    BY <1>7, <1>8, <2>1
<1>11. LineOf(head)[field] = line
  <2>1. front \o sp \o value = front \o (sp \o value)
    <3> HIDE DEF front
    <3> QED
      BY <1>1, <1>2, <1>10, TextsAround
  <2> QED
    BY <1>5, <1>9, <2>1
<1>12. ToSet(line) = {name} \cup {":"} \cup ToSet(tail)
  <2> HIDE DEF tail
  <2>1. ToSet(front \o tail) = ToSet(front) \cup ToSet(tail)
    <3> HIDE DEF front
    <3> QED
      BY <1>6, <1>10, TextsAround
  <2> QED
    BY <1>10, <2>1
<1>13. tail # <<>> /\ Len(tail) > 0
  BY <1>1, <1>2, <1>3, ConcatProperties, LenProperties, EmptySeq DEF Text, tail
<1>14. (IF tail[1] = Space THEN Tail(tail) ELSE tail) = value
  <2>1. CASE sp = <<Space>>
    <3>1. tail = <<Space>> \o value
      BY <2>1 DEF tail
    <3> QED
      BY <1>1, <3>1 DEF Text
  <2>2. CASE sp = <<>> /\ value # <<>>
    <3>1. tail = value
      BY <1>1, <2>2, TextsAround DEF tail
    <3>2. value[1] # Space
      BY <2>2 DEF Legible
    <3> QED
      BY <3>1, <3>2
  <2> QED
    BY <1>3, <2>1, <2>2
<1> HIDE DEF tail
<1>15. /\ line \in Text
       /\ Find(line, ":") = 2 /\ After(line, Find(line, ":")) = tail
       /\ Len(line) = 2 + Len(tail)
       /\ line[1] = name
  <2>1. ":" \notin ToSet(first) /\ ":" \in Words
    BY <1>1, <1>7, WrittenWords
  <2>2. first \in Seq(Words) /\ tail \in Seq(Words)
    BY <1>6, <1>7 DEF Text
  <2>3. first[1] = name /\ 1 \in 1..Len(first)
    BY <1>7
  <2> HIDE DEF first
  <2>4. Find(line, ":") = Len(first) + 1 /\ After(line, Find(line, ":")) = tail
    BY <2>1, <2>2, FindFirst
  <2>5. /\ line \in Seq(Words) /\ Len(line) = Len(first) + 1 + Len(tail)
        /\ \A i \in 1..Len(first) : line[i] = first[i]
    BY <2>1, <2>2, Around
  <2> QED
    BY <1>7, <2>3, <2>4, <2>5 DEF Text
<1> HIDE DEF line
<1>16. IsHeader(line)
  <2>1. name \notin Versions /\ Versions \cap ToSet(value) = {}
    BY DEF Legible
  <2>2. Space \notin Versions /\ ":" \notin Versions
    BY HttpAssumption
  <2>3. Versions \cap ToSet(line) = {}
    BY <1>4, <1>6, <1>12, <2>1, <2>2
  <2> QED
    BY <1>15, <2>3 DEF IsHeader
<1>17. ReadLine(line) = AsRead[field]
  <2>1. ReadLine(line) = Field(Lower[name], value)
    BY <1>14, <1>15 DEF ReadLine
  <2> QED
    BY <1>1, <2>1 DEF AsRead
<1>18. ~LineThrows(line)
  BY <1>6, <1>13, <1>15, LenProperties DEF LineThrows, Text
<1>19. EndOfLine \notin ToSet(line)
  <2>1. EndOfLine # name /\ EndOfLine \notin ToSet(value)
    BY DEF Legible
  <2> QED
    BY <1>4, <1>6, <1>12, <2>1, MarksDiffer
<1>20. Reading[line] = <<AsRead[field]>>
  BY <1>15, <1>16, <1>17 DEF Reading
<1> QED
  BY <1>11, <1>18, <1>19, <1>20

\* The status line, the lines of the fields and what HttpHeaders makes of lines.
StatusLine(head) == <<head.version, Space, head.status, Space, "OK">>

FieldLines(head, fields) == Ruled(fields, LineOf(head))

AllRead(lines) == FlattenSeq(Ruled(lines, Reading))

LEMMA StatusLineIsNoHeader ==
  ASSUME NEW head \in Heads
  PROVE  LET line == StatusLine(head) IN
           /\ line \in Text /\ Len(line) = 5
           /\ line[1] = head.version /\ line[3] = head.status
           /\ <<head.version, Space, head.status, Space, "OK", EndOfLine>>
                = line \o <<EndOfLine>>
           /\ EndOfLine \notin ToSet(line)
           /\ head.version = "HTTP/1.1" => ~IsHeader(line)
<1> DEFINE v == head.version
           s == head.status
           line == <<v, Space, s, Space, "OK">>
           whole == <<v, Space, s, Space, "OK", EndOfLine>>
<1>1. {v, s, "OK"} \subseteq Words \ {EndOfLine}
  BY HttpAssumption
<1>2. v \in Words /\ s \in Words /\ "OK" \in Words /\ Space \in Words /\ EndOfLine \in Words
  BY <1>1, WrittenWords
<1>3. EndOfLine \notin {v, Space, s, "OK"}
  BY <1>1, MarksDiffer
<1> HIDE DEF v, s
<1>4. /\ line \in Seq(Words) /\ Len(line) = 5
      /\ line[1] = v /\ line[2] = Space /\ line[3] = s /\ line[4] = Space /\ line[5] = "OK"
  BY <1>2
<1>5. /\ whole \in Seq(Words) /\ Len(whole) = 6
      /\ whole[1] = v /\ whole[2] = Space /\ whole[3] = s /\ whole[4] = Space
      /\ whole[5] = "OK" /\ whole[6] = EndOfLine
  BY <1>2
<1>6. \A i \in 1..5 : line[i] \in {v, Space, s, "OK"}
  BY <1>4
<1> HIDE DEF line, whole
<1>7. ToSet(line) \subseteq {v, Space, s, "OK"}
  BY <1>4, <1>6, ToSetProperties
<1>8. v \in ToSet(line)
  <2>1. 1 \in 1..Len(line) /\ line \in Seq(Words) /\ line[1] = v
    BY <1>4
  <2> QED
    BY <2>1, ToSetProperties
<1>9. whole = line \o <<EndOfLine>>
  <2> DEFINE more == Append(line, EndOfLine)
  <2>1. /\ more \in Seq(Words) /\ Len(more) = 6
        /\ \A i \in 1..5 : more[i] = line[i]
        /\ more[6] = EndOfLine
    <3>1. line \in Seq(Words) /\ EndOfLine \in Words
      BY <1>2, <1>4
    <3>2. more \in Seq(Words)
      BY <3>1, AppendProperties
    <3>3. Len(more) = Len(line) + 1
      BY <3>1, AppendProperties
    <3>4. \A i \in 1..Len(line) : more[i] = line[i]
      BY <3>1, AppendProperties
    <3>5. more[Len(line) + 1] = EndOfLine
      BY <3>1, AppendProperties
    <3> HIDE DEF more
    <3> QED
      BY <1>4, <3>2, <3>3, <3>4, <3>5
  <2> HIDE DEF more
  <2>2. \A i \in 1..6 : more[i] = whole[i]
    <3>1. \A i \in 1..6 : i = 1 \/ i = 2 \/ i = 3 \/ i = 4 \/ i = 5 \/ i = 6
      OBVIOUS
    <3> QED
      BY <1>4, <1>5, <2>1, <3>1
  <2>3. whole = more
    BY <1>5, <2>1, <2>2, SeqEqual
  <2> QED
    BY <1>2, <1>4, <2>3, AppendIsConcat DEF more
<1>10. v = "HTTP/1.1" => ~IsHeader(line)
  BY <1>8, HttpAssumption DEF IsHeader
<1> QED
  BY <1>3, <1>4, <1>7, <1>9, <1>10 DEF StatusLine, Text, line, whole, v, s

LEMMA LineOfRule ==
  ASSUME NEW head
  PROVE  Rule(LineOf(head), Fields, Text) /\ Rule(LineOf(head), Fields, Seq(Words))
<1>1. LineOf(head) \in [Fields -> Text]
  <2>1. LineOf(head) = [field \in Fields |-> LineOf(head)[field]]
    BY DEF LineOf
  <2> QED
    BY <2>1, LineOfType
<1> QED
  BY <1>1 DEF Rule, Text

LEMMA ReadingRule ==
  Rule(Reading, Text, Seq({ReadLine(line) : line \in Text}))
<1> DEFINE V == {ReadLine(line) : line \in Text}
<1>1. ASSUME NEW line \in Text
      PROVE  Reading[line] \in Seq(V)
  <2>1. <<ReadLine(line)>> \in Seq(V) /\ <<>> \in Seq(V)
    BY EmptySeq
  <2> QED
    BY <2>1 DEF Reading
<1>2. Reading = [line \in Text |-> Reading[line]]
  BY DEF Reading
<1> QED
  BY <1>1, <1>2 DEF Rule

LEMMA AsReadRule ==
  Rule(AsRead, Fields, {AsRead[field] : field \in Fields})
<1>1. AsRead = [field \in Fields |-> AsRead[field]]
  BY DEF AsRead
<1> QED
  BY <1>1 DEF Rule

\* The text that a server writes, in lines.
LEMMA SpellIsLines ==
  ASSUME NEW head \in Heads
  PROVE  LET F == FieldLines(head, head.fields) IN
           /\ F \in Seq(Seq(Words))
           /\ Spell(head) = StatusLine(head) \o <<EndOfLine>> \o Append(Lines(F, EndOfLine), EndOfLine)
<1> DEFINE fields == head.fields
           F == FieldLines(head, fields)
           E == [i \in DOMAIN fields |-> <<fields[i].name, ":">>
                   \o (IF head.spaced THEN <<Space>> ELSE <<>>)
                   \o fields[i].value \o <<EndOfLine>>]
           L == Lines(F, EndOfLine)
<1>1. fields \in Seq(Fields)
  BY HttpAssumption
<1> HIDE DEF fields
<1>2. \A i \in DOMAIN fields : fields[i] \in Fields
  BY <1>1, ElementOfSeq, LenProperties
<1>3. \A i \in DOMAIN fields : LineOf(head)[fields[i]] \in Text
  BY <1>2, LineOfType
<1>4. /\ DOMAIN F = DOMAIN fields
      /\ \A i \in DOMAIN fields : F[i] = LineOf(head)[fields[i]]
  BY DEF FieldLines, Ruled
<1>5. F \in Seq(Seq(Words))
  <2>1. Len(fields) \in Nat /\ DOMAIN fields = 1..Len(fields)
    BY <1>1, LenProperties
  <2>2. F = [i \in 1..Len(fields) |-> F[i]]
    BY <2>1 DEF FieldLines, Ruled
  <2> HIDE DEF F
  <2>3. \A i \in 1..Len(fields) : F[i] \in Text
    BY <1>3, <1>4, <2>1
  <2>4. F \in Seq(Text)
    BY <2>1, <2>2, <2>3, TextsOfList
  <2> QED
    BY <2>4 DEF Text
<1> HIDE DEF F
<1>6. E = [i \in DOMAIN F |-> Append(F[i], EndOfLine)]
  <2>1. ASSUME NEW i \in DOMAIN fields
        PROVE  E[i] = Append(F[i], EndOfLine)
    <3>1. E[i] = LineOf(head)[fields[i]] \o <<EndOfLine>>
      BY <1>2 DEF LineOf
    <3>2. F[i] \in Seq(Words)
      BY <1>3, <1>4 DEF Text
    <3>3. Append(F[i], EndOfLine) = F[i] \o <<EndOfLine>>
      BY <3>2, WrittenWords, AppendIsConcat
    <3> HIDE DEF E
    <3> QED
      BY <1>4, <3>1, <3>3
  <2>2. E = [i \in DOMAIN fields |-> E[i]]
    OBVIOUS
  <2> HIDE DEF E
  <2> QED
    BY <1>4, <2>1, <2>2
<1>7. FlattenSeq(E) = L
  BY <1>6 DEF Lines
<1>8. L \in Text
  BY <1>5, WrittenWords, LinesType DEF Text
<1> DEFINE A == StatusLine(head)
           end == <<EndOfLine>>
<1>9. A \in Text /\ <<head.version, Space, head.status, Space, "OK", EndOfLine>> = A \o end
  BY StatusLineIsNoHeader
<1>10. end \in Text
  BY OneWord, WrittenWords
<1>11. L \o end = Append(L, EndOfLine)
  BY <1>8, WrittenWords, AppendIsConcat DEF Text
<1>12. Spell(head) = A \o end \o FlattenSeq(E) \o end
  BY <1>9 DEF Spell, fields
<1> HIDE DEF A, L, E, end
<1>13. A \o end \in Text
  BY <1>9, <1>10, TextsFollow
<1>14. (A \o end) \o L \o end = (A \o end) \o (L \o end)
  BY <1>8, <1>10, <1>13, TextsAround
<1> QED
  BY <1>5, <1>7, <1>11, <1>12, <1>14 DEF F, A, L, end, fields

\* The pieces of what a server writes: its lines, and what stands around the blank one.
LEMMA SpellPieces ==
  ASSUME NEW head \in Heads, Unbroken(FieldLines(head, head.fields), EndOfLine)
  PROVE  LET F == FieldLines(head, head.fields) IN
           /\ <<StatusLine(head)>> \o F \in Seq(Text)
           /\ Pieces(Spell(head), EndOfLine)
                = Append(Append(<<StatusLine(head)>> \o F, <<>>), <<>>)
<1> DEFINE F == FieldLines(head, head.fields)
           A == StatusLine(head)
           L == Lines(F, EndOfLine)
           more == Append(L, EndOfLine)
           c == EndOfLine
<1>1. F \in Seq(Seq(Words)) /\ Spell(head) = A \o <<c>> \o more
  BY SpellIsLines
<1>2. A \in Seq(Words) /\ c \notin ToSet(A) /\ c \in Words
  BY StatusLineIsNoHeader, WrittenWords DEF Text
<1>3. Unbroken(F, c)
  OBVIOUS
<1>4. <<>> \in Seq(Words) /\ c \notin ToSet(<<>>)
  BY EmptySeq DEF ToSet
<1> HIDE DEF F, A, c
<1>5. L \in Seq(Words)
  BY <1>1, <1>2, LinesType DEF c
<1>6. Pieces(L, c) = Append(F, <<>>)
  <2>1. Pieces(Lines(F, c) \o <<>>, c) = Append(F, <<>>)
    BY <1>1, <1>2, <1>3, <1>4, PiecesOfLines
  <2>2. L \o <<>> = L
    BY <1>5, ConcatEmptySeq
  <2> QED
    BY <2>1, <2>2 DEF c
<1> HIDE DEF L
<1>7. Pieces(more, c) = Append(Append(F, <<>>), <<>>) /\ more \in Seq(Words)
  <2>1. Pieces(Append(L, c), c) = NextPieces(Pieces(L, c), c, c)
    BY <1>2, <1>5, PiecesAppend
  <2>2. Append(L, c) \in Seq(Words)
    BY <1>2, <1>5, AppendProperties
  <2> QED
    BY <1>6, <2>1, <2>2 DEF NextPieces, c
<1> HIDE DEF more
<1>8. Pieces(A, c) = <<A>>
  BY <1>2, PiecesWhole
<1>9. Pieces(Spell(head), c) = <<A>> \o Append(Append(F, <<>>), <<>>)
  <2>1. Pieces(A \o <<c>> \o more, c) = Pieces(A, c) \o Pieces(more, c)
    BY <1>2, <1>7, PiecesAround
  <2> QED
    BY <1>1, <1>7, <1>8, <2>1
<1> DEFINE S == Seq(Words)
           e == <<>>
           one == <<A>>
           G == one \o F
<1>10. one \in Seq(S) /\ F \in Seq(S) /\ e \in S
  BY <1>1, <1>2, <1>4
<1> HIDE DEF S, e, one
<1>11. Append(F, e) \in Seq(S) /\ G \in Seq(S)
  BY <1>10, AppendProperties, ConcatProperties
<1>12. one \o Append(Append(F, e), e) = Append(one \o Append(F, e), e)
  BY <1>10, <1>11, ConcatAppend
<1>13. one \o Append(F, e) = Append(G, e)
  BY <1>10, ConcatAppend
<1> QED
  BY <1>9, <1>11, <1>12, <1>13 DEF S, e, one, F, A, c, Text

\* The lines of a head that HttpHeaders reads as it should.
ReadWell(head, fields) ==
  LET lines == <<StatusLine(head)>> \o FieldLines(head, fields) IN
    /\ AllRead(lines) = Ruled(fields, AsRead)
    /\ \A line \in ToSet(lines) : ~(IsHeader(line) /\ LineThrows(line))

LEMMA AllReadAppend ==
  ASSUME NEW lines \in Seq(Text), NEW line \in Text
  PROVE  AllRead(Append(lines, line)) = AllRead(lines) \o Reading[line]
BY ReadingRule, FlatRuledAppend DEF AllRead

LEMMA AllReadNothing == AllRead(<<>>) = <<>>
BY RuledNothing, FlattenNothing DEF AllRead

LEMMA NoFieldReadWell ==
  ASSUME NEW head \in Heads, head.version = "HTTP/1.1"
  PROVE  ReadWell(head, <<>>)
<1> DEFINE A == StatusLine(head)
           one == <<A>>
<1>1. A \in Text /\ ~IsHeader(A)
  BY StatusLineIsNoHeader
<1>2. Reading[A] = <<>>
  BY <1>1 DEF Reading
<1> HIDE DEF A
<1>3. one \in Seq(Text) /\ Append(<<>>, A) = one /\ <<>> \in Seq(Text) /\ ToSet(one) = {A}
  BY <1>1, EmptySeq DEF ToSet
<1>4. one \o FieldLines(head, <<>>) = one
  BY <1>3, RuledNothing, ConcatEmptySeq DEF FieldLines
<1>5. AllRead(one) = <<>>
  <2>1. AllRead(Append(<<>>, A)) = AllRead(<<>>) \o Reading[A]
    BY <1>1, <1>3, AllReadAppend
  <2>2. <<>> \o <<>> = <<>>
    BY NoText, TextsAround
  <2> QED
    BY <1>2, <1>3, <2>1, <2>2, AllReadNothing
<1> HIDE DEF one
<1> QED
  BY <1>1, <1>3, <1>4, <1>5, RuledNothing DEF ReadWell, one, A

LEMMA OneMoreReadWell ==
  ASSUME NEW head \in Heads, NEW fields \in Seq(Legible(head)), NEW field \in Legible(head),
         ReadWell(head, fields)
  PROVE  ReadWell(head, Append(fields, field))
<1> DEFINE F == FieldLines(head, fields)
           one == <<StatusLine(head)>>
           lines == one \o F
           line == LineOf(head)[field]
           R == Ruled(fields, AsRead)
           V == {AsRead[f] : f \in Fields}
<1>1. fields \in Seq(Fields) /\ field \in Fields
  BY DEF Legible
<1>2. /\ FieldLines(head, Append(fields, field)) = Append(F, line)
      /\ F \in Seq(Text) /\ line \in Text
  BY <1>1, LineOfRule, RuledAppend DEF FieldLines
<1>3. /\ Ruled(Append(fields, field), AsRead) = Append(R, AsRead[field])
      /\ R \in Seq(V) /\ AsRead[field] \in V
  BY <1>1, AsReadRule, RuledAppend
<1>4. Reading[line] = <<AsRead[field]>> /\ ~(IsHeader(line) /\ LineThrows(line))
  BY LegibleIsRead
<1>5. one \in Seq(Text)
  <2>1. StatusLine(head) \in Text
    BY StatusLineIsNoHeader
  <2> QED
    BY <2>1
<1> HIDE DEF F, one, line, R, V
<1>6. lines \in Seq(Text) /\ one \o Append(F, line) = Append(lines, line)
  BY <1>2, <1>5, ConcatAppend, ConcatProperties
<1>7. AllRead(Append(lines, line)) = AllRead(lines) \o Reading[line]
  BY <1>2, <1>6, AllReadAppend
<1> HIDE DEF lines
<1>8. ToSet(Append(lines, line)) = ToSet(lines) \cup {line}
  BY <1>2, <1>6, AppendSet
<1>9. AllRead(lines) = R /\ \A l \in ToSet(lines) : ~(IsHeader(l) /\ LineThrows(l))
  BY DEF ReadWell, lines, one, F, R
<1>10. R \o <<AsRead[field]>> = Append(R, AsRead[field])
  BY <1>3, AppendIsConcat
<1>11. AllRead(Append(lines, line)) = Append(R, AsRead[field])
  BY <1>4, <1>7, <1>9, <1>10
<1> QED
  BY <1>2, <1>3, <1>4, <1>6, <1>8, <1>9, <1>11 DEF ReadWell, lines, one

LEMMA AllReadWell ==
  ASSUME NEW head \in Heads, head.version = "HTTP/1.1", NEW fields \in Seq(Legible(head))
  PROVE  ReadWell(head, fields)
<1> DEFINE T == {f \in Seq(Legible(head)) : ReadWell(head, f)}
<1>1. <<>> \in T
  BY EmptySeq, NoFieldReadWell
<1>2. ASSUME NEW f \in Seq(Legible(head)), NEW x \in Legible(head), f \in T
      PROVE  Append(f, x) \in T
  <2>1. ReadWell(head, Append(f, x))
    BY <1>2, OneMoreReadWell
  <2> QED
    BY <2>1, AppendProperties
<1> HIDE DEF T
<1>3. fields \in T
  BY <1>1, <1>2, InductionOnSeq
<1> QED
  BY <1>3 DEF T

\* src/http_header.cpp:6-44, src/http_response.cpp:5-30: what HttpResponse reads from a
\* head that it can read, as a server writes it.
LEMMA HeadIsRead ==
  ASSUME NEW head \in Heads, head.version = "HTTP/1.1",
         \A field \in ToSet(head.fields) :
           /\ head.spaced \/ field.value # <<>>
           /\ Versions \cap ({field.name} \cup ToSet(field.value)) = {}
  PROVE  /\ ~HeadThrows(Spell(head))
         /\ HttpResponse(Spell(head)) =
              [error |-> "none", status |-> head.status,
               headers |-> [i \in DOMAIN head.fields |->
                              Field(Lower[head.fields[i].name], head.fields[i].value)]]
<1> DEFINE fields == head.fields
           F == FieldLines(head, fields)
           A == StatusLine(head)
           G == <<A>> \o F
           text == Spell(head)
           P == Pieces(text, EndOfLine)
           V == {AsRead[f] : f \in Fields}
<1>1. fields \in Seq(Fields) /\ Len(fields) \in Nat /\ DOMAIN fields = 1..Len(fields)
  BY HttpAssumption, LenProperties
<1>2. ASSUME NEW i \in 1..Len(fields)
      PROVE  fields[i] \in Legible(head)
  <2>1. fields[i] \in ToSet(fields) /\ fields[i] \in Fields
    BY <1>1, ToSetProperties, ElementOfSeq
  <2>2. /\ fields[i].name \notin {":", EndOfLine} /\ EndOfLine \notin ToSet(fields[i].value)
        /\ fields[i].value = <<>> \/ fields[i].value[1] # Space
    BY <2>1, HttpAssumption
  <2>3. /\ head.spaced \/ fields[i].value # <<>>
        /\ Versions \cap ({fields[i].name} \cup ToSet(fields[i].value)) = {}
    BY <2>1
  <2> HIDE DEF fields
  <2> QED
    BY <2>1, <2>2, <2>3 DEF Legible
<1>3. fields \in Seq(Legible(head))
  <2> DEFINE L == Legible(head)
  <2> HIDE DEF fields, L
  <2>1. \A i \in 1..Len(fields) : fields[i] \in L
    BY <1>2 DEF L
  <2>2. fields \in Seq(L)
    BY <1>1, <2>1
  <2> QED
    BY <2>2 DEF L
<1>4. Unbroken(F, EndOfLine)
  <2> HIDE DEF fields
  <2>1. DOMAIN F = 1..Len(fields)
    BY <1>1 DEF FieldLines, Ruled
  <2>2. Len(F) = Len(fields)
    <3>1. F \in Seq(Seq(Words))
      BY SpellIsLines DEF fields
    <3> QED
      BY <1>1, <2>1, <3>1, LenProperties
  <2>3. \A i \in 1..Len(fields) : EndOfLine \notin ToSet(F[i])
    BY <1>1, <1>2, LegibleIsRead DEF FieldLines, Ruled
  <2> QED
    BY <2>2, <2>3 DEF Unbroken
<1>5. G \in Seq(Text) /\ P = Append(Append(G, <<>>), <<>>)
  BY <1>4, SpellPieces
<1>6. AllRead(G) = Ruled(fields, AsRead) /\ \A line \in ToSet(G) : ~(IsHeader(line) /\ LineThrows(line))
  BY <1>3, AllReadWell DEF ReadWell
<1>7. text[1] = head.version /\ text[3] = head.status
  <2> DEFINE rest == Append(Lines(F, EndOfLine), EndOfLine)
  <2>1. text = A \o <<EndOfLine>> \o rest /\ F \in Seq(Seq(Words))
    BY SpellIsLines
  <2>2. A \in Text /\ Len(A) = 5 /\ A[1] = head.version /\ A[3] = head.status
    BY StatusLineIsNoHeader
  <2>3. A \in Seq(Words) /\ EndOfLine \in Words
    BY <2>2, WrittenWords DEF Text
  <2>4. rest \in Seq(Words)
    BY <2>1, <2>3, LinesType, AppendProperties
  <2>5. 1 \in 1..Len(A) /\ 3 \in 1..Len(A)
    BY <2>2
  <2> HIDE DEF text, A, rest
  <2>6. \A i \in 1..Len(A) : text[i] = A[i]
    BY <2>1, <2>3, <2>4, Around
  <2> QED
    BY <2>2, <2>5, <2>6
<1> HIDE DEF G, F, A, text, P
<1>8. <<>> \in Text /\ ~IsHeader(<<>>) /\ Reading[<<>>] = <<>>
  <2>1. <<>> \in Text /\ <<>> \in Seq(Words) /\ ":" \notin ToSet(<<>>)
    BY NoText DEF ToSet, Text
  <2>2. Find(<<>>, ":") = 0
    BY <2>1, FindNone
  <2> QED
    BY <2>1, <2>2 DEF IsHeader, Reading
<1> DEFINE e == <<>>
<1>9. e \in Text /\ Reading[e] = <<>> /\ P = Append(Append(G, e), e) /\ ~IsHeader(e)
  BY <1>5, <1>8
<1> HIDE DEF e
<1>10. Append(G, e) \in Seq(Text) /\ P \in Seq(Text)
  BY <1>5, <1>9, AppendProperties
<1>11. AllRead(P) = Ruled(fields, AsRead)
  <2>1. AllRead(P) = AllRead(G) \o <<>> \o <<>>
    BY <1>5, <1>9, <1>10, AllReadAppend
  <2>2. Ruled(fields, AsRead) \in Seq(V)
    <3>1. CASE fields = <<>>
      BY <3>1, RuledNothing, EmptySeq
    <3>2. CASE fields # <<>>
      <4>1. fields[1] \in Fields
        BY <1>1, <3>2, EmptySeq, LenProperties, ElementOfSeq
      <4> HIDE DEF fields, V
      <4>2. Rule(AsRead, Fields, V)
        BY AsReadRule DEF V
      <4> QED
        BY <1>1, <4>1, <4>2, RuledAppend
    <3> QED
      BY <3>1, <3>2
  <2> HIDE DEF fields, V
  <2> QED
    BY <1>6, <2>1, <2>2, ConcatEmptySeq
<1>12. HttpHeaders(text) = AllRead(P)
  <2>1. \A i \in DOMAIN P : P[i] \in Text
    BY <1>10, ElementOfSeq, LenProperties
  <2>2. Ruled(P, Reading) = [i \in DOMAIN P |-> IF IsHeader(P[i]) THEN <<ReadLine(P[i])>> ELSE <<>>]
    BY <2>1 DEF Ruled, Reading
  <2> QED
    BY <2>2 DEF HttpHeaders, AllRead, P
<1>13. Ruled(fields, AsRead) =
         [i \in DOMAIN fields |-> Field(Lower[fields[i].name], fields[i].value)]
  <2> HIDE DEF fields
  <2>1. \A i \in DOMAIN fields : fields[i] \in Fields
    BY <1>1, ElementOfSeq
  <2> QED
    BY <2>1 DEF Ruled, AsRead
<1>14. ToSet(P) = ToSet(G) \cup {e}
  <2>1. ToSet(Append(G, e)) = ToSet(G) \cup {e}
    BY <1>5, <1>9, AppendSet
  <2>2. ToSet(Append(Append(G, e), e)) = ToSet(Append(G, e)) \cup {e}
    <3> DEFINE H == Append(G, e)
    <3>1. H \in Seq(Text) /\ e \in Text
      BY <1>9, <1>10
    <3> HIDE DEF H
    <3>2. ToSet(Append(H, e)) = ToSet(H) \cup {e}
      BY <3>1, AppendSet
    <3> QED
      BY <3>2 DEF H
  <2> QED
    BY <1>9, <2>1, <2>2
<1>15. ~HeadThrows(text)
  <2>1. \A line \in ToSet(P) : ~(IsHeader(line) /\ LineThrows(line))
    BY <1>6, <1>9, <1>14
  <2> QED
    BY <2>1 DEF HeadThrows, P
<1>16. HttpResponse(text) = [error |-> "none", status |-> head.status,
                             headers |-> Ruled(fields, AsRead)]
  BY <1>7, <1>11, <1>12 DEF HttpResponse
<1> QED
  BY <1>13, <1>15, <1>16 DEF text

\* Nothing touches the response of a request but the head of its answer.
AnswerOf(text) ==
  IF HeadThrows(text) THEN [error |-> "terminated"] ELSE HttpResponse(text)

HeadInv ==
  \/ request = None
  \/ /\ request = [f \in Members |-> request[f]]
     /\ \/ request.head = {}
        \/ \E head \in Heads :
             request.head = {head} /\ request.response = AnswerOf(Spell(head))

LEMMA AnswerStays ==
  ASSUME HeadInv, request # None, request' = [f \in Members |-> request'[f]],
         request'.head = request.head, request'.response = request.response
  PROVE  HeadInv'
BY DEF HeadInv

LEMMA HeadInvNext == HeadInv /\ [MessageNext]_messageVars => HeadInv'
<1> SUFFICES ASSUME HeadInv, [MessageNext]_messageVars
             PROVE  HeadInv'
  OBVIOUS
<1>1. CASE UNCHANGED request
  BY <1>1 DEF HeadInv
<1>2. request # None => request = [f \in Members |-> request[f]]
  BY DEF HeadInv
<1>3. ASSUME NEW kind \in Kinds, NewRequest(kind) PROVE HeadInv'
  <2>1. request' = Make(kind)
    BY <1>3 DEF NewRequest
  <2>2. request'.head = {} /\ request' = [f \in Members |-> request'[f]]
    BY <2>1 DEF Make, Members
  <2> QED
    BY <2>2 DEF HeadInv
<1>4. ASSUME NEW field \in HttpInputs.headers, AddHeader(field) PROVE HeadInv'
  <2> DEFINE headers == Append(request.headers, field)
  <2>1. request # None /\ (request' = request \/ request' = [request EXCEPT !.headers = headers])
    BY <1>4, Zenon DEF AddHeader, Change
  <2> HIDE DEF headers
  <2>2. CASE request' = [request EXCEPT !.headers = headers]
    BY <1>2, <2>1, <2>2, AnswerStays DEF Members
  <2> QED
    BY <1>1, <2>1, <2>2
<1>5. ASSUME NEW field \in HttpInputs.params, AddParam(field) PROVE HeadInv'
  <2> DEFINE params == Append(request.params, field)
  <2>1. request # None /\ (request' = request \/ request' = [request EXCEPT !.params = params])
    BY <1>5, Zenon DEF AddParam, Change
  <2> HIDE DEF params
  <2>2. CASE request' = [request EXCEPT !.params = params]
    BY <1>2, <2>1, <2>2, AnswerStays DEF Members
  <2> QED
    BY <1>1, <2>1, <2>2
<1>6. ASSUME NEW body \in HttpInputs.bodies, SetBody(body) PROVE HeadInv'
  <2>1. request # None /\ request' = [request EXCEPT !.body = body]
    BY <1>6 DEF SetBody, Change
  <2> QED
    BY <1>2, <2>1, AnswerStays DEF Members
<1>7. ASSUME NEW value \in HttpInputs.ssl, SetSSL(value) PROVE HeadInv'
  <2>1. request # None /\ request' = [request EXCEPT !.ssl = value]
    BY <1>7 DEF SetSSL, Change
  <2> QED
    BY <1>2, <2>1, AnswerStays DEF Members
<1>8. ASSUME NEW data \in HttpInputs.data, SetRequest(data) PROVE HeadInv'
  <2>1. request # None /\ request' = [request EXCEPT !.data = data]
    BY <1>8 DEF SetRequest, Change
  <2> QED
    BY <1>2, <2>1, AnswerStays DEF Members
<1>9. ASSUME Compose PROVE HeadInv'
  <2> DEFINE w == WithBody(request)
  <2>1. request # None /\ request' = requestData(request)
    BY <1>9 DEF Compose
  <2>2. w = [f \in Members |-> w[f]] /\ w.head = request.head /\ w.response = request.response
    <3> DEFINE body == IF request.body = <<>> THEN Form(request) ELSE request.body
               headers == Append(request.headers,
                                 Field("content-length", <<ToString(Len(body))>>))
    <3>1. w = IF request.kind \notin Bodied THEN request
              ELSE [request EXCEPT !.body = body, !.headers = headers]
      BY DEF WithBody
    <3> HIDE DEF w, body, headers
    <3> QED
      BY <1>2, <2>1, <3>1 DEF Members
  <2> DEFINE data == w.data \o <<request.kind, Space>> \o Target(request.url.path)
                       \o (IF request.kind = "GET" THEN GetFields(request) ELSE <<>>)
                       \o <<Space, "HTTP/1.1", EndOfLine>> \o HeaderLines(w.headers)
                       \o <<EndOfLine>> \o w.body
  <2>3. requestData(request) = IF request.composed THEN request
                               ELSE [w EXCEPT !.composed = TRUE, !.data = data]
    BY DEF requestData
  <2> HIDE DEF w, data
  <2> QED
    BY <1>1, <1>2, <2>1, <2>2, <2>3, AnswerStays DEF Members
<1>10. ASSUME NEW head \in Heads, InitResponse(head) PROVE HeadInv'
  <2> DEFINE h == {head}
             a == AnswerOf(Spell(head))
  <2>1. request # None /\ request' = [request EXCEPT !.head = h, !.response = a]
    BY <1>10 DEF InitResponse, AnswerOf
  <2> HIDE DEF h, a
  <2>2. /\ request' = [f \in Members |-> request'[f]]
        /\ request'.head = h /\ request'.response = a
    BY <1>2, <2>1 DEF Members
  <2> QED
    BY <2>2 DEF HeadInv, h, a
<1>11. CASE MessageNext
  BY <1>1, <1>3, <1>4, <1>5, <1>6, <1>7, <1>8, <1>9, <1>10, <1>11 DEF MessageNext
<1> QED
  BY <1>1, <1>11 DEF messageVars

\* src/http_header.cpp:6-44: the response holds the fields of the head in their
\* order, with names in small letters, whatever the server has sent, if each has a
\* value or a space before it and none holds "HTTP/" of any version.
THEOREM ResponseIsAlwaysReadBack == MessageSpec => []ResponseIsReadBack
<1>1. MessageInit => HeadInv
  BY DEF MessageInit, HeadInv
<1>2. HeadInv => ResponseIsReadBack
  <2> SUFFICES ASSUME HeadInv, request # None, NEW head \in request.head,
                      head.version = "HTTP/1.1",
                      \A field \in ToSet(head.fields) :
                        /\ head.spaced \/ field.value # <<>>
                        /\ Versions \cap ({field.name} \cup ToSet(field.value)) = {}
               PROVE  request.response =
                        [error |-> "none", status |-> head.status,
                         headers |-> [i \in DOMAIN head.fields |->
                           Field(Lower[head.fields[i].name], head.fields[i].value)]]
    BY DEF ResponseIsReadBack
  <2>1. head \in Heads /\ request.response = AnswerOf(Spell(head))
    BY DEF HeadInv
  <2> QED
    BY <2>1, HeadIsRead DEF AnswerOf
<1> QED
  BY <1>1, <1>2, HeadInvNext, PTL DEF MessageSpec

-----------------------------------------------------------------------------
(* The fields of a request.                                                *)

NextJoined(texts, t, c) ==
  IF texts = <<>> THEN t ELSE Append(Joined(texts, c), c) \o t

LEMMA JoinedAppend ==
  ASSUME NEW S, NEW texts \in Seq(Seq(S)), NEW t \in Seq(S), NEW c \in S
  PROVE  /\ Joined(texts, c) \in Seq(S)
         /\ Joined(Append(texts, t), c) = NextJoined(texts, t, c)
<1> DEFINE more == Append(texts, t)
           N == Len(texts)
           U == Seq(S)
           e == [i \in DOMAIN texts |-> IF i = 1 THEN texts[i] ELSE <<c>> \o texts[i]]
           f == [i \in DOMAIN more |-> IF i = 1 THEN more[i] ELSE <<c>> \o more[i]]
<1>1. /\ N \in Nat /\ DOMAIN texts = 1..N /\ \A i \in 1..N : texts[i] \in U
      /\ DOMAIN more = 1..(N + 1) /\ more \in Seq(U) /\ Len(more) = N + 1
      /\ \A i \in 1..N : more[i] = texts[i]
      /\ more[N + 1] = t /\ t \in U
  BY LenProperties, ElementOfSeq, AppendProperties
<1>2. \A i \in 1..(N + 1) : more[i] \in U
  BY <1>1, ElementOfSeq
<1>3. \A u \in U : <<c>> \o u \in U
  <2>1. <<c>> \in U
    OBVIOUS
  <2> QED
    BY <2>1, ConcatProperties
<1>4. texts = <<>> <=> N = 0
  BY <1>1, EmptySeq
<1> HIDE DEF more, N, U
<1>5. e \in [1..N -> U]
  BY <1>1, <1>3
<1>6. f \in [1..(N + 1) -> U]
  BY <1>1, <1>2, <1>3
<1>7. \A i \in 1..N : f[i] = e[i]
  BY <1>1
<1>8. f[N + 1] = IF N = 0 THEN t ELSE <<c>> \o t
  BY <1>1
<1>9. f[N + 1] \in U
  BY <1>1, <1>6
<1> HIDE DEF e, f
<1>10. f = Append(e, f[N + 1]) /\ e \in Seq(U)
  <2>1. Grows(e, f, N, U)
    BY <1>1, <1>5, <1>6, <1>7 DEF Grows
  <2> QED
    BY <2>1, ListGrows
<1> DEFINE last == f[N + 1]
           J == FlattenSeq(e)
<1>11. last \in Seq(S) /\ e \in Seq(Seq(S)) /\ f = Append(e, last)
  BY <1>9, <1>10 DEF U
<1> HIDE DEF last, J
<1>12. FlattenSeq(f) = J \o last /\ J \in Seq(S)
  BY <1>11, FlattenAppend, FlattenType DEF J
<1>13. Joined(texts, c) = J /\ Joined(more, c) = FlattenSeq(f)
  BY DEF Joined, J, e, f
<1>14. t \in Seq(S)
  OBVIOUS
<1>15. CASE N = 0
  <2>1. Joined(<<>>, c) = <<>>
    <3>1. [i \in DOMAIN <<>> |-> IF i = 1 THEN <<>>[i] ELSE <<c>> \o <<>>[i]] = <<>>
      OBVIOUS
    <3> QED
      BY <3>1, FlattenNothing DEF Joined
  <2>2. J = <<>> /\ last = t
    BY <1>4, <1>8, <1>13, <1>15, <2>1 DEF last
  <2>3. <<>> \o t = t
    BY <1>14, ConcatEmptySeq
  <2> QED
    BY <1>4, <1>12, <1>13, <1>15, <2>2, <2>3 DEF more, NextJoined
<1>16. CASE N # 0
  <2>1. last = <<c>> \o t
    BY <1>8, <1>16 DEF last
  <2>2. <<c>> \in Seq(S)
    OBVIOUS
  <2>3. J \o (<<c>> \o t) = (J \o <<c>>) \o t
    <3> DEFINE one == <<c>>
    <3>1. one \in Seq(S)
      BY <2>2
    <3> HIDE DEF one
    <3>2. (J \o one) \o t = J \o (one \o t)
      BY <1>12, <1>14, <3>1, ConcatAssociative
    <3> QED
      BY <3>2 DEF one
  <2>4. J \o <<c>> = Append(J, c)
    BY <1>12, AppendIsConcat
  <2> QED
    BY <1>4, <1>12, <1>13, <1>16, <2>1, <2>3, <2>4 DEF more, NextJoined
<1> QED
  BY <1>15, <1>16

\* What was joined with a separator that no part holds falls into its parts.
LEMMA PiecesOfJoined ==
  ASSUME NEW S, NEW c \in S, NEW texts \in Seq(Seq(S)), texts # <<>>, Unbroken(texts, c)
  PROVE  Pieces(Joined(texts, c), c) = texts
<1> DEFINE U == Seq(S)
           Apart(l) == l # <<>> /\ Unbroken(l, c) => Pieces(Joined(l, c), c) = l
           T == {l \in Seq(U) : Apart(l)}
<1>1. <<>> \in T
  BY EmptySeq
<1>2. ASSUME NEW l \in Seq(U), NEW t \in U, l \in T
      PROVE  Append(l, t) \in T
  <2> DEFINE m == Append(l, t)
  <2>1. /\ m \in Seq(U) /\ Len(m) = Len(l) + 1 /\ Len(l) \in Nat
        /\ \A i \in 1..Len(l) : m[i] = l[i]
        /\ m[Len(l) + 1] = t
    BY AppendProperties, LenProperties
  <2> HIDE DEF m
  <2>2. ASSUME Unbroken(m, c)
        PROVE  Pieces(Joined(m, c), c) = m
    <3>1. Unbroken(l, c) /\ c \notin ToSet(t)
      <4>1. \A i \in 1..Len(l) : i \in 1..Len(m)
        BY <2>1
      <4>2. Len(l) + 1 \in 1..Len(m)
        BY <2>1
      <4> QED
        BY <2>1, <2>2, <4>1, <4>2 DEF Unbroken
    <3>2. Pieces(t, c) = <<t>>
      BY <3>1, PiecesWhole
    <3>3. CASE l = <<>>
      <4>1. Joined(m, c) = t
        BY <3>3, JoinedAppend DEF m, NextJoined
      <4>2. m = <<t>>
        BY <3>3 DEF m
      <4> QED
        BY <3>2, <4>1, <4>2
    <3>4. CASE l # <<>>
      <4> DEFINE J == Joined(l, c)
      <4>1. Joined(m, c) = Append(J, c) \o t /\ J \in Seq(S)
        <5>1. Joined(m, c) = NextJoined(l, t, c) /\ J \in Seq(S)
          BY JoinedAppend DEF m
        <5> QED
          BY <3>4, <5>1 DEF NextJoined
      <4>2. Pieces(J, c) = l
        BY <1>2, <3>1, <3>4
      <4> HIDE DEF J
      <4>3. Append(J, c) \o t = J \o <<c>> \o t
        BY <4>1, AppendIsConcat
      <4>4. Pieces(J \o <<c>> \o t, c) = Pieces(J, c) \o Pieces(t, c)
        BY <4>1, PiecesAround
      <4>5. l \o <<t>> = m
        BY AppendIsConcat DEF m
      <4> QED
        BY <3>2, <4>1, <4>2, <4>3, <4>4, <4>5
    <3> QED
      BY <3>3, <3>4
  <2> QED
    BY <2>1, <2>2 DEF m
<1> HIDE DEF T
<1>3. texts \in T
  BY <1>1, <1>2, InductionOnSeq
<1> QED
  BY <1>3 DEF T

\* No character that is encoded is left but the percent sign.
LEMMA EncodedHoldsNone ==
  ASSUME NEW s \in Text, NEW chars \in SUBSET Special, NEW c \in chars, c # "%"
  PROVE  c \notin ToSet(EncodeOnly(s, chars))
<1> DEFINE g == Encoding(chars)
           T == {t \in Seq(Words) : c \notin ToSet(Mapped(t, g))}
<1>1. g \in Rules
  BY RulesType
<1>2. ASSUME NEW x \in Words
      PROVE  c \notin ToSet(g[x])
  <2>1. CASE x \in chars
    <3>1. g[x] = <<"%", "0x", Digit(x)>>
      BY <2>1 DEF Encoding, Percent
    <3>2. ToSet(<<"%", "0x", Digit(x)>>) = {"%", "0x", Digit(x)}
      BY DEF ToSet
    <3>3. c \in Special /\ "0x" # c /\ Digit(x) # c
      BY <2>1, DigitsDiffer
    <3> QED
      BY <3>1, <3>2, <3>3
  <2>2. CASE x \notin chars
    <3>1. g[x] = <<x>> /\ ToSet(<<x>>) = {x}
      BY <2>2 DEF Encoding, ToSet
    <3> QED
      BY <2>2, <3>1
  <2> QED
    BY <2>1, <2>2
<1> HIDE DEF g
<1>3. <<>> \in T
  BY EmptySeq, MappedNothing DEF ToSet
<1>4. ASSUME NEW t \in Seq(Words), NEW x \in Words, t \in T
      PROVE  Append(t, x) \in T
  <2>1. Mapped(Append(t, x), g) = Mapped(t, g) \o g[x]
    BY <1>1, MappedAppend DEF Text
  <2>2. Mapped(t, g) \in Text /\ g[x] \in Text
    BY <1>1, MappedType DEF Text, Rules
  <2>3. ToSet(Mapped(t, g) \o g[x]) = ToSet(Mapped(t, g)) \cup ToSet(g[x])
    BY <2>2, TextsAround
  <2>4. Append(t, x) \in Seq(Words)
    BY AppendProperties
  <2> QED
    BY <1>2, <1>4, <2>1, <2>3, <2>4
<1> HIDE DEF T
<1>5. s \in T
  BY <1>3, <1>4, InductionOnSeq DEF Text
<1> QED
  BY <1>5, ReadByRules DEF T, g

\* A text without special characters is not changed by taking the encoding back.
LEMMA PlainIsDecoded ==
  ASSUME NEW s \in Text, Plain(s), ToSet(s) \cap ({"0x"} \cup {Digit(c) : c \in Special}) = {}
  PROVE  Decoded(s) = s
<1> DEFINE D(t) == Mapped(t, Decoding)
           T == {t \in Seq(Words) : ToSet(t) \cap Signs = {} => D(t) = t}
<1>1. Decoding \in Rules
  BY RulesType
<1>2. <<>> \in T
  BY EmptySeq, MappedNothing
<1>3. ASSUME NEW t \in Seq(Words), NEW x \in Words, t \in T
      PROVE  Append(t, x) \in T
  <2>1. ToSet(Append(t, x)) = ToSet(t) \cup {x} /\ Append(t, x) \in Seq(Words)
    BY AppendSet, AppendProperties
  <2>2. ASSUME ToSet(Append(t, x)) \cap Signs = {}
        PROVE  D(Append(t, x)) = Append(t, x)
    <3>1. ToSet(t) \cap Signs = {} /\ x \in Words \ Signs
      BY <2>1, <2>2
    <3>2. D(t) = t /\ Decoding[x] = <<x>>
      BY <1>3, <3>1, DecodedWord
    <3>3. D(Append(t, x)) = D(t) \o Decoding[x]
      BY <1>1, MappedAppend DEF Text
    <3> QED
      BY <3>2, <3>3, AppendIsConcat
  <2> QED
    BY <2>1, <2>2
<1> HIDE DEF T
<1>4. s \in T
  BY <1>2, <1>3, InductionOnSeq DEF Text
<1>5. ToSet(s) \cap Signs = {}
  <2>1. "%" \in Special
    BY Zenon DEF Special
  <2> QED
    BY <2>1 DEF Plain, Signs
<1> QED
  BY <1>4, <1>5, ReadByRules DEF T

\* What a server reads from a piece, and the pieces that are made of the fields.
ReadPiece == [p \in Text |-> Field(p[1], Decoded(After(p, Find(p, "="))))]

GetPiece == [field \in Fields |-> <<field.name>> \o Prefixed("=", field.value)]

FormPiece == [field \in Fields |-> <<field.name, "=">> \o encodeUrl(field.value)]

WellRead(rule, field) ==
  /\ rule[field] # <<>> /\ "&" \notin ToSet(rule[field])
  /\ ReadPiece[rule[field]] = field

\* A field whose name holds no delimiter, with a value that a client may give.
Sound(field) ==
  /\ field \in Fields /\ field.name \notin {"&", "="}
  /\ ToSet(field.value) \cap ({"0x"} \cup {Digit(c) : c \in Special}) = {}

LEMMA DelimitersAreSpecial ==
  /\ "&" \in Special /\ "=" \in Special /\ "%" \in Special /\ Space \in Special
  /\ "?" \in Special /\ "#" \in Special /\ "@" \in Special /\ ":" \in Special
  /\ "/" \in Special
BY Zenon DEF Special, Space

LEMMA PieceRules ==
  /\ Rule(ReadPiece, Text, {ReadPiece[p] : p \in Text})
  /\ Rule(GetPiece, Fields, Text) /\ Rule(FormPiece, Fields, Text)
<1>1. ReadPiece = [p \in Text |-> ReadPiece[p]]
  BY DEF ReadPiece
<1>2. ASSUME NEW field \in Fields
      PROVE  GetPiece[field] \in Text /\ FormPiece[field] \in Text
  <2>1. field.name \in Words /\ field.value \in Text
    BY DEF Fields
  <2>2. /\ <<field.name>> \in Text /\ <<field.name, "=">> \in Text
        /\ Prefixed("=", field.value) \in Text /\ encodeUrl(field.value) \in Text
    BY <2>1, OneWord, TwoWords, WrittenWords, PrefixedType, EncodedIsText DEF encodeUrl
  <2>3. <<field.name>> \o Prefixed("=", field.value) \in Text
    BY <2>2, TextsFollow
  <2>4. <<field.name, "=">> \o encodeUrl(field.value) \in Text
    BY <2>2, TextsFollow
  <2> QED
    BY <2>3, <2>4 DEF GetPiece, FormPiece
<1>3. GetPiece = [field \in Fields |-> GetPiece[field]]
  BY DEF GetPiece
<1>4. FormPiece = [field \in Fields |-> FormPiece[field]]
  BY DEF FormPiece
<1> QED
  BY <1>1, <1>2, <1>3, <1>4 DEF Rule

\* A name, the equals sign and a text that is read as the value make a field.
LEMMA NamedIsRead ==
  ASSUME NEW field, Sound(field), NEW value \in Text, Decoded(value) = field.value
  PROVE  LET p == <<field.name>> \o <<"=">> \o value IN
           /\ p \in Text /\ p # <<>> /\ ReadPiece[p] = field
           /\ ToSet(p) = {field.name} \cup {"="} \cup ToSet(value)
<1> DEFINE name == field.name
           first == <<name>>
           sign == <<"=">>
           front == first \o sign
           p == front \o value
<1>1. field = [name |-> name, value |-> field.value] /\ name \in Words /\ name # "="
  BY DEF Sound, Fields
<1>2. first \in Text /\ ToSet(first) = {name} /\ Len(first) = 1 /\ first[1] = name
  BY <1>1, OneWord, OneWordSet
<1>3. sign \in Text /\ ToSet(sign) = {"="} /\ "=" \in Words
  BY OneWord, OneWordSet, WrittenWords
<1> HIDE DEF name
<1>4. /\ p \in Text /\ Len(p) = 1 + 1 + Len(value) /\ p[1] = name
      /\ After(p, Find(p, "=")) = value
  <2>1. first \in Seq(Words) /\ value \in Seq(Words) /\ "=" \notin ToSet(first) /\ 1 \in 1..Len(first)
    BY <1>1, <1>2 DEF Text
  <2> HIDE DEF first
  <2>2. p \in Seq(Words) /\ Len(p) = Len(first) + 1 + Len(value) /\ \A i \in 1..Len(first) : p[i] = first[i]
    BY <1>3, <2>1, Around
  <2>3. After(p, Find(p, "=")) = value
    BY <1>3, <2>1, FindFirst
  <2> QED
    BY <1>2, <2>1, <2>2, <2>3 DEF Text
<1>5. ToSet(p) = {name} \cup {"="} \cup ToSet(value)
  <2> HIDE DEF first, sign
  <2>1. front \in Text /\ ToSet(front) = ToSet(first) \cup ToSet(sign)
    BY <1>2, <1>3, TextsFollow, TextsAround, Zenon
  <2> HIDE DEF front
  <2>2. ToSet(front \o value) = ToSet(front) \cup ToSet(value)
    BY <2>1, TextsAround
  <2> QED
    BY <1>2, <1>3, <2>1, <2>2
<1> HIDE DEF p
<1>6. p # <<>>
  <2>1. Len(value) \in Nat
    BY LenProperties DEF Text
  <2> QED
    BY <1>4, <2>1
<1>7. ReadPiece[p] = Field(name, field.value)
  BY <1>4 DEF ReadPiece
<1> QED
  BY <1>1, <1>4, <1>5, <1>6, <1>7 DEF p, name, Field

LEMMA FormPieceIsRead ==
  ASSUME NEW field, Sound(field)
  PROVE  WellRead(FormPiece, field)
<1> DEFINE value == encodeUrl(field.value)
<1>1. field \in Fields /\ field.name \in Words /\ field.value \in Text /\ field.name # "&"
  BY DEF Sound, Fields
<1>2. value \in Text /\ "&" \notin ToSet(value)
  BY <1>1, EncodedIsText, EncodedHoldsNone, DelimitersAreSpecial DEF encodeUrl
<1>3. Decoded(value) = field.value
  <2>1. ToSet(field.value) \cap Signs \subseteq {"%"}
    BY DEF Sound, Signs
  <2> QED
    BY <1>1, <2>1, EncodingIsReadBack, DelimitersAreSpecial DEF encodeUrl
<1>4. FormPiece[field] = <<field.name>> \o <<"=">> \o value
  <2>1. <<field.name>> \o <<"=">> = <<field.name, "=">>
    BY <1>1, OneAndOne, WrittenWords
  <2> QED
    BY <1>1, <2>1 DEF FormPiece
<1> HIDE DEF value
<1> QED
  BY <1>1, <1>2, <1>3, <1>4, NamedIsRead DEF WellRead

LEMMA GetPieceIsRead ==
  ASSUME NEW field, Sound(field), Plain(field.value)
  PROVE  /\ WellRead(GetPiece, field)
         /\ ToSet(GetPiece[field]) \subseteq {field.name} \cup {"="} \cup ToSet(field.value)
<1> DEFINE value == field.value
<1>1. field \in Fields /\ field.name \in Words /\ value \in Text /\ field.name # "&" /\ field.name # "="
  BY DEF Sound, Fields
<1>2. Decoded(value) = value
  BY <1>1, PlainIsDecoded DEF Sound
<1>3. "&" \notin ToSet(value)
  BY DelimitersAreSpecial DEF Plain
<1>4. CASE value = <<>>
  <2> DEFINE first == <<field.name>>
  <2>1. first \in Text /\ ToSet(first) = {field.name} /\ first[1] = field.name /\ first # <<>>
    BY <1>1, OneWord, OneWordSet
  <2>2. GetPiece[field] = first
    <3>1. GetPiece[field] = first \o <<>>
      BY <1>1, <1>4 DEF GetPiece, Prefixed
    <3> QED
      BY <2>1, <3>1, TextsAround
  <2> HIDE DEF first
  <2>3. Find(first, "=") = 0
    BY <1>1, <2>1, FindNone DEF Text
  <2>4. ReadPiece[first] = Field(field.name, value)
    BY <1>2, <1>4, <2>1, <2>3 DEF ReadPiece, After
  <2>5. field = [name |-> field.name, value |-> value]
    BY <1>1 DEF Fields
  <2> QED
    BY <1>1, <2>1, <2>2, <2>4, <2>5 DEF WellRead, Field
<1>5. CASE value # <<>>
  <2>1. GetPiece[field] = <<field.name>> \o (<<"=">> \o value)
    BY <1>1, <1>5 DEF GetPiece, Prefixed
  <2>2. <<field.name>> \in Text /\ <<"=">> \in Text
    BY <1>1, OneWord, WrittenWords
  <2>3. <<field.name>> \o (<<"=">> \o value) = <<field.name>> \o <<"=">> \o value
    BY <1>1, <2>2, TextsAround
  <2> DEFINE p == <<field.name>> \o <<"=">> \o value
  <2>4. /\ p # <<>> /\ ReadPiece[p] = field
        /\ ToSet(p) = {field.name} \cup {"="} \cup ToSet(value)
    BY <1>1, <1>2, NamedIsRead
  <2> HIDE DEF p
  <2>5. GetPiece[field] = p
    BY <2>1, <2>3 DEF p
  <2> QED
    BY <1>1, <1>3, <2>4, <2>5 DEF WellRead
<1> QED
  BY <1>4, <1>5

\* Fields that are joined are read in their order.
LEMMA JoinedIsRead ==
  ASSUME NEW params \in Seq(Fields), params # <<>>, NEW rule, Rule(rule, Fields, Text),
         \A field \in ToSet(params) : WellRead(rule, field)
  PROVE  LET parts == Ruled(params, rule)
             text == Joined(parts, "&")
         IN /\ parts \in Seq(Text) /\ parts # <<>>
            /\ text \in Text /\ text # <<>> /\ Pieces(text, "&") = parts
            /\ Ruled(parts, ReadPiece) = params
<1> DEFINE parts == Ruled(params, rule)
           text == Joined(parts, "&")
           N == Len(params)
<1>1. N \in Nat /\ DOMAIN params = 1..N /\ N # 0
  BY LenProperties, EmptySeq
<1>2. parts \in Seq(Text) /\ Len(parts) = N
  BY RuledType
<1>3. \A i \in 1..N : parts[i] = rule[params[i]] /\ WellRead(rule, params[i])
  BY <1>1, ToSetProperties DEF Ruled
<1> HIDE DEF parts, N
<1>4. DOMAIN parts = 1..N /\ parts # <<>>
  BY <1>1, <1>2, LenProperties, EmptySeq
<1>5. Unbroken(parts, "&")
  BY <1>2, <1>3 DEF Unbroken, WellRead
<1>6. text \in Text
  BY <1>2, JoinedType, WrittenWords
<1>7. Pieces(text, "&") = parts
  <2>1. parts \in Seq(Seq(Words)) /\ "&" \in Words
    BY <1>2, WrittenWords DEF Text
  <2> QED
    BY <1>4, <1>5, <2>1, PiecesOfJoined
<1>8. text # <<>>
  <2>1. parts[1] # <<>>
    BY <1>1, <1>3 DEF WellRead
  <2>2. Pieces(<<>>, "&")[1] = <<>>
    BY PiecesOfNothing DEF OnePiece
  <2> QED
    BY <1>7, <2>1, <2>2
<1>9. Ruled(parts, ReadPiece) = params
  <2>1. params = [i \in 1..N |-> params[i]]
    BY <1>1
  <2> QED
    BY <1>3, <1>4, <2>1 DEF Ruled, WellRead
<1> QED
  BY <1>2, <1>4, <1>6, <1>7, <1>8, <1>9 DEF parts

LEMMA FieldsInIsRuled ==
  ASSUME NEW text \in Text, text # <<>>
  PROVE  /\ FieldsIn(text) = Ruled(Pieces(text, "&"), ReadPiece)
         /\ Pieces(text, "&") \in Seq(Text)
<1> DEFINE P == Pieces(text, "&")
<1>1. P \in Seq(Text)
  BY PiecesAreList DEF Text, Lists
<1>2. \A i \in DOMAIN P : P[i] \in Text
  BY <1>1, ElementOfSeq, LenProperties
<1>3. FieldsIn(text) = [i \in DOMAIN P |-> Field(P[i][1], Decoded(After(P[i], Find(P[i], "="))))]
  BY DEF FieldsIn
<1> HIDE DEF P
<1>4. Ruled(P, ReadPiece) = [i \in DOMAIN P |-> Field(P[i][1], Decoded(After(P[i], Find(P[i], "="))))]
  BY <1>2 DEF Ruled, ReadPiece
<1> QED
  BY <1>1, <1>3, <1>4 DEF P

\* What no part holds and is not the separator does not stand in the joined text.
LEMMA JoinedHoldsNone ==
  ASSUME NEW S, NEW c \in S, NEW d, d # c, NEW texts \in Seq(Seq(S)), Unbroken(texts, d)
  PROVE  d \notin ToSet(Joined(texts, c))
<1> DEFINE U == Seq(S)
           T == {l \in Seq(U) : Unbroken(l, d) => d \notin ToSet(Joined(l, c))}
<1>1. <<>> \in T
  <2>1. Joined(<<>>, c) = <<>>
    <3>1. [i \in DOMAIN <<>> |-> IF i = 1 THEN <<>>[i] ELSE <<c>> \o <<>>[i]] = <<>>
      OBVIOUS
    <3> QED
      BY <3>1, FlattenNothing DEF Joined
  <2> QED
    BY <2>1, EmptySeq DEF ToSet
<1>2. ASSUME NEW l \in Seq(U), NEW t \in U, l \in T
      PROVE  Append(l, t) \in T
  <2> DEFINE m == Append(l, t)
             J == Joined(l, c)
  <2>1. /\ m \in Seq(U) /\ Len(m) = Len(l) + 1 /\ Len(l) \in Nat
        /\ \A i \in 1..Len(l) : m[i] = l[i]
        /\ m[Len(l) + 1] = t
    BY AppendProperties, LenProperties
  <2>2. Joined(m, c) = NextJoined(l, t, c) /\ J \in Seq(S)
    BY JoinedAppend
  <2> HIDE DEF m, J
  <2>3. ASSUME Unbroken(m, d)
        PROVE  d \notin ToSet(Joined(m, c))
    <3>1. Unbroken(l, d) /\ d \notin ToSet(t)
      <4>1. \A i \in 1..Len(l) : i \in 1..Len(m)
        BY <2>1
      <4>2. Len(l) + 1 \in 1..Len(m)
        BY <2>1
      <4> QED
        BY <2>1, <2>3, <4>1, <4>2 DEF Unbroken
    <3>2. d \notin ToSet(J)
      BY <1>2, <3>1 DEF J
    <3>3. ToSet(Append(J, c)) = ToSet(J) \cup {c} /\ Append(J, c) \in Seq(S)
      BY <2>2, AppendSet, AppendProperties
    <3> DEFINE both == Append(J, c)
    <3>4. both \in Seq(S) /\ d \notin ToSet(both)
      BY <3>2, <3>3
    <3> HIDE DEF both
    <3>5. ToSet(both \o t) = ToSet(both) \cup ToSet(t)
      BY <3>4, ConcatSet
    <3>6. Joined(m, c) = IF l = <<>> THEN t ELSE both \o t
      BY <2>2 DEF NextJoined, both, J
    <3> QED
      BY <3>1, <3>4, <3>5, <3>6
  <2> QED
    BY <2>1, <2>3 DEF m
<1> HIDE DEF T
<1>3. texts \in T
  BY <1>1, <1>2, InductionOnSeq
<1> QED
  BY <1>3 DEF T

LEMMA FormIsRead ==
  ASSUME NEW r, r.params \in Seq(Fields), \A field \in ToSet(r.params) : Sound(field),
         HasHeader(r.headers, "content-type", UrlEncoded)
  PROVE  FieldsIn(Form(r)) = r.params
<1> DEFINE params == r.params
           parts == Ruled(params, FormPiece)
           text == Joined(parts, "&")
<1>1. params \in Seq(Fields) /\ \A field \in ToSet(params) : WellRead(FormPiece, field)
  BY FormPieceIsRead
<1>2. Form(r) = text
  <2>1. \A i \in DOMAIN params : params[i] \in Fields
    BY <1>1, ElementOfSeq, LenProperties
  <2> HIDE DEF params
  <2>2. parts = [i \in DOMAIN params |-> <<params[i].name, "=">> \o encodeUrl(params[i].value)]
    BY <2>1 DEF Ruled, FormPiece
  <2> QED
    BY <2>2 DEF Form, FormValue, params
<1> HIDE DEF params, parts
<1>3. CASE params = <<>>
  <2>1. parts = <<>>
    BY <1>3, RuledNothing DEF parts
  <2>2. [i \in DOMAIN <<>> |-> IF i = 1 THEN <<>>[i] ELSE <<"&">> \o <<>>[i]] = <<>>
    OBVIOUS
  <2>3. text = <<>>
    BY <2>1, <2>2, FlattenNothing DEF Joined
  <2> QED
    BY <1>2, <1>3, <2>3 DEF FieldsIn, params
<1>4. CASE params # <<>>
  <2>1. /\ text \in Text /\ text # <<>> /\ Pieces(text, "&") = parts
        /\ Ruled(parts, ReadPiece) = params
    BY <1>1, <1>4, PieceRules, JoinedIsRead DEF parts
  <2> HIDE DEF text
  <2>2. FieldsIn(text) = Ruled(Pieces(text, "&"), ReadPiece)
    BY <2>1, FieldsInIsRuled
  <2> QED
    BY <1>2, <2>1, <2>2 DEF params
<1> QED
  BY <1>3, <1>4

\* What follows the question mark of a target.
Behind(r) == Joined(Ruled(r.params, GetPiece), "&") \o Prefixed("&", r.url.query)

LEMMA BehindIsRead ==
  ASSUME NEW r, r.params \in Seq(Fields), r.params # <<>>, r.url.query \in Text,
         \A field \in ToSet(r.params) : Sound(field) /\ Plain(field.value)
  PROVE  /\ GetFields(r) = <<"?">> \o Behind(r)
         /\ Behind(r) \in Text
         /\ FieldsIn(Behind(r)) = r.params \o FieldsIn(r.url.query)
<1> DEFINE params == r.params
           query == r.url.query
           parts == Ruled(params, GetPiece)
           J == Joined(parts, "&")
           all == J \o Prefixed("&", query)
           g == ReadPiece
<1>1. /\ params \in Seq(Fields) /\ params # <<>> /\ query \in Text
      /\ \A field \in ToSet(params) : WellRead(GetPiece, field)
  BY GetPieceIsRead
<1>2. GetFields(r) = <<"?">> \o J \o Prefixed("&", query)
  <2>1. \A i \in DOMAIN params : params[i] \in Fields
    BY <1>1, ElementOfSeq, LenProperties
  <2> HIDE DEF params
  <2>2. parts = [i \in DOMAIN params |-> <<params[i].name>> \o Prefixed("=", params[i].value)]
    BY <2>1 DEF Ruled, GetPiece
  <2> QED
    BY <1>1, <2>2 DEF GetFields, params
<1> HIDE DEF params, query
<1>3. /\ parts \in Seq(Text) /\ J \in Text /\ J # <<>> /\ Pieces(J, "&") = parts
      /\ Ruled(parts, g) = params
  BY <1>1, PieceRules, JoinedIsRead
<1> HIDE DEF parts, J
<1>4. <<"?">> \in Text /\ Prefixed("&", query) \in Text /\ "&" \in Words
  BY <1>1, OneWord, WrittenWords, PrefixedType
<1>5. all \in Text /\ <<"?">> \o J \o Prefixed("&", query) = <<"?">> \o all
  BY <1>3, <1>4, TextsFollow, TextsAround
<1>6. ASSUME query = <<>>
      PROVE  FieldsIn(all) = params \o FieldsIn(query)
  <2>1. all = J
    BY <1>3, <1>6, TextsAround DEF Prefixed
  <2>2. FieldsIn(query) = <<>>
    BY <1>6 DEF FieldsIn
  <2>3. FieldsIn(J) = params
    BY <1>3, FieldsInIsRuled
  <2>4. params \o <<>> = params
    BY <1>1, ConcatEmptySeq
  <2> QED
    BY <2>1, <2>2, <2>3, <2>4
<1>7. ASSUME query # <<>>
      PROVE  FieldsIn(all) = params \o FieldsIn(query)
  <2> DEFINE amp == <<"&">>
             Q == Pieces(query, "&")
  <2>1. J \in Seq(Words) /\ query \in Seq(Words) /\ "&" \in Words
    BY <1>1, <1>3, <1>4 DEF Text
  <2>2. all = J \o amp \o query
    <3>1. amp \in Text /\ Prefixed("&", query) = amp \o query
      BY <1>4, <1>7, OneWord DEF Prefixed
    <3> HIDE DEF amp
    <3>2. J \in Text /\ query \in Text
      BY <1>1, <1>3
    <3>3. \A u \in Text : J \o amp \o u = J \o (amp \o u)
      <4>1. Groups(J, amp)
        BY <3>1, <3>2, TextsGroup
      <4> QED
        BY <4>1 DEF Groups
    <3> QED
      BY <3>1, <3>2, <3>3 DEF all
  <2>3. Pieces(J \o amp \o query, "&") = Pieces(J, "&") \o Q
    BY <2>1, PiecesAround
  <2>4. FieldsIn(query) = Ruled(Q, g) /\ Q \in Seq(Text)
    BY <1>1, <1>7, FieldsInIsRuled
  <2>5. all # <<>>
    BY <1>3, <1>4, ConcatEqualIffEmpty DEF Text
  <2> HIDE DEF all, Q, amp
  <2>6. FieldsIn(all) = Ruled(Pieces(all, "&"), g)
    BY <1>5, <2>5, FieldsInIsRuled DEF all
  <2>7. Ruled(parts \o Q, g) = Ruled(parts, g) \o Ruled(Q, g)
    <3> DEFINE U == [name : Words, value : Text]
    <3> HIDE DEF g
    <3>1. PICK T : Rule(g, Text, T)
      BY PieceRules DEF g
    <3>2. parts \in Seq(Text) /\ Q \in Seq(Text)
      BY <1>3, <2>4
    <3> QED
      BY <3>1, <3>2, RuledConcat
  <2> QED
    BY <1>3, <2>2, <2>3, <2>4, <2>6, <2>7
<1>8. FieldsIn(all) = params \o FieldsIn(query)
  BY <1>6, <1>7
<1> HIDE DEF all
<1>9. /\ GetFields(r) = <<"?">> \o all
      /\ Behind(r) = all
  BY <1>2, <1>5 DEF Behind, all, J, parts, params, query
<1> QED
  BY <1>5, <1>8, <1>9 DEF params, query

LEMMA BehindHoldsNone ==
  ASSUME NEW r, r.params \in Seq(Fields), r.params # <<>>, r.url.query \in Text,
         \A field \in ToSet(r.params) : Sound(field) /\ Plain(field.value),
         NEW d \in Special, d \notin {"&", "="}, d \notin ToSet(r.url.query),
         \A field \in ToSet(r.params) : field.name # d
  PROVE  d \notin ToSet(Behind(r))
<1> DEFINE params == r.params
           query == r.url.query
           parts == Ruled(params, GetPiece)
           J == Joined(parts, "&")
<1>1. params \in Seq(Fields) /\ Len(params) \in Nat /\ DOMAIN params = 1..Len(params)
  BY LenProperties
<1>2. parts \in Seq(Seq(Words)) /\ Len(parts) = Len(params) /\ "&" \in Words
  BY <1>1, PieceRules, RuledType, WrittenWords DEF Text
<1>3. Unbroken(parts, d)
  <2>1. ASSUME NEW i \in 1..Len(params)
        PROVE  d \notin ToSet(parts[i])
    <3> DEFINE field == params[i]
    <3>1. field \in ToSet(params)
      BY <1>1, ToSetProperties
    <3>2. Sound(field) /\ Plain(field.value) /\ field.name # d
      BY <3>1
    <3> HIDE DEF field
    <3>3. ToSet(GetPiece[field]) \subseteq {field.name} \cup {"="} \cup ToSet(field.value)
      BY <3>2, GetPieceIsRead
    <3>4. parts[i] = GetPiece[field]
      BY <1>1 DEF Ruled, field
    <3> HIDE DEF parts
    <3> QED
      BY <3>2, <3>3, <3>4 DEF Plain
  <2> HIDE DEF parts
  <2> QED
    BY <1>2, <2>1 DEF Unbroken
<1> HIDE DEF parts
<1>4. d \notin ToSet(J) /\ J \in Text
  BY <1>2, <1>3, JoinedHoldsNone, JoinedType DEF Text
<1> HIDE DEF J
<1>5. query \in Text /\ d \notin ToSet(query)
  OBVIOUS
<1> HIDE DEF query, params
<1>6. Prefixed("&", query) \in Text /\ d \notin ToSet(Prefixed("&", query))
  <2>1. <<"&">> \in Text /\ ToSet(<<"&">>) = {"&"}
    BY OneWord, OneWordSet, WrittenWords
  <2>2. ToSet(<<"&">> \o query) = ToSet(<<"&">>) \cup ToSet(query)
    BY <1>5, <2>1, TextsAround
  <2> QED
    BY <1>2, <1>5, <2>1, <2>2, PrefixedType DEF Prefixed
<1> DEFINE last == Prefixed("&", query)
<1> HIDE DEF last
<1>7. ToSet(J \o last) = ToSet(J) \cup ToSet(last)
  BY <1>4, <1>6, TextsAround DEF last
<1> QED
  BY <1>4, <1>6, <1>7 DEF Behind, J, last, parts, params, query

\* The members of a request that one step changes.
LEMMA RequestSteps ==
  ASSUME RequestInv, [MessageNext]_messageVars, request # None
  PROVE  /\ IsRequest(request)
         /\ \/ request' = request
            \/ \E field \in HttpInputs.headers :
                 request' = [request EXCEPT !.headers = Append(request.headers, field)]
            \/ \E field \in HttpInputs.params :
                 request' = [request EXCEPT !.params = Append(request.params, field)]
            \/ \E body \in HttpInputs.bodies : request' = [request EXCEPT !.body = body]
            \/ \E value \in HttpInputs.ssl : request' = [request EXCEPT !.ssl = value]
            \/ \E data \in HttpInputs.data : request' = [request EXCEPT !.data = data]
            \/ request' = requestData(request)
            \/ \E head, response :
                 request' = [request EXCEPT !.head = head, !.response = response]
<1>1. IsRequest(request)
  BY DEF RequestInv
<1> DEFINE Step ==
      \/ request' = request
      \/ \E field \in HttpInputs.headers :
           request' = [request EXCEPT !.headers = Append(request.headers, field)]
      \/ \E field \in HttpInputs.params :
           request' = [request EXCEPT !.params = Append(request.params, field)]
      \/ \E body \in HttpInputs.bodies : request' = [request EXCEPT !.body = body]
      \/ \E value \in HttpInputs.ssl : request' = [request EXCEPT !.ssl = value]
      \/ \E data \in HttpInputs.data : request' = [request EXCEPT !.data = data]
      \/ request' = requestData(request)
      \/ \E head, response :
           request' = [request EXCEPT !.head = head, !.response = response]
<1>2. ASSUME UNCHANGED request PROVE Step
  BY <1>2, Zenon
<1>3. ASSUME NEW kind \in Kinds, NewRequest(kind) PROVE Step
  BY <1>3, Zenon DEF NewRequest
<1>4. ASSUME NEW field \in HttpInputs.headers, AddHeader(field) PROVE Step
  BY <1>4, Zenon DEF AddHeader, Change
<1>5. ASSUME NEW field \in HttpInputs.params, AddParam(field) PROVE Step
  BY <1>5, Zenon DEF AddParam, Change
<1>6. ASSUME NEW body \in HttpInputs.bodies, SetBody(body) PROVE Step
  BY <1>6, Zenon DEF SetBody, Change
<1>7. ASSUME NEW value \in HttpInputs.ssl, SetSSL(value) PROVE Step
  BY <1>7, Zenon DEF SetSSL, Change
<1>8. ASSUME NEW data \in HttpInputs.data, SetRequest(data) PROVE Step
  BY <1>8, Zenon DEF SetRequest, Change
<1>9. ASSUME Compose PROVE Step
  BY <1>9 DEF Compose
<1>10. ASSUME NEW head \in Heads, InitResponse(head) PROVE Step
  <2> DEFINE h == {head}
             a == IF HeadThrows(Spell(head)) THEN [error |-> "terminated"]
                  ELSE HttpResponse(Spell(head))
  <2>1. request' = [request EXCEPT !.head = h, !.response = a]
    BY <1>10 DEF InitResponse
  <2> HIDE DEF h, a
  <2> QED
    BY <2>1, Zenon
<1>11. MessageNext => Step
  <2> HIDE DEF Step
  <2>1. CASE UNCHANGED request
    BY <1>2, <2>1 DEF Step
  <2> QED
    BY <2>1, <1>3, <1>4, <1>5, <1>6, <1>7, <1>8, <1>9, <1>10 DEF MessageNext
<1> QED
  BY <1>1, <1>2, <1>11, Zenon DEF messageVars

LEMMA FirstSteps ==
  ASSUME [MessageNext]_messageVars, request = None
  PROVE  request' = None \/ \E kind \in Kinds : request' = Make(kind) /\ UNCHANGED url
<1>1. CASE UNCHANGED request
  BY <1>1
<1>2. ASSUME NEW kind \in Kinds, NewRequest(kind)
      PROVE  request' = Make(kind) /\ UNCHANGED url
  BY <1>2 DEF NewRequest, urlVars
<1>3. ASSUME NEW field, AddHeader(field) \/ AddParam(field) PROVE FALSE
  BY <1>3, Zenon DEF AddHeader, AddParam, Change
<1>4. ASSUME NEW x, SetBody(x) \/ SetSSL(x) \/ SetRequest(x) PROVE FALSE
  BY <1>4, Zenon DEF SetBody, SetSSL, SetRequest, Change
<1>5. ASSUME NEW head \in Heads, Compose \/ InitResponse(head) PROVE FALSE
  BY <1>5 DEF Compose, InitResponse
<1>6. ASSUME Compose PROVE FALSE
  BY <1>6 DEF Compose
<1>7. CASE MessageNext
  BY <1>1, <1>2, <1>3, <1>4, <1>5, <1>6, <1>7 DEF MessageNext
<1> QED
  BY <1>1, <1>7 DEF messageVars

\* The parameters are those that the client has given.
ParamsInv == request = None \/ request.params \in Seq(HttpInputs.params)

LEMMA WithBodyLeaves ==
  ASSUME NEW r, r = [f \in Members |-> r[f]]
  PROVE  LET w == WithBody(r) IN
           /\ w = [f \in Members |-> w[f]]
           /\ w.params = r.params /\ w.url = r.url /\ w.kind = r.kind /\ w.data = r.data
           /\ r.kind = "GET" => w = r
           /\ r.kind \in Bodied => w.body = IF r.body = <<>> THEN Form(r) ELSE r.body
<1> DEFINE body == IF r.body = <<>> THEN Form(r) ELSE r.body
           headers == Append(r.headers, Field("content-length", <<ToString(Len(body))>>))
           w == WithBody(r)
<1>1. w = IF r.kind \notin Bodied THEN r ELSE [r EXCEPT !.body = body, !.headers = headers]
  BY DEF WithBody
<1>2. "GET" \notin Bodied
  BY Zenon DEF Bodied
<1> HIDE DEF w, headers, body
<1>3. /\ w = [f \in Members |-> w[f]]
      /\ w.params = r.params /\ w.url = r.url /\ w.kind = r.kind /\ w.data = r.data
      /\ r.kind = "GET" => w = r
      /\ r.kind \in Bodied => w.body = body
  BY <1>1, <1>2 DEF Members
<1> QED
  BY <1>3 DEF w, body

\* What the data of a request is made of.
DataOf(r) ==
  r.data \o <<r.kind, Space>> \o Target(r.url.path)
    \o (IF r.kind = "GET" THEN GetFields(r) ELSE <<>>)
    \o <<Space, "HTTP/1.1", EndOfLine>> \o HeaderLines(WithBody(r).headers)
    \o <<EndOfLine>> \o WithBody(r).body

LEMMA requestDataMakes ==
  ASSUME NEW r, r = [f \in Members |-> r[f]], ~r.composed
  PROVE  /\ requestData(r) = [f \in Members |-> requestData(r)[f]]
         /\ requestData(r).composed /\ requestData(r).data = DataOf(r)
         /\ requestData(r).params = r.params /\ requestData(r).kind = r.kind
         /\ requestData(r).body = WithBody(r).body
<1> DEFINE w == WithBody(r)
           data == w.data \o <<r.kind, Space>> \o Target(r.url.path)
                     \o (IF r.kind = "GET" THEN GetFields(r) ELSE <<>>)
                     \o <<Space, "HTTP/1.1", EndOfLine>> \o HeaderLines(w.headers)
                     \o <<EndOfLine>> \o w.body
<1>1. /\ w = [f \in Members |-> w[f]] /\ w.params = r.params /\ w.kind = r.kind
      /\ w.data = r.data
  BY WithBodyLeaves
<1>2. requestData(r) = [w EXCEPT !.composed = TRUE, !.data = data]
  BY DEF requestData
<1>3. data = DataOf(r)
  <2>1. w.data = r.data /\ w.headers = WithBody(r).headers /\ w.body = WithBody(r).body
    BY <1>1 DEF w
  <2> HIDE DEF w
  <2> QED
    BY <2>1, Zenon DEF DataOf
<1> DEFINE d == requestData(r)
<1> HIDE DEF data, w, d
<1>4. /\ d = [f \in Members |-> d[f]]
      /\ d.composed /\ d.data = data
      /\ d.params = w.params /\ d.kind = w.kind /\ d.body = w.body
  <2>1. d = [w EXCEPT !.composed = TRUE, !.data = data]
    BY <1>2 DEF d
  <2> QED
    BY <1>1, <2>1 DEF Members
<1> QED
  BY <1>1, <1>3, <1>4 DEF w, d

\* The first line of the data, and how it is followed.
QueryOf(r) == IF r.kind = "GET" THEN GetFields(r) ELSE <<>>

FirstLine(r) ==
  r.data \o <<r.kind, Space>> \o Target(r.url.path) \o QueryOf(r) \o <<Space, "HTTP/1.1">>

LEMMA VersionEndsLine ==
  /\ <<Space>> \in Text /\ <<"HTTP/1.1">> \in Text /\ <<EndOfLine>> \in Text
  /\ <<Space, "HTTP/1.1">> = <<Space>> \o <<"HTTP/1.1">>
  /\ <<Space, "HTTP/1.1">> \in Text
  /\ <<Space, "HTTP/1.1", EndOfLine>> = <<Space, "HTTP/1.1">> \o <<EndOfLine>>
<1> DEFINE v == "HTTP/1.1"
           two == <<Space, v>>
           three == <<Space, v, EndOfLine>>
<1>1. Space \in Words /\ v \in Words /\ EndOfLine \in Words
  BY WrittenWords
<1> HIDE DEF v
<1>2. <<Space>> \in Text /\ <<v>> \in Text /\ <<EndOfLine>> \in Text
  BY <1>1, OneWord
<1>3. two = <<Space>> \o <<v>> /\ two \in Text
  BY <1>1, OneAndOne, TwoWords
<1>4. three = two \o <<EndOfLine>>
  <2> DEFINE a == Append(two, EndOfLine)
  <2>1. two \in Seq(Words) /\ Len(two) = 2 /\ two[1] = Space /\ two[2] = v
    BY <1>3 DEF Text
  <2>2. /\ three \in Seq(Words) /\ Len(three) = 3
        /\ three[1] = Space /\ three[2] = v /\ three[3] = EndOfLine
    BY <1>1
  <2> HIDE DEF two, three
  <2>3. a \in Seq(Words) /\ Len(a) = 3 /\ a[1] = Space /\ a[2] = v /\ a[3] = EndOfLine
    <3>1. two \in Seq(Words) /\ EndOfLine \in Words
      BY <1>1, <2>1
    <3>2. a \in Seq(Words)
      BY <3>1, AppendProperties
    <3>3. Len(a) = Len(two) + 1
      BY <3>1, AppendProperties
    <3>4. \A i \in 1..Len(two) : a[i] = two[i]
      BY <3>1, AppendProperties
    <3>5. a[Len(two) + 1] = EndOfLine
      BY <3>1, AppendProperties
    <3> HIDE DEF a
    <3> QED
      BY <2>1, <3>2, <3>3, <3>4, <3>5
  <2>4. a = two \o <<EndOfLine>>
    BY <1>1, <2>1, AppendIsConcat
  <2> HIDE DEF a
  <2>5. \A i \in 1..3 : a[i] = three[i]
    BY <2>2, <2>3
  <2>6. a = three
    BY <2>2, <2>3, <2>5, SeqEqual
  <2> QED
    BY <2>4, <2>6
<1> QED
  BY <1>2, <1>3, <1>4 DEF v

Regrouped(a, v, e, l, b) ==
  a \o (v \o e) \o l \o e \o b = a \o v \o e \o (l \o e \o b)

LEMMA TextsRegroup ==
  ASSUME NEW a \in Text, NEW v \in Text, NEW e \in Text, NEW l \in Text, NEW b \in Text
  PROVE  Regrouped(a, v, e, l, b)
<1> DEFINE x == (a \o v) \o e
           le == l \o e
<1>1. a \o v \in Text /\ x \in Text /\ le \in Text
  BY TextsFollow
<1>2. a \o (v \o e) = x
  BY TextsAround
<1>3. x \o l \o e = x \o le
  <2> HIDE DEF x
  <2>1. x \in Text /\ l \in Text
    BY <1>1
  <2>2. \A u \in Text : x \o l \o u = x \o (l \o u)
    <3>1. Groups(x, l)
      BY <2>1, TextsGroup
    <3> QED
      BY <3>1 DEF Groups
  <2> QED
    BY <2>2
<1>4. x \o le \o b = x \o (le \o b)
  <2> HIDE DEF x, le
  <2>1. x \in Text /\ le \in Text
    BY <1>1
  <2>2. \A u \in Text : x \o le \o u = x \o (le \o u)
    <3>1. Groups(x, le)
      BY <2>1, TextsGroup
    <3> QED
      BY <3>1 DEF Groups
  <2> QED
    BY <2>2
<1> QED
  BY <1>2, <1>3, <1>4 DEF Regrouped

LEMMA DataInLines ==
  ASSUME LengthsAreWords, NEW r, IsRequest(r)
  PROVE  LET w == WithBody(r) IN
           /\ FirstLine(r) \in Text /\ Target(r.url.path) \in Text /\ QueryOf(r) \in Text
           /\ <<r.kind, Space>> \in Text
           /\ w.headers \in Seq(Fields) /\ w.body \in Text /\ HeaderLines(w.headers) \in Text
           /\ DataOf(r) = FirstLine(r) \o <<EndOfLine>>
                            \o (HeaderLines(w.headers) \o <<EndOfLine>> \o w.body)
<1> DEFINE w == WithBody(r)
           lines == HeaderLines(w.headers)
           start == <<r.kind, Space>>
           target == Target(r.url.path)
           query == QueryOf(r)
           a == r.data \o start \o target \o query
           v == <<Space, "HTTP/1.1">>
           e == <<EndOfLine>>
           b == w.body
<1>1. IsRequest(w)
  BY WithBodyType
<1>2. w.headers \in Seq(Fields) /\ b \in Text /\ lines \in Text
  BY <1>1, HeaderLinesType DEF IsRequest
<1>3. target \in Text
  BY TargetType DEF IsRequest, UrlRecord
<1>4. query \in Text
  BY GetFieldsType, NoText DEF QueryOf
<1>5. start \in Text
  <2>1. r.kind \in Words
    BY HttpAssumption DEF IsRequest
  <2> QED
    BY <2>1, WrittenWords, TwoWords
<1>6. r.data \in Text
  BY DEF IsRequest
<1>7. v \in Text /\ e \in Text /\ <<Space, "HTTP/1.1", EndOfLine>> = v \o e
  BY VersionEndsLine
<1>8. DataOf(r) = a \o (v \o e) \o lines \o e \o b
  BY <1>7 DEF DataOf, QueryOf
<1>9. FirstLine(r) = a \o v
  BY DEF FirstLine
<1>10. a \in Text /\ a \o v \in Text
  <2> HIDE DEF start, target, query, v
  <2>1. r.data \o start \in Text
    BY <1>5, <1>6, TextsFollow
  <2>2. r.data \o start \o target \in Text
    BY <1>3, <2>1, TextsFollow
  <2>3. a \in Text
    BY <1>4, <2>2, TextsFollow
  <2> HIDE DEF a
  <2> QED
    BY <1>7, <2>3, TextsFollow
<1> HIDE DEF w, lines, start, target, query, a, v, e, b
<1>11. Regrouped(a, v, e, lines, b)
  BY <1>2, <1>7, <1>10, TextsRegroup
<1> QED
  BY <1>2, <1>3, <1>4, <1>5, <1>8, <1>9, <1>10, <1>11
     DEF w, lines, start, target, query, e, b, Regrouped

LEMMA TargetIsRead ==
  ASSUME NEW k \in Words, NEW t \in Text, Space \notin ToSet(t), NEW rest \in Text
  PROVE  TargetIn(<<k, Space>> \o (t \o <<Space>> \o rest)) = t
<1> DEFINE start == <<k, Space>>
           s == t \o <<Space>> \o rest
           data == start \o s
<1>1. start \in Seq(Words) /\ Len(start) = 2
  BY WrittenWords
<1>2. t \in Seq(Words) /\ rest \in Seq(Words) /\ Space \in Words
  BY WrittenWords DEF Text
<1>3. s \in Seq(Words)
  BY <1>2, Around
<1>4. Before(s, Find(s, Space)) = t
  BY <1>2, FindFirst
<1> HIDE DEF start, s
<1>5. SubSeq(data, Len(start) + 1, Len(data)) = s
  BY <1>1, <1>3, ConcatCut
<1>6. Len(start) + 1 = 3
  BY <1>1
<1> HIDE DEF data
<1>7. TargetIn(data) = t
  BY <1>4, <1>5, <1>6 DEF TargetIn
<1> QED
  BY <1>7 DEF data, start, s

BehindStart(s, t, q, p, h, e, m) ==
  s \o t \o q \o (p \o h) \o e \o m = s \o (t \o q \o p \o (h \o e \o m))

LEMMA TextsBehindStart ==
  ASSUME NEW s \in Text, NEW t \in Text, NEW q \in Text, NEW p \in Text, NEW h \in Text,
         NEW e \in Text, NEW m \in Text
  PROVE  BehindStart(s, t, q, p, h, e, m)
<1> DEFINE x == t \o q
           sx == s \o x
           y == sx \o p
           he == h \o e
           z == he \o m
           xp == x \o p
<1>1. x \in Text /\ he \in Text
  BY TextsFollow
<1>2. sx \in Text /\ z \in Text /\ xp \in Text
  <2> HIDE DEF x, he
  <2> QED
    BY <1>1, TextsFollow
<1>3. y \in Text
  <2> HIDE DEF sx
  <2> QED
    BY <1>2, TextsFollow
<1>4. s \o t \o q = sx
  <2>1. \A u \in Text : s \o t \o u = s \o (t \o u)
    <3>1. Groups(s, t)
      BY TextsGroup
    <3> QED
      BY <3>1 DEF Groups
  <2> QED
    BY <2>1
<1>5. sx \o (p \o h) = y \o h
  <2> HIDE DEF sx
  <2>1. sx \in Text
    BY <1>2
  <2>2. \A u \in Text : sx \o p \o u = sx \o (p \o u)
    <3>1. Groups(sx, p)
      BY <2>1, TextsGroup
    <3> QED
      BY <3>1 DEF Groups
  <2> QED
    BY <2>2
<1>6. y \o h \o e = y \o he
  <2> HIDE DEF y
  <2>1. \A u \in Text : y \o h \o u = y \o (h \o u)
    <3>1. Groups(y, h)
      BY <1>3, TextsGroup
    <3> QED
      BY <3>1 DEF Groups
  <2> QED
    BY <2>1
<1>7. y \o he \o m = y \o z
  <2> HIDE DEF y, he
  <2>1. \A u \in Text : y \o he \o u = y \o (he \o u)
    <3>1. Groups(y, he)
      BY <1>1, <1>3, TextsGroup
    <3> QED
      BY <3>1 DEF Groups
  <2> QED
    BY <2>1 DEF z
<1>8. y = s \o xp
  <2> HIDE DEF x
  <2>1. x \in Text
    BY <1>1
  <2>2. \A u \in Text : s \o x \o u = s \o (x \o u)
    <3>1. Groups(s, x)
      BY <2>1, TextsGroup
    <3> QED
      BY <3>1 DEF Groups
  <2> QED
    BY <2>2
<1>9. s \o xp \o z = s \o (xp \o z)
  <2> HIDE DEF xp, z
  <2>1. xp \in Text /\ z \in Text
    BY <1>2
  <2>2. \A u \in Text : s \o xp \o u = s \o (xp \o u)
    <3>1. Groups(s, xp)
      BY <2>1, TextsGroup
    <3> QED
      BY <3>1 DEF Groups
  <2> QED
    BY <2>1, <2>2
<1>10. s \o t \o q \o (p \o h) \o e \o m = s \o (xp \o z)
  <2>1. s \o t \o q \o (p \o h) = y \o h
    BY <1>4, <1>5
  <2>2. s \o t \o q \o (p \o h) \o e = y \o he
    BY <2>1, <1>6
  <2> HIDE DEF y, he, z, xp
  <2> QED
    BY <2>2, <1>7, <1>8, <1>9
<1> QED
  BY <1>10, Zenon DEF BehindStart, xp, x, z, he

\* The target that a server reads from the data of a GET request.
LEMMA DataTarget ==
  ASSUME LengthsAreWords, NEW r, IsRequest(r), r.data = <<>>,
         Space \notin ToSet(Target(r.url.path)), Space \notin ToSet(QueryOf(r))
  PROVE  /\ TargetIn(DataOf(r)) = Target(r.url.path) \o QueryOf(r)
         /\ Target(r.url.path) \in Text /\ QueryOf(r) \in Text
<1> DEFINE w == WithBody(r)
           s == <<r.kind, Space>>
           t == Target(r.url.path)
           q == QueryOf(r)
           p == <<Space>>
           h == <<"HTTP/1.1">>
           e == <<EndOfLine>>
           m == HeaderLines(w.headers) \o <<EndOfLine>> \o w.body
           tq == t \o q
           rest == h \o e \o m
<1>1. /\ t \in Text /\ q \in Text /\ s \in Text
      /\ w.body \in Text /\ HeaderLines(w.headers) \in Text
      /\ DataOf(r) = FirstLine(r) \o e \o m
  BY DataInLines
<1>2. /\ p \in Text /\ h \in Text /\ e \in Text
      /\ <<Space, "HTTP/1.1">> = p \o h
  BY VersionEndsLine
<1>3. m \in Text
  <2> HIDE DEF w
  <2>1. HeaderLines(w.headers) \o <<EndOfLine>> \in Text
    BY <1>1, <1>2, TextsFollow
  <2> QED
    BY <1>1, <2>1, TextsFollow
<1>4. FirstLine(r) = s \o t \o q \o (p \o h)
  <2>1. <<>> \o s = s
    BY <1>1, TextsAround
  <2> QED
    BY <1>2, <2>1 DEF FirstLine
<1>5. r.kind \in Words
  BY HttpAssumption DEF IsRequest
<1>6. Space \notin ToSet(t) /\ Space \notin ToSet(q)
  OBVIOUS
<1> HIDE DEF t, q, m, e, h
<1>7. tq \in Text /\ rest \in Text /\ ToSet(tq) = ToSet(t) \cup ToSet(q)
  <2>1. h \o e \in Text
    BY <1>2, TextsFollow
  <2> QED
    BY <1>1, <1>3, <2>1, TextsFollow, TextsAround
<1>8. DataOf(r) = s \o (tq \o p \o rest)
  <2> HIDE DEF s, p
  <2>1. BehindStart(s, t, q, p, h, e, m)
    BY <1>1, <1>2, <1>3, TextsBehindStart
  <2> QED
    BY <1>1, <1>4, <2>1 DEF BehindStart
<1> HIDE DEF tq, rest
<1>9. TargetIn(s \o (tq \o p \o rest)) = tq
  BY <1>5, <1>6, <1>7, TargetIsRead
<1> QED
  BY <1>1, <1>8, <1>9 DEF tq, t, q

LEMMA TargetHoldsNone ==
  ASSUME NEW path \in Text, NEW c, c # "/", c \notin ToSet(path)
  PROVE  c \notin ToSet(Target(path))
<1>1. <<"/">> \in Text /\ ToSet(<<"/">>) = {"/"}
  BY WrittenWords, OneWord, OneWordSet
<1>2. ToSet(<<"/">> \o path) = ToSet(<<"/">>) \cup ToSet(path)
  BY <1>1, TextsAround
<1> QED
  BY <1>1, <1>2 DEF Target

LEMMA GetIsRead ==
  ASSUME LengthsAreWords, NEW r, IsRequest(r), r.kind = "GET", r.data = <<>>, GetIsPlain(r),
         \A field \in ToSet(r.params) : Sound(field)
  PROVE  LET target == TargetIn(DataOf(r)) IN
           FieldsIn(SubSeq(target, Len(Before(target, Find(target, "?"))) + 2, Len(target)))
             = r.params \o FieldsIn(r.url.query)
<1> DEFINE path == r.url.path
           query == r.url.query
           params == r.params
           t == Target(path)
           target == TargetIn(DataOf(r))
           read == SubSeq(target, Len(Before(target, Find(target, "?"))) + 2, Len(target))
<1>1. path \in Text /\ query \in Text /\ params \in Seq(Fields)
  BY DEF IsRequest, UrlRecord
<1>2. /\ params # <<>> \/ query = <<>>
      /\ Space \notin ToSet(path) /\ Space \notin ToSet(query)
      /\ "?" \notin ToSet(path) /\ "?" \notin ToSet(query)
      /\ \A field \in ToSet(params) : field.name # Space
      /\ \A i \in DOMAIN params : Plain(params[i].value)
  BY DEF GetIsPlain
<1>3. Space # "/" /\ "?" # "/" /\ Space \notin {"&", "="} /\ Space # "?"
  BY Zenon DEF Space
<1>4. Space \notin ToSet(t) /\ "?" \notin ToSet(t)
  BY <1>1, <1>2, <1>3, TargetHoldsNone
<1>5. \A field \in ToSet(params) : Sound(field) /\ Plain(field.value)
  BY <1>2 DEF ToSet
<1>6. CASE params = <<>>
  <2>1. query = <<>>
    BY <1>2, <1>6
  <2>2. QueryOf(r) = <<>>
    BY <1>6, <2>1 DEF QueryOf, GetFields, Prefixed
  <2>3. Space \notin ToSet(<<>>)
    BY DEF ToSet
  <2>4. target = t \o <<>> /\ t \in Text
    BY <1>4, <2>2, <2>3, DataTarget
  <2>5. target = t /\ t \in Seq(Words)
    BY <2>4, ConcatEmptySeq DEF Text
  <2>6. Find(t, "?") = 0
    BY <1>4, <2>5, FindNone
  <2>7. read = SubSeq(t, Len(t) + 2, Len(t))
    BY <2>5, <2>6 DEF Before
  <2> HIDE DEF t, target, read
  <2>8. SubSeq(t, Len(t) + 2, Len(t)) = <<>>
    <3>1. Len(t) \in Nat
      BY <2>5, LenProperties
    <3>2. Len(t) + 2 \in Int /\ Len(t) \in Int /\ Len(t) < Len(t) + 2
      BY <3>1
    <3> QED
      BY <3>2, SubSeqEmpty
  <2>9. FieldsIn(read) = <<>> /\ FieldsIn(query) = <<>>
    BY <2>1, <2>7, <2>8 DEF FieldsIn
  <2> QED
    BY <1>6, <2>9 DEF read, target
<1>7. CASE params # <<>>
  <2> DEFINE last == Behind(r)
             c == "?"
  <2>1. /\ GetFields(r) = <<"?">> \o last /\ last \in Text
        /\ FieldsIn(last) = params \o FieldsIn(query)
    BY <1>1, <1>5, <1>7, BehindIsRead
  <2>2. Space \notin ToSet(last)
    BY <1>1, <1>2, <1>3, <1>5, <1>7, BehindHoldsNone, DelimitersAreSpecial
  <2> HIDE DEF last
  <2>3. QueryOf(r) = <<"?">> \o last /\ Space \notin ToSet(QueryOf(r))
    <3>1. <<"?">> \in Text /\ ToSet(<<"?">>) = {"?"}
      BY WrittenWords, OneWord, OneWordSet
    <3>2. ToSet(<<"?">> \o last) = ToSet(<<"?">>) \cup ToSet(last)
      BY <2>1, <3>1, TextsAround
    <3> QED
      BY <1>3, <2>1, <2>2, <3>1, <3>2 DEF QueryOf
  <2>4. target = t \o QueryOf(r) /\ t \in Text
    BY <1>4, <2>3, DataTarget
  <2>5. t \in Seq(Words) /\ last \in Seq(Words) /\ c \in Words /\ c \notin ToSet(t)
    BY <1>4, <2>1, <2>4, WrittenWords DEF Text
  <2> HIDE DEF t
  <2>6. target = t \o <<c>> \o last
    <3>1. <<c>> \in Text /\ last \in Text
      BY <2>1, WrittenWords, OneWord
    <3> HIDE DEF c
    <3>2. \A u \in Text : t \o <<c>> \o u = t \o (<<c>> \o u)
      <4>1. Groups(t, <<c>>)
        BY <2>4, <3>1, TextsGroup
      <4> QED
        BY <4>1 DEF Groups
    <3> QED
      BY <2>3, <2>4, <3>1, <3>2 DEF c
  <2> HIDE DEF c, target
  <2>7. Before(target, Find(target, c)) = t
    BY <2>5, <2>6, FindFirst
  <2>8. SubSeq(target, Len(t) + 2, Len(target)) = last
    BY <2>5, <2>6, Around
  <2>9. read = last
    BY <2>7, <2>8 DEF c
  <2> QED
    BY <2>1, <2>9 DEF target, read
<1> QED
  BY <1>6, <1>7

LEMMA ParamsInvNext ==
  ASSUME RequestInv, ParamsInv, [MessageNext]_messageVars
  PROVE  ParamsInv'
<1>1. CASE request = None
  <2>1. ASSUME NEW kind \in Kinds, request' = Make(kind)
        PROVE  request'.params \in Seq(HttpInputs.params)
    BY <2>1, EmptySeq DEF Make
  <2> QED
    BY <1>1, <2>1, FirstSteps DEF ParamsInv
<1>2. CASE request # None
  <2>1. request.params \in Seq(HttpInputs.params) /\ IsRequest(request)
    BY <1>2 DEF ParamsInv, RequestInv
  <2>2. request = [f \in Members |-> request[f]]
    BY <2>1 DEF IsRequest
  <2> DEFINE Fits == request'.params \in Seq(HttpInputs.params)
  <2>3. ASSUME NEW field \in HttpInputs.params,
               request' = [request EXCEPT !.params = Append(request.params, field)]
        PROVE  Fits
    <3> DEFINE params == Append(request.params, field)
    <3>1. params \in Seq(HttpInputs.params)
      BY <2>1, AppendProperties
    <3> HIDE DEF params
    <3>2. request'.params = params
      BY <2>2, <2>3 DEF Members, params
    <3> QED
      BY <3>1, <3>2
  <2>4. ASSUME NEW x,
               \/ request' = [request EXCEPT !.headers = x]
               \/ request' = [request EXCEPT !.body = x]
               \/ request' = [request EXCEPT !.ssl = x]
               \/ request' = [request EXCEPT !.data = x]
        PROVE  Fits
    <3>1. request'.params = request.params
      BY <2>2, <2>4 DEF Members
    <3> QED
      BY <2>1, <3>1
  <2>5. ASSUME NEW x, NEW y, request' = [request EXCEPT !.head = x, !.response = y]
        PROVE  Fits
    <3>1. request'.params = request.params
      BY <2>2, <2>5 DEF Members
    <3> QED
      BY <2>1, <3>1
  <2>6. ASSUME request' = request \/ request' = requestData(request)
        PROVE  Fits
    <3>1. request.composed => requestData(request) = request
      BY DEF requestData
    <3>2. ~request.composed => requestData(request).params = request.params
      BY <2>2, requestDataMakes
    <3> QED
      BY <2>1, <2>6, <3>1, <3>2
  <2>7. Fits
    <3> HIDE DEF Fits
    <3> QED
      BY <1>2, <2>3, <2>4, <2>5, <2>6, RequestSteps, Zenon
  <2> QED
    BY <2>7 DEF ParamsInv
<1> QED
  BY <1>1, <1>2

\* src/http_request.cpp:60-87 and 120-140: a server reads from the data that is composed
\* the parameters in the order in which they were added, whatever is called on
\* the Url and the request before, if the names hold no delimiter of parameters and
\* nothing in a GET request has to be encoded.
THEOREM FieldsAreAlwaysReadBack ==
  ASSUME LengthsAreWords
  PROVE  MessageSpec => FieldsAreReadBack
<1> DEFINE Read ==
      request # None /\ ~request.composed /\ request'.composed
        /\ request.data = <<>> /\ request.body = <<>>
        /\ {"&", "="} \cap {field.name : field \in ToSet(request.params)} = {}
        /\ (IF request.kind = "GET" THEN GetIsPlain(request)
            ELSE HasHeader(request.headers, "content-type", UrlEncoded))
      => FieldsOf(request) =
           FieldsIn(IF request.kind = "GET"
                      THEN LET target == TargetIn(request'.data) IN
                             SubSeq(target, Len(Before(target, Find(target, "?"))) + 2,
                                    Len(target))
                      ELSE request'.body)
<1>1. MessageInit => RequestInv /\ ParamsInv
  BY DEF MessageInit, RequestInv, ParamsInv
<1>2. AddressInv /\ RequestInv /\ [MessageNext]_messageVars => RequestInv'
  BY RequestInvNext
<1>3. RequestInv /\ ParamsInv /\ [MessageNext]_messageVars => ParamsInv'
  BY ParamsInvNext
<1>4. RequestInv /\ ParamsInv /\ [MessageNext]_messageVars => [Read]_messageVars
  <2> SUFFICES ASSUME RequestInv, ParamsInv, [MessageNext]_messageVars,
                      request # None, ~request.composed, request'.composed,
                      request.data = <<>>, request.body = <<>>,
                      {"&", "="} \cap {field.name : field \in ToSet(request.params)} = {},
                      IF request.kind = "GET" THEN GetIsPlain(request)
                      ELSE HasHeader(request.headers, "content-type", UrlEncoded)
               PROVE  FieldsOf(request) =
                        FieldsIn(IF request.kind = "GET"
                          THEN LET target == TargetIn(request'.data) IN
                                 SubSeq(target, Len(Before(target, Find(target, "?"))) + 2,
                                        Len(target))
                          ELSE request'.body)
    BY Zenon
  <2>1. IsRequest(request) /\ request = [f \in Members |-> request[f]]
    <3>1. IsRequest(request)
      BY DEF RequestInv
    <3> QED
      BY <3>1 DEF IsRequest
  <2>2. request' = requestData(request)
    <3>1. ASSUME NEW x,
                 \/ request' = [request EXCEPT !.headers = x]
                 \/ request' = [request EXCEPT !.params = x]
                 \/ request' = [request EXCEPT !.body = x]
                 \/ request' = [request EXCEPT !.ssl = x]
                 \/ request' = [request EXCEPT !.data = x]
          PROVE  FALSE
      BY <2>1, <3>1 DEF Members
    <3>2. ASSUME NEW x, NEW y, request' = [request EXCEPT !.head = x, !.response = y]
          PROVE  FALSE
      BY <2>1, <3>2 DEF Members
    <3> QED
      BY <3>1, <3>2, RequestSteps, Zenon
  <2>3. request'.data = DataOf(request) /\ request'.body = WithBody(request).body
    BY <2>1, <2>2, requestDataMakes
  <2>4. \A field \in ToSet(request.params) : Sound(field)
    <3> SUFFICES ASSUME NEW field \in ToSet(request.params)
                 PROVE  Sound(field)
      OBVIOUS
    <3>1. field \in HttpInputs.params
      BY ToSetProperties DEF ParamsInv
    <3>2. field \in Fields
      BY <3>1, FieldsAreInputs
    <3>3. ToSet(field.value) \cap ({"0x"} \cup {Digit(c) : c \in Special}) = {}
      BY <3>1, HttpAssumption
    <3> QED
      BY <3>2, <3>3 DEF Sound
  <2>5. CASE request.kind = "GET"
    BY <2>1, <2>3, <2>4, <2>5, GetIsRead DEF FieldsOf
  <2>6. CASE request.kind # "GET"
    <3>1. request.kind \in Bodied
      BY <2>1, <2>6, HttpAssumption DEF IsRequest, Bodied
    <3>2. request'.body = Form(request)
      BY <2>1, <2>3, <3>1, WithBodyLeaves
    <3>3. FieldsIn(Form(request)) = request.params
      BY <2>1, <2>4, <2>6, FormIsRead DEF IsRequest
    <3> QED
      BY <2>6, <3>2, <3>3 DEF FieldsOf
  <2> QED
    BY <2>5, <2>6
<1> QED
  BY <1>1, <1>2, <1>3, <1>4, AddressInvHolds, PTL DEF MessageSpec, FieldsAreReadBack

-----------------------------------------------------------------------------
(* Two equal characters side by side.                                      *)

\* Where they stand first.
PairAt(t, c) ==
  SelectInSeq([i \in 1..(Len(t) - 1) |-> <<t[i], t[i + 1]>>], LAMBDA x : x = <<c, c>>)

NoPair(t, c) == \A i \in 1..(Len(t) - 1) : ~(t[i] = c /\ t[i + 1] = c)

LEMMA PairsAreFound == \A t : Slashes(t) = PairAt(t, "/") /\ HeadEnd(t) = PairAt(t, EndOfLine)
BY Zenon DEF Slashes, HeadEnd, PairAt

LEMMA PairNone ==
  ASSUME NEW S, NEW t \in Seq(S), NEW c
  PROVE  NoPair(t, c) <=> PairAt(t, c) = 0
<1> DEFINE pairs == [i \in 1..(Len(t) - 1) |-> <<t[i], t[i + 1]>>]
           P == {i \in 1..Len(pairs) : pairs[i] = <<c, c>>}
<1>1. PairAt(t, c) = IF P # {} THEN Min(P) ELSE 0
  BY DEF PairAt, SelectInSeq
<1>2. Len(t) \in Nat
  BY LenProperties
<1>3. P = {i \in 1..(Len(t) - 1) : t[i] = c /\ t[i + 1] = c}
  <2>1. CASE Len(t) = 0
    <3>1. 1..(Len(t) - 1) = 1..0
      BY <2>1
    <3> DEFINE none == [i \in 1..0 |-> <<t[i], t[i + 1]>>]
    <3>2. pairs = none
      BY <3>1
    <3>3. Len(none) = 0
      OBVIOUS
    <3> HIDE DEF pairs, none
    <3>4. P = {}
      BY <3>2, <3>3
    <3> QED
      BY <3>1, <3>4
  <2>2. CASE Len(t) # 0
    <3>1. Len(t) - 1 \in Nat
      BY <1>2, <2>2
    <3>2. Len(pairs) = Len(t) - 1
      BY <3>1
    <3> QED
      BY <3>1, <3>2
  <2> QED
    BY <2>1, <2>2
<1> HIDE DEF pairs
<1>4. P = {} <=> NoPair(t, c)
  BY <1>3 DEF NoPair
<1>5. P # {} => Min(P) # 0
  <2>1. P \subseteq Nat \ {0}
    BY <1>2, <1>3
  <2> HIDE DEF P
  <2> QED
    BY <2>1, LeastIsThere
<1> HIDE DEF P
<1> QED
  BY <1>1, <1>4, <1>5

LEMMA PairFirst ==
  ASSUME NEW S, NEW t \in Seq(S), NEW c, NEW n \in 1..(Len(t) - 1), t[n] = c, t[n + 1] = c,
         \A i \in 1..(n - 1) : ~(t[i] = c /\ t[i + 1] = c)
  PROVE  PairAt(t, c) = n
<1> DEFINE pairs == [i \in 1..(Len(t) - 1) |-> <<t[i], t[i + 1]>>]
           P == {i \in 1..Len(pairs) : pairs[i] = <<c, c>>}
<1>1. PairAt(t, c) = IF P # {} THEN Min(P) ELSE 0
  BY DEF PairAt, SelectInSeq
<1>2. Len(t) \in Nat /\ Len(t) - 1 \in Nat /\ n \in Nat
  BY LenProperties
<1>3. Len(pairs) = Len(t) - 1
  BY <1>2
<1>4. P = {i \in 1..(Len(t) - 1) : t[i] = c /\ t[i + 1] = c}
  BY <1>2, <1>3
<1> HIDE DEF pairs
<1>5. n \in P /\ P \subseteq Nat /\ \A i \in P : n <= i
  <2>1. n \in P /\ P \subseteq Nat
    BY <1>2, <1>4
  <2>2. ASSUME NEW i \in P PROVE n <= i
    <3>1. i \in 1..(Len(t) - 1) /\ t[i] = c /\ t[i + 1] = c
      BY <1>4
    <3>2. i \notin 1..(n - 1)
      BY <3>1
    <3> QED
      BY <1>2, <3>1, <3>2
  <2> QED
    BY <2>1, <2>2
<1> HIDE DEF P
<1>6. Min(P) \in P /\ \A y \in P : Min(P) <= y
  BY <1>5, LeastIsThere
<1>7. P # {} /\ Min(P) \in Nat /\ n <= Min(P) /\ Min(P) <= n
  BY <1>5, <1>6
<1> QED
  BY <1>1, <1>2, <1>7

LEMMA NoPairWithout ==
  ASSUME NEW S, NEW t \in Seq(S), NEW c, c \notin ToSet(t)
  PROVE  NoPair(t, c)
<1>1. Len(t) \in Nat /\ DOMAIN t = 1..Len(t)
  BY LenProperties
<1>2. \A i \in 1..(Len(t) - 1) : i \in 1..Len(t)
  BY <1>1
<1> QED
  BY <1>1, <1>2 DEF NoPair, ToSet

LEMMA NoPairAround ==
  ASSUME NEW S, NEW a \in Seq(S), NEW d \in S, NEW b \in Seq(S), NEW c, d # c,
         NoPair(a, c), NoPair(b, c)
  PROVE  NoPair(a \o <<d>> \o b, c)
<1> DEFINE s == a \o <<d>> \o b
           m == Len(a)
           n == Len(b)
<1>1. m \in Nat /\ n \in Nat
  BY LenProperties
<1>2. /\ Len(s) = m + 1 + n /\ s[m + 1] = d
      /\ \A i \in 1..m : s[i] = a[i]
      /\ \A i \in 1..n : s[m + 1 + i] = b[i]
  BY Around
<1> HIDE DEF s
<1> SUFFICES ASSUME NEW i \in 1..(Len(s) - 1), s[i] = c, s[i + 1] = c
             PROVE  FALSE
  BY DEF NoPair, s
<1>3. i # m + 1 /\ i + 1 # m + 1
  BY <1>2
<1>4. CASE i < m
  <2>1. i \in 1..(Len(a) - 1) /\ i \in 1..m /\ i + 1 \in 1..m
    BY <1>1, <1>4
  <2>2. a[i] = c /\ a[i + 1] = c
    BY <1>2, <2>1
  <2> QED
    BY <2>1, <2>2 DEF NoPair
<1>5. CASE i > m + 1
  <2> DEFINE k == i - (m + 1)
  <2>1. /\ k \in 1..(Len(b) - 1) /\ k \in 1..n /\ k + 1 \in 1..n
        /\ m + 1 + k = i /\ m + 1 + (k + 1) = i + 1
    BY <1>1, <1>2, <1>5
  <2> HIDE DEF k
  <2>2. b[k] = c /\ b[k + 1] = c
    BY <1>2, <2>1
  <2> QED
    BY <2>1, <2>2 DEF NoPair
<1> QED
  BY <1>1, <1>2, <1>3, <1>4, <1>5

-----------------------------------------------------------------------------
(* What composeUrl() writes, read by the constructor.                      *)

UrlMembers == {"scheme", "user", "password", "host", "port", "local", "path", "query",
               "fragment", "ips", "error", "valid"}

\* What a step to v leaves as it is in u: all members but some.
Kept(u, v, but) == \A f \in UrlMembers \ but : v[f] = u[f]

LEMMA UrlsEqual ==
  ASSUME NEW u \in UrlRecord, NEW v \in UrlRecord, Kept(u, v, {})
  PROVE  v = u
<1>1. \A f \in UrlMembers : v[f] = u[f]
  BY DEF Kept
<1>2. u = [f \in UrlMembers |-> u[f]] /\ v = [f \in UrlMembers |-> v[f]]
  BY DEF UrlRecord, UrlMembers
<1> QED
  BY <1>1, <1>2

LEMMA WithSchemeKeeps ==
  ASSUME NEW u \in UrlRecord, NEW scheme \in Text
  PROVE  LET v == WithScheme(u, scheme) IN
           /\ Kept(u, v, {"scheme", "port", "local"}) /\ v.scheme = scheme
           /\ \/ v.port = u.port /\ v.local = u.local
                 /\ \A s \in DOMAIN DefaultPort : scheme # <<s>>
              \/ \E s \in DOMAIN DefaultPort :
                   v.port = <<DefaultPortText[s]>> /\ v.local = DefaultPort[s]
<1> DEFINE v == [u EXCEPT !.scheme = scheme]
           w == WithScheme(u, scheme)
<1>1. v \in UrlRecord /\ Kept(u, v, {"scheme"}) /\ v.scheme = scheme
  BY DEF UrlRecord, Kept, UrlMembers
<1>2. CASE \E s \in DOMAIN DefaultPort : scheme = <<s>>
  <2>1. PICK s \in DOMAIN DefaultPort : scheme = <<s>>
    BY <1>2
  <2>2. scheme[1] = s
    BY <2>1
  <2> DEFINE port == <<DefaultPortText[s]>>
             local == DefaultPort[s]
  <2>3. w = [v EXCEPT !.port = port, !.local = local]
    BY <1>2, <2>2 DEF WithScheme
  <2> HIDE DEF v, w, port, local
  <2>4. Kept(v, w, {"port", "local"}) /\ w.port = port /\ w.local = local
    BY <1>1, <2>3 DEF UrlRecord, Kept, UrlMembers
  <2>5. Kept(u, w, {"scheme", "port", "local"}) /\ w.scheme = scheme
    BY <1>1, <2>4 DEF Kept, UrlMembers
  <2> QED
    BY <2>4, <2>5 DEF w, port, local
<1>3. CASE ~\E s \in DOMAIN DefaultPort : scheme = <<s>>
  <2>1. w = v
    BY <1>3 DEF WithScheme
  <2> HIDE DEF v, w
  <2>2. /\ Kept(u, w, {"scheme", "port", "local"}) /\ w.scheme = scheme
        /\ w.port = u.port /\ w.local = u.local
    BY <1>1, <2>1 DEF Kept, UrlMembers
  <2> QED
    BY <1>3, <2>2 DEF w
<1> QED
  BY <1>2, <1>3

LEMMA WithPortKeeps ==
  ASSUME NEW u \in UrlRecord, NEW text \in Text
  PROVE  LET v == WithPort(u, text) IN
           /\ Kept(u, v, {"port", "local"}) /\ v.port = text
           /\ v.local = IF PortThrows(text) THEN u.local ELSE Number[text[1]] % 65536
<1> DEFINE n == IF PortThrows(text) THEN u.local ELSE Number[text[1]] % 65536
<1>1. WithPort(u, text) = [u EXCEPT !.port = text, !.local = n]
  BY DEF WithPort
<1> HIDE DEF n
<1>2. LET v == WithPort(u, text) IN
        Kept(u, v, {"port", "local"}) /\ v.port = text /\ v.local = n
  BY <1>1 DEF UrlRecord, Kept, UrlMembers
<1> QED
  BY <1>2 DEF n

LEMMA WithUserInfoKeeps ==
  ASSUME NEW u \in UrlRecord, NEW info \in Text
  PROVE  LET v == WithUserInfo(u, info) IN
           /\ Kept(u, v, {"user", "password"})
           /\ v.user = Before(info, Find(info, ":"))
           /\ v.password = After(info, Find(info, ":"))
BY DEF WithUserInfo, UrlRecord, Kept, UrlMembers

LEMMA WithHostKeeps ==
  ASSUME NEW u \in UrlRecord, NEW host, NEW answer
  PROVE  LET v == WithHost(u, host, answer) IN
           /\ Kept(u, v, {"host", "ips", "error"}) /\ v.host = host
           /\ v.error = IF answer.error = "none" THEN u.error ELSE answer.error
<1> DEFINE ips == u.ips \o answer.ips
           error == IF answer.error = "none" THEN u.error ELSE answer.error
<1>1. WithHost(u, host, answer) = [u EXCEPT !.host = host, !.ips = ips, !.error = error]
  BY DEF WithHost
<1> HIDE DEF ips, error
<1>2. /\ Kept(u, WithHost(u, host, answer), {"host", "ips", "error"})
      /\ WithHost(u, host, answer).host = host
      /\ WithHost(u, host, answer).error = error
  BY <1>1 DEF UrlRecord, Kept, UrlMembers
<1> QED
  BY <1>2 DEF error

LEMMA WithTailKeeps ==
  ASSUME NEW u \in UrlRecord, NEW tail
  PROVE  LET v == WithTail(u, tail)
             behind == After(tail, Find(tail, "?"))
         IN /\ Kept(u, v, {"path", "query", "fragment", "valid"}) /\ v.valid = TRUE
            /\ v.path = Before(tail, Find(tail, "?"))
            /\ v.query = Before(behind, Find(behind, "#"))
            /\ v.fragment = After(behind, Find(behind, "#"))
<1> DEFINE path == Before(tail, Find(tail, "?"))
           behind == After(tail, Find(tail, "?"))
           query == Before(behind, Find(behind, "#"))
           fragment == After(behind, Find(behind, "#"))
           x == WithTail(u, tail)
<1>1. x = [u EXCEPT !.path = path, !.query = query, !.fragment = fragment, !.valid = TRUE]
  BY DEF WithTail
<1> HIDE DEF path, query, fragment, x
<1> DEFINE v == [u EXCEPT !.path = path, !.query = query]
<1>2. Kept(u, v, {"path", "query"}) /\ v.path = path /\ v.query = query
      /\ v = [f \in UrlMembers |-> v[f]]
  BY DEF UrlRecord, Kept, UrlMembers
<1>3. x = [v EXCEPT !.fragment = fragment, !.valid = TRUE]
  BY <1>1
<1> HIDE DEF v
<1>4. Kept(v, x, {"fragment", "valid"}) /\ x.fragment = fragment /\ x.valid = TRUE
  <2>1. v = [f \in UrlMembers |-> v[f]]
    BY <1>2
  <2>2. x.fragment = fragment /\ x.valid = TRUE
    BY <1>3, <2>1 DEF UrlMembers
  <2>3. ASSUME NEW f \in UrlMembers \ {"fragment", "valid"} PROVE x[f] = v[f]
    BY <1>3, <2>1
  <2> QED
    BY <2>2, <2>3 DEF Kept
<1>5. Kept(u, x, {"path", "query", "fragment", "valid"}) /\ x.path = path /\ x.query = query
  BY <1>2, <1>4 DEF Kept, UrlMembers
<1> QED
  BY <1>4, <1>5 DEF path, query, fragment, x

LEMMA DelimitersAreWords ==
  "?" \in Words /\ "#" \in Words /\ "@" \in Words /\ ":" \in Words /\ "/" \in Words
BY DelimitersAreSpecial, WordsAssumption, Zenon

\* A part without a delimiter, and what follows behind the delimiter, if anything.
LEMMA CutBack ==
  ASSUME NEW a \in Text, NEW b \in Text, NEW c \in Words, c \notin ToSet(a)
  PROVE  LET s == a \o Prefixed(c, b) IN
           /\ s \in Text
           /\ Before(s, Find(s, c)) = a /\ After(s, Find(s, c)) = b
           /\ Find(s, c) = 0 <=> b = <<>>
<1> DEFINE s == a \o Prefixed(c, b)
<1>1. s \in Text
  BY PrefixedType, TextsFollow
<1>2. a \in Seq(Words) /\ b \in Seq(Words)
  BY DEF Text
<1>3. CASE b = <<>>
  <2>1. s = a
    BY <1>3, TextsAround, NoText DEF Prefixed
  <2>2. Find(a, c) = 0
    BY <1>2, FindNone
  <2> HIDE DEF s
  <2>3. Before(s, Find(s, c)) = a /\ After(s, Find(s, c)) = b /\ Find(s, c) = 0
    BY <1>3, <2>1, <2>2 DEF Before, After
  <2> QED
    BY <1>1, <1>3, <2>3 DEF s
<1>4. CASE b # <<>>
  <2>1. s = a \o <<c>> \o b
    <3>1. <<c>> \in Text
      BY OneWord
    <3>2. \A u \in Text : (a \o <<c>>) \o u = a \o (<<c>> \o u)
      <4>1. Groups(a, <<c>>)
        BY <3>1, TextsGroup
      <4> QED
        BY <4>1 DEF Groups
    <3> QED
      BY <1>4, <3>2 DEF Prefixed
  <2> DEFINE t == a \o <<c>> \o b
  <2>2. Find(t, c) = Len(a) + 1 /\ Before(t, Find(t, c)) = a /\ After(t, Find(t, c)) = b
    BY <1>2, FindFirst
  <2>3. s = t
    BY <2>1
  <2> HIDE DEF s, t
  <2>4. Len(a) + 1 # 0
    BY <1>2, LenProperties
  <2>5. Before(s, Find(s, c)) = a /\ After(s, Find(s, c)) = b /\ Find(s, c) # 0
    BY <2>2, <2>3, <2>4
  <2> QED
    BY <1>1, <1>4, <2>5 DEF s
<1> QED
  BY <1>3, <1>4

LEMMA SomeText ==
  ASSUME NEW s \in Text, NEW t \in Text, s # <<>>
  PROVE  s \o t # <<>> /\ (s \o t)[1] = s[1]
<1>1. s \in Seq(Words) /\ t \in Seq(Words)
  BY DEF Text
<1>2. Len(s) \in Nat \ {0} /\ Len(t) \in Nat
  BY <1>1, EmptySeq, LenProperties
<1>3. /\ Len(s \o t) = Len(s) + Len(t)
      /\ \A i \in 1..(Len(s) + Len(t)) : (s \o t)[i] = IF i <= Len(s) THEN s[i] ELSE t[i - Len(s)]
  BY <1>1, ConcatProperties
<1>4. Len(s \o t) # 0 /\ 1 \in 1..(Len(s) + Len(t)) /\ 1 <= Len(s)
  BY <1>2, <1>3
<1> QED
  BY <1>3, <1>4

TailText(path, query, fragment) ==
  path \o Prefixed("?", query) \o Prefixed("#", fragment)

\* A path, a query and a fragment, of which composeUrl() makes the end of its text.
LEMMA TailIsRead ==
  ASSUME NEW path \in Text, NEW query \in Text, NEW fragment \in Text,
         "?" \notin ToSet(path), "#" \notin ToSet(query),
         fragment # <<>> => query # <<>>
  PROVE  LET tail == TailText(path, query, fragment)
             behind == After(tail, Find(tail, "?"))
         IN /\ tail \in Text
            /\ tail = path \o Prefixed("?", query \o Prefixed("#", fragment))
            /\ Before(tail, Find(tail, "?")) = path
            /\ Before(behind, Find(behind, "#")) = query
            /\ After(behind, Find(behind, "#")) = fragment
<1> DEFINE tail == TailText(path, query, fragment)
           f == Prefixed("#", fragment)
           b == query \o f
<1>1. "?" \in Words /\ "#" \in Words
  BY DelimitersAreWords
<1>2. f \in Text
  BY <1>1, PrefixedType
<1>3. b \in Text /\ Before(b, Find(b, "#")) = query /\ After(b, Find(b, "#")) = fragment
  BY <1>1, CutBack
<1>4. tail = path \o Prefixed("?", b)
  <2>1. CASE query = <<>>
    <3>1. fragment = <<>> /\ Prefixed("?", query) = <<>> /\ f = <<>>
      BY <2>1 DEF Prefixed
    <3>2. tail = path \o <<>> \o <<>>
      BY <3>1 DEF TailText
    <3>3. path \o <<>> = path /\ <<>> \o <<>> = <<>>
      BY TextsAround, NoText
    <3>4. b = <<>>
      BY <2>1, <3>1, <3>3
    <3> HIDE DEF tail, b
    <3>5. Prefixed("?", b) = <<>>
      BY <3>4 DEF Prefixed
    <3> QED
      BY <3>2, <3>3, <3>5 DEF tail, b
  <2>2. CASE query # <<>>
    <3> DEFINE q == <<"?">>
    <3>1. q \in Text
      BY <1>1, OneWord
    <3> HIDE DEF q
    <3>2. Prefixed("?", query) = q \o query /\ q \o query \in Text
      BY <2>2, <3>1, TextsFollow DEF Prefixed, q
    <3>3. b # <<>>
      BY <1>2, <2>2, SomeText
    <3> HIDE DEF b
    <3>4. Prefixed("?", b) = q \o b
      BY <3>3 DEF Prefixed, q
    <3>5. tail = path \o (q \o query) \o f
      BY <3>2 DEF TailText
    <3> HIDE DEF tail, f
    <3>6. \A u \in Text : (path \o (q \o query)) \o u = path \o ((q \o query) \o u)
      <4>1. Groups(path, (q \o query))
        BY <3>2, TextsGroup
      <4> QED
        BY <4>1 DEF Groups
    <3>7. \A u \in Text : (q \o query) \o u = q \o (query \o u)
      <4>1. Groups(q, query)
        BY <3>1, TextsGroup
      <4> QED
        BY <4>1 DEF Groups
    <3>8. tail = path \o (q \o (query \o f))
      BY <1>2, <3>5, <3>6, <3>7
    <3> QED
      BY <3>4, <3>8 DEF b, f, tail
  <2> QED
    BY <2>1, <2>2
<1> HIDE DEF b, tail
<1>5. /\ path \o Prefixed("?", b) \in Text
      /\ Before(path \o Prefixed("?", b), Find(path \o Prefixed("?", b), "?")) = path
      /\ After(path \o Prefixed("?", b), Find(path \o Prefixed("?", b), "?")) = b
  BY <1>1, <1>3, CutBack
<1>6. tail \in Text /\ Before(tail, Find(tail, "?")) = path /\ After(tail, Find(tail, "?")) = b
  BY <1>4, <1>5
<1> QED
  BY <1>3, <1>4, <1>6 DEF tail, b

LEMMA FindAt ==
  ASSUME NEW S, NEW s \in Seq(S), NEW c, NEW n \in 1..Len(s), s[n] = c,
         \A i \in 1..(n - 1) : s[i] # c
  PROVE  Find(s, c) = n
<1> DEFINE I == {i \in 1..Len(s) : s[i] = c}
<1>1. Find(s, c) = IF I # {} THEN Min(I) ELSE 0
  BY DEF Find, SelectInSeq
<1>2. Len(s) \in Nat
  BY LenProperties
<1>3. n \in I /\ I \subseteq Nat
  BY <1>2
<1>4. \A i \in I : n <= i
  OBVIOUS
<1> HIDE DEF I
<1>5. Min(I) \in I /\ \A y \in I : Min(I) <= y
  BY <1>3, LeastIsThere
<1>6. I # {} /\ Min(I) \in Nat /\ n <= Min(I) /\ Min(I) <= n
  BY <1>3, <1>4, <1>5
<1> QED
  BY <1>1, <1>6

\* Behind two slashes, an authority without a slash and a tail that begins with one.
LEMMA AuthorityCut ==
  ASSUME NEW a \in Text, NEW t \in Text, "/" \notin ToSet(a), t # <<>> => t[1] = "/"
  PROVE  LET rest == <<"/", "/">> \o (a \o t) IN
           /\ rest \in Text /\ Slashes(rest) # 0
           /\ AuthorityOf(rest) = a /\ TailOf(rest) = t
<1> DEFINE x == <<"/", "/">>
           b == a \o t
           rest == x \o b
<1>1. /\ x \in Text /\ Len(x) = 2 /\ x[1] = "/" /\ x[2] = "/"
  BY DelimitersAreWords DEF Text
<1> HIDE DEF x
<1>2. b \in Text /\ a \in Seq(Words) /\ t \in Seq(Words) /\ x \in Seq(Words)
  BY <1>1, TextsFollow DEF Text
<1>3. /\ Len(a) \in Nat /\ Len(t) \in Nat /\ Len(b) = Len(a) + Len(t)
      /\ \A i \in 1..(Len(a) + Len(t)) : b[i] = IF i <= Len(a) THEN a[i] ELSE t[i - Len(a)]
  BY <1>2, LenProperties, ConcatProperties
<1>4. SubSeq(b, Len(a) + 1, Len(b)) = t /\ SubSeq(b, 1, Len(a)) = a
  BY <1>2, ConcatCut
<1> HIDE DEF b
<1>5. b \in Seq(Words)
  BY <1>2 DEF Text
<1>6. /\ rest \in Seq(Words) /\ Len(rest) = Len(x) + Len(b)
      /\ \A i \in 1..(Len(x) + Len(b)) : rest[i] = IF i <= Len(x) THEN x[i] ELSE b[i - Len(x)]
  BY <1>2, <1>5, ConcatProperties
<1>7. SubSeq(rest, Len(x) + 1, Len(rest)) = b
  BY <1>2, <1>5, ConcatCut
<1> HIDE DEF rest
<1>8. rest[1] = "/" /\ rest[2] = "/" /\ 1 \in 1..(Len(rest) - 1)
  BY <1>1, <1>3, <1>6
<1>9. Slashes(rest) = 1
  <2>1. 1 + 1 = 2 /\ \A i \in 1..(1 - 1) : ~(rest[i] = "/" /\ rest[i + 1] = "/")
    OBVIOUS
  <2>2. PairAt(rest, "/") = 1
    BY <1>6, <1>8, <2>1, PairFirst
  <2> QED
    BY <2>2, PairsAreFound
<1>10. BodyOf(rest) = b
  <2>1. Len(x) + 1 = 3 /\ Slashes(rest) # 0
    BY <1>1, <1>9
  <2> QED
    BY <1>7, <2>1 DEF BodyOf
<1>11. AuthorityEnd(rest) = Find(b, "/")
  BY <1>9, <1>10 DEF AuthorityEnd, Find, SelectInSubSeq, SelectInSeq
<1>12. \A i \in 1..Len(a) : a[i] # "/"
  BY <1>2, LenProperties DEF ToSet
<1>13. CASE t = <<>>
  <2>1. Len(t) = 0
    BY <1>13
  <2>2. b = a
    BY <1>13, TextsAround, NoText DEF b
  <2>3. Find(b, "/") = 0
    BY <1>2, <2>2, FindNone
  <2>4. AuthorityOf(rest) = a /\ TailOf(rest) = t
    BY <1>9, <1>10, <1>11, <1>13, <2>2, <2>3 DEF AuthorityOf, TailOf, Before
  <2> QED
    BY <1>6, <1>9, <2>4 DEF rest, x, b, Text
<1>14. CASE t # <<>>
  <2>1. Len(t) # 0 /\ t[1] = "/"
    BY <1>2, <1>14, EmptySeq
  <2> DEFINE n == Len(a) + 1
  <2>2. n \in 1..Len(b) /\ b[n] = "/" /\ n # 0 /\ n - 1 = Len(a)
    BY <1>3, <2>1
  <2>3. \A i \in 1..(n - 1) : b[i] # "/"
    BY <1>3, <1>12
  <2>4. Find(b, "/") = n
    <3> HIDE DEF n
    <3> QED
      BY <1>5, <2>2, <2>3, FindAt
  <2>5. Before(b, n) = a /\ SubSeq(b, n, Len(b)) = t
    BY <1>4, <2>2 DEF Before
  <2> HIDE DEF n
  <2>6. Slashes(rest) # 0 /\ AuthorityEnd(rest) = n
    BY <1>9, <1>11, <2>4
  <2>7. AuthorityOf(rest) = a /\ TailOf(rest) = t
    BY <1>10, <2>2, <2>5, <2>6 DEF AuthorityOf, TailOf
  <2> QED
    BY <1>6, <1>9, <2>7 DEF rest, x, b, Text
<1> QED
  BY <1>13, <1>14

LEMMA PrefixedHolds ==
  ASSUME NEW c \in Words, NEW s \in Text
  PROVE  /\ Prefixed(c, s) \in Text /\ ToSet(Prefixed(c, s)) \subseteq {c} \cup ToSet(s)
         /\ Suffixed(s, c) \in Text /\ ToSet(Suffixed(s, c)) \subseteq ToSet(s) \cup {c}
         /\ s # <<>> => Suffixed(s, c) = s \o <<c>>
<1> DEFINE one == <<c>>
<1>1. one \in Text /\ ToSet(one) = {c}
  BY OneWord, OneWordSet
<1>2. Append(s, c) = s \o one
  BY AppendIsConcat DEF Text
<1> HIDE DEF one
<1>3. /\ one \o s \in Text /\ ToSet(one \o s) = ToSet(one) \cup ToSet(s)
      /\ s \o one \in Text /\ ToSet(s \o one) = ToSet(s) \cup ToSet(one)
  BY <1>1, TextsFollow, TextsAround
<1>4. Prefixed(c, s) = IF s = <<>> THEN s ELSE one \o s
  BY DEF Prefixed, one
<1>5. Suffixed(s, c) = IF s = <<>> THEN s ELSE s \o one
  BY <1>2 DEF Suffixed
<1> QED
  BY <1>1, <1>3, <1>4, <1>5 DEF one

InfoText(user, password) == user \o (IF user = <<>> THEN <<>> ELSE Prefixed(":", password))

SiteText(host, port) == host \o Prefixed(":", port)

AuthorityText(u, host) ==
  Suffixed(InfoText(u.user, u.password), "@") \o SiteText(host, u.port)

\* What the constructor needs to find the parts of an authority again.
Parted(u, host) ==
  /\ {u.user, u.password, host, u.port} \subseteq Text
  /\ u.user = <<>> => u.password = <<>>
  /\ ":" \notin ToSet(u.user) /\ {":", "@"} \cap ToSet(host) = {}
  /\ "@" \notin ToSet(u.port)

LEMMA InfoIsRead ==
  ASSUME NEW user \in Text, NEW password \in Text, ":" \notin ToSet(user),
         user = <<>> => password = <<>>
  PROVE  LET info == InfoText(user, password) IN
           /\ info \in Text /\ (info = <<>> <=> user = <<>>)
           /\ Before(info, Find(info, ":")) = user /\ After(info, Find(info, ":")) = password
           /\ ToSet(info) \subseteq ToSet(user) \cup {":"} \cup ToSet(password)
<1> DEFINE p == Prefixed(":", password)
<1>1. InfoText(user, password) = user \o p
  <2>1. CASE user = <<>>
    BY <2>1 DEF InfoText, Prefixed
  <2>2. CASE user # <<>>
    BY <2>2 DEF InfoText
  <2> QED
    BY <2>1, <2>2
<1>2. /\ user \o p \in Text
      /\ Before(user \o p, Find(user \o p, ":")) = user
      /\ After(user \o p, Find(user \o p, ":")) = password
  BY DelimitersAreWords, CutBack
<1>3. p \in Text /\ ToSet(p) \subseteq {":"} \cup ToSet(password)
  BY DelimitersAreWords, PrefixedHolds
<1>4. user = <<>> => p = <<>>
  BY DEF Prefixed
<1> HIDE DEF p
<1>5. ToSet(user \o p) = ToSet(user) \cup ToSet(p) /\ <<>> \o <<>> = <<>>
  BY <1>3, TextsAround, NoText
<1>6. user \o p = <<>> <=> user = <<>>
  BY <1>3, <1>4, <1>5, SomeText
<1> QED
  BY <1>1, <1>2, <1>3, <1>5, <1>6

LEMMA SiteIsRead ==
  ASSUME NEW host \in Text, NEW port \in Text, {":", "@"} \cap ToSet(host) = {},
         "@" \notin ToSet(port)
  PROVE  LET site == SiteText(host, port) IN
           /\ site \in Text /\ "@" \notin ToSet(site)
           /\ Find(site, ":") = 0 <=> port = <<>>
           /\ Before(site, Find(site, ":")) = host /\ After(site, Find(site, ":")) = port
           /\ ToSet(site) \subseteq ToSet(host) \cup {":"} \cup ToSet(port)
<1> DEFINE p == Prefixed(":", port)
<1>1. /\ host \o p \in Text /\ (Find(host \o p, ":") = 0 <=> port = <<>>)
      /\ Before(host \o p, Find(host \o p, ":")) = host
      /\ After(host \o p, Find(host \o p, ":")) = port
  BY DelimitersAreWords, CutBack
<1>2. p \in Text /\ ToSet(p) \subseteq {":"} \cup ToSet(port)
  BY DelimitersAreWords, PrefixedHolds
<1> HIDE DEF p
<1>3. ToSet(host \o p) = ToSet(host) \cup ToSet(p)
  BY <1>2, TextsAround
<1> QED
  BY <1>1, <1>2, <1>3 DEF SiteText, p

LEMMA AuthorityIsRead ==
  ASSUME NEW u, NEW host, Parted(u, host)
  PROVE  LET a == AuthorityText(u, host)
             info == Before(a, FindLast(a, "@"))
         IN /\ a \in Text /\ SiteOf(a) = SiteText(host, u.port)
            /\ FindLast(a, "@") = 0 <=> u.user = <<>>
            /\ u.user # <<>> => info = InfoText(u.user, u.password)
<1> DEFINE info == InfoText(u.user, u.password)
           site == SiteText(host, u.port)
           a == AuthorityText(u, host)
<1>1. info \in Text /\ (info = <<>> <=> u.user = <<>>)
  BY InfoIsRead DEF Parted
<1>2. site \in Text /\ "@" \notin ToSet(site)
  BY SiteIsRead DEF Parted
<1>3. a = Suffixed(info, "@") \o site
  BY DEF AuthorityText
<1>4. "@" \in Words /\ info \in Seq(Words) /\ site \in Seq(Words)
  BY <1>1, <1>2, DelimitersAreWords DEF Text
<1> HIDE DEF info, site, a
<1>5. CASE u.user = <<>>
  <2>1. a = <<>> \o site
    BY <1>1, <1>3, <1>5 DEF Suffixed
  <2>2. a = site
    BY <1>2, <2>1, TextsAround, NoText
  <2>3. FindLast(a, "@") = 0
    BY <1>2, <1>4, <2>2, FindNone
  <2>4. SubSeq(a, 0 + 1, Len(a)) = a
    <3> DEFINE none == <<>>
    <3>1. none \in Seq(Words) /\ Len(none) = 0
      BY EmptySeq
    <3>2. SubSeq(none \o site, Len(none) + 1, Len(none \o site)) = site
      BY <1>4, <3>1, ConcatCut
    <3> QED
      BY <2>1, <2>2, <3>1, <3>2
  <2>5. SiteOf(a) = site
    BY <2>2, <2>3, <2>4 DEF SiteOf
  <2> QED
    BY <1>2, <1>5, <2>2, <2>3, <2>5 DEF a, site
<1>6. CASE u.user # <<>>
  <2>1. a = info \o <<"@">> \o site
    BY <1>1, <1>3, <1>4, <1>6, PrefixedHolds
  <2> DEFINE t == info \o <<"@">> \o site
  <2>2. /\ FindLast(t, "@") = Len(info) + 1
        /\ Before(t, Len(info) + 1) = info /\ SubSeq(t, Len(info) + 2, Len(t)) = site
    BY <1>2, <1>4, FindLastOne
  <2>3. t \in Text
    BY <1>4, Around DEF Text
  <2>4. a = t
    BY <2>1
  <2> HIDE DEF t
  <2>5. Len(info) + 1 # 0 /\ Len(info) + 1 + 1 = Len(info) + 2
    BY <1>4, LenProperties
  <2>6. /\ FindLast(a, "@") # 0 /\ SiteOf(a) = site
        /\ Before(a, FindLast(a, "@")) = info
    BY <2>2, <2>4, <2>5 DEF SiteOf
  <2> QED
    BY <1>6, <2>3, <2>4, <2>6 DEF a, site, info
<1> QED
  BY <1>5, <1>6

FourJoined(a, b, c, d) == a \o b \o c \o d = a \o (b \o (c \o d))

LEMMA FourTexts ==
  ASSUME NEW a \in Text, NEW b \in Text, NEW c \in Text, NEW d \in Text
  PROVE  FourJoined(a, b, c, d)
<1>1. a \o b \in Text /\ c \o d \in Text
  BY TextsFollow
<1> DEFINE ab == a \o b
           cd == c \o d
<1>2. ab \in Text /\ cd \in Text
  BY <1>1
<1>3. \A u \in Text : (a \o b) \o u = a \o (b \o u)
  <2>1. Groups(a, b)
    BY TextsGroup
  <2> QED
    BY <2>1 DEF Groups
<1>4. ab \o cd = a \o (b \o cd)
  BY <1>2, <1>3
<1> HIDE DEF ab
<1>5. \A u \in Text : (ab \o c) \o u = ab \o (c \o u)
  <2>1. Groups(ab, c)
    BY <1>2, TextsGroup
  <2> QED
    BY <2>1 DEF Groups
<1>6. (ab \o c) \o d = ab \o cd
  BY <1>5
<1> QED
  BY <1>4, <1>6 DEF ab, cd, FourJoined

\* The host that composeUrl() writes.
HostWritten(u) == IF u.host # <<>> THEN u.host ELSE <<Head(u.ips)>>

Nameless(u) == u.host = <<>> /\ u.ips = <<>>

LEMMA HostIsWritten ==
  ASSUME NEW u \in UrlRecord, ~Nameless(u)
  PROVE  /\ HostWritten(u) \in Text
         /\ u.host = <<>> => /\ \E a \in Addresses : HostWritten(u) = <<a>>
                             /\ Len(u.ips) <= 1 => u.ips = HostWritten(u)
<1>1. CASE u.host # <<>>
  BY <1>1 DEF HostWritten, UrlRecord
<1>2. CASE u.host = <<>>
  <2> DEFINE ips == u.ips
             a == Head(ips)
  <2>1. ips \in Seq(Addresses) /\ ips # <<>>
    BY <1>2 DEF UrlRecord, Nameless
  <2>2. HostWritten(u) = <<a>>
    BY <1>2 DEF HostWritten
  <2> HIDE DEF ips
  <2>3. /\ a \in Addresses /\ a = ips[1] /\ Len(ips) \in Nat \ {0}
    BY <2>1, HeadTailProperties, EmptySeq, LenProperties
  <2>4. a \in Words
    BY <2>3, UrlAssumption
  <2> HIDE DEF a
  <2>5. ASSUME Len(ips) <= 1 PROVE ips = <<a>>
    <3>1. Len(ips) = 1
      <4>1. Len(ips) \in Nat /\ Len(ips) # 0
        BY <2>3
      <4>2. \A n \in Nat : n # 0 /\ n <= 1 => n = 1
        OBVIOUS
      <4> QED
        BY <2>5, <4>1, <4>2, Zenon
    <3> DEFINE one == <<a>>
    <3>2. one \in Seq(Addresses) /\ Len(one) = 1 /\ one[1] = a
      BY <2>3
    <3> HIDE DEF one
    <3>3. \A i \in 1..Len(ips) : ips[i] = one[i]
      BY <2>3, <3>1, <3>2
    <3> QED
      BY <2>1, <3>1, <3>2, <3>3, SeqEqual DEF one
  <2> QED
    BY <1>2, <2>2, <2>3, <2>4, <2>5, OneWord DEF ips
<1> QED
  BY <1>1, <1>2

RestText(u) ==
  (IF Nameless(u) THEN <<>> ELSE <<"/", "/">> \o AuthorityText(u, HostWritten(u)))
    \o TailText(u.path, u.query, u.fragment)

LEMMA ComposedParts ==
  ASSUME NEW u \in UrlRecord, u.scheme # <<>>,
         ~Nameless(u) => Parted(u, HostWritten(u))
  PROVE  /\ composeUrl(u) = u.scheme \o <<":">> \o RestText(u)
         /\ RestText(u) \in Text
<1> DEFINE c == <<":">>
           s == <<"/", "/">>
           h == HostWritten(u)
           i == Suffixed(InfoText(u.user, u.password), "@")
           p == Prefixed(":", u.port)
           x == IF Nameless(u) THEN <<>> ELSE s \o i \o h \o p
           q == Prefixed("?", u.query)
           f == Prefixed("#", u.fragment)
           path == u.path
           scheme == u.scheme
<1>1. composeUrl(u) = Suffixed(scheme, ":") \o x \o path \o q \o f
  BY DEF composeUrl, Nameless, InfoText, HostWritten
<1>2. /\ path \in Text /\ scheme \in Text /\ u.query \in Text /\ u.fragment \in Text
      /\ u.port \in Text
  BY DEF UrlRecord
<1>3. c \in Text /\ s \in Text
  BY DelimitersAreWords, OneWord, TwoWords
<1>4. q \in Text /\ f \in Text /\ p \in Text
  BY <1>2, DelimitersAreWords, PrefixedHolds
<1>5. Suffixed(scheme, ":") = scheme \o c
  BY <1>2, DelimitersAreWords, PrefixedHolds
<1>6. scheme \o c \in Text
  BY <1>2, <1>3, TextsFollow
<1>7. x \in Text /\ x = IF Nameless(u) THEN <<>> ELSE s \o AuthorityText(u, h)
  <2>1. CASE Nameless(u)
    BY <2>1, NoText
  <2>2. CASE ~Nameless(u)
    <3>1. Parted(u, h) /\ h \in Text /\ u.user \in Text /\ u.password \in Text
      BY <2>2 DEF Parted
    <3>2. i \in Text
      <4>1. InfoText(u.user, u.password) \in Text
        BY <3>1, InfoIsRead DEF Parted
      <4> QED
        BY <4>1, DelimitersAreWords, PrefixedHolds
    <3>3. AuthorityText(u, h) = i \o (h \o p)
      BY DEF AuthorityText, SiteText
    <3> HIDE DEF s, i, h, p
    <3>4. s \o i \o h \o p = s \o (i \o (h \o p))
      <4>1. s \in Text /\ i \in Text /\ h \in Text /\ p \in Text
        BY <1>3, <1>4, <3>1, <3>2
      <4> QED
        <5>1. FourJoined(s, i, h, p)
          BY <4>1, FourTexts
        <5> QED
          BY <5>1 DEF FourJoined
    <3>5. AuthorityText(u, h) \in Text
      BY <3>1, AuthorityIsRead
    <3> DEFINE a == AuthorityText(u, h)
    <3>6. x = s \o a
      BY <2>2, <3>3, <3>4
    <3>7. a \in Text
      BY <3>5
    <3> HIDE DEF a, x
    <3>8. s \o a \in Text
      BY <1>3, <3>7, TextsFollow
    <3> QED
      BY <2>2, <3>6, <3>8 DEF a
  <2> QED
    BY <2>1, <2>2
<1> DEFINE y == scheme \o c
           t == path \o (q \o f)
<1>8. q \o f \in Text /\ t \in Text
  <2>1. q \o f \in Text
    BY <1>4, TextsFollow
  <2> DEFINE qf == q \o f
  <2>2. qf \in Text
    BY <2>1
  <2> HIDE DEF qf
  <2>3. path \o qf \in Text
    BY <1>2, <2>2, TextsFollow
  <2> QED
    BY <2>1, <2>3 DEF qf
<1>9. RestText(u) = x \o t
  <2>1. \A z \in Text : (path \o q) \o z = path \o (q \o z)
    <3>1. Groups(path, q)
      BY <1>2, <1>4, TextsGroup
    <3> QED
      BY <3>1 DEF Groups
  <2>2. TailText(path, u.query, u.fragment) = t
    BY <1>4, <2>1 DEF TailText
  <2> HIDE DEF t, x
  <2> QED
    BY <1>7, <2>2 DEF RestText
<1> HIDE DEF x, c, q, f, path, scheme
<1>10. composeUrl(u) = y \o x \o path \o q \o f
  BY <1>1, <1>5
<1>11. y \in Text
  BY <1>6
<1> HIDE DEF y
<1>12. y \o x \in Text
  BY <1>7, <1>11, TextsFollow
<1> DEFINE yx == y \o x
<1>13. yx \in Text
  BY <1>12
<1> HIDE DEF yx
<1>14. yx \o path \o q \o f = yx \o t
  <2>1. yx \in Text /\ path \in Text /\ q \in Text /\ f \in Text
    BY <1>2, <1>4, <1>13
  <2> QED
    <3>1. FourJoined(yx, path, q, f)
      BY <2>1, FourTexts
    <3> QED
      BY <3>1 DEF FourJoined
<1> HIDE DEF t
<1>15. \A z \in Text : (y \o x) \o z = y \o (x \o z)
  <2>1. Groups(y, x)
    BY <1>7, <1>11, TextsGroup
  <2> QED
    BY <2>1 DEF Groups
<1>16. composeUrl(u) = y \o (x \o t)
  BY <1>8, <1>10, <1>14, <1>15 DEF yx
<1>17. x \o t \in Text
  BY <1>7, <1>8, TextsFollow
<1> QED
  BY <1>9, <1>16, <1>17 DEF y, c, scheme

\* An Url with the user information and the port of an authority.
Sited(v, a) ==
  LET at == FindLast(a, "@")
      site == SiteOf(a)
      colon == Find(site, ":")
      x == IF at = 0 THEN v ELSE WithUserInfo(v, Before(a, at))
  IN IF colon = 0 THEN x ELSE WithPort(x, After(site, colon))

LEMMA AuthorityByHost ==
  ASSUME NEW v, NEW a, NEW answer
  PROVE  WithAuthority(v, a, answer) =
           IF \E word \in Addresses : HostIn(a) = <<word>>
             THEN [Sited(v, a) EXCEPT !.ips = HostIn(a)]
           ELSE IF \E word \in Dotted : HostIn(a) = <<word>>
             THEN [Sited(v, a) EXCEPT !.error = "IP_CONVERTER_ERROR"]
           ELSE WithHost(Sited(v, a), HostIn(a), answer)
BY DEF WithAuthority, Sited, HostIn

\* The port of an authority replaces that of the scheme.
LEMMA SitedKeeps ==
  ASSUME NEW v \in UrlRecord, NEW a \in Text
  PROVE  LET w == Sited(v, a)
             at == FindLast(a, "@")
             info == Before(a, at)
             site == SiteOf(a)
             port == After(site, Find(site, ":"))
         IN /\ w \in UrlRecord /\ Kept(v, w, {"user", "password", "port", "local"})
            /\ at = 0 => w.user = v.user /\ w.password = v.password
            /\ at # 0 => /\ w.user = Before(info, Find(info, ":"))
                         /\ w.password = After(info, Find(info, ":"))
            /\ Find(site, ":") = 0 => w.port = v.port /\ w.local = v.local
            /\ Find(site, ":") # 0 =>
                 /\ w.port = port
                 /\ w.local = IF PortThrows(port) THEN v.local ELSE Number[port[1]] % 65536
<1> DEFINE w == Sited(v, a)
           at == FindLast(a, "@")
           info == Before(a, at)
           site == SiteOf(a)
           colon == Find(site, ":")
           port == After(site, colon)
           x == IF at = 0 THEN v ELSE WithUserInfo(v, info)
<1>1. info \in Text /\ port \in Text
  BY SiteType
<1>2. w = IF colon = 0 THEN x ELSE WithPort(x, port)
  BY DEF Sited
<1>3. /\ x \in UrlRecord /\ Kept(v, x, {"user", "password"})
      /\ at = 0 => x.user = v.user /\ x.password = v.password
      /\ at # 0 => /\ x.user = Before(info, Find(info, ":"))
                   /\ x.password = After(info, Find(info, ":"))
  <2>1. CASE at = 0
    <3>1. x = v
      BY <2>1
    <3> HIDE DEF x
    <3> QED
      BY <2>1, <3>1 DEF Kept
  <2>2. CASE at # 0
    <3>1. x = WithUserInfo(v, info)
      BY <2>2
    <3> HIDE DEF x, info
    <3> QED
      BY <1>1, <2>2, <3>1, WithUserInfoType, WithUserInfoKeeps
  <2> QED
    BY <2>1, <2>2
<1> HIDE DEF x, port, info, at
<1>4. CASE colon = 0
  <2>1. w = x
    BY <1>2, <1>4
  <2> HIDE DEF w, colon
  <2>2. /\ Kept(v, w, {"user", "password", "port", "local"})
        /\ w.port = v.port /\ w.local = v.local
    BY <1>3, <2>1 DEF Kept, UrlMembers
  <2> QED
    BY <1>3, <1>4, <2>1, <2>2 DEF w, at, info, colon
<1>5. CASE colon # 0
  <2>1. w = WithPort(x, port)
    BY <1>2, <1>5
  <2> DEFINE n == IF PortThrows(port) THEN x.local ELSE Number[port[1]] % 65536
  <2>2. w \in UrlRecord
    BY <1>1, <1>3, <2>1, WithPortType
  <2>3. Kept(x, w, {"port", "local"}) /\ w.port = port /\ w.local = n
    BY <1>1, <1>3, <2>1, WithPortKeeps
  <2> HIDE DEF w, colon, n
  <2>4. /\ Kept(v, w, {"user", "password", "port", "local"})
        /\ w.user = x.user /\ w.password = x.password /\ x.local = v.local
    BY <1>3, <2>3 DEF Kept, UrlMembers
  <2>5. w.local = IF PortThrows(port) THEN v.local ELSE Number[port[1]] % 65536
    BY <2>3, <2>4 DEF n
  <2>6. /\ at = 0 => w.user = v.user /\ w.password = v.password
        /\ at # 0 => /\ w.user = Before(info, Find(info, ":"))
                     /\ w.password = After(info, Find(info, ":"))
    BY <1>3, <2>4
  <2> QED
    BY <1>5, <2>2, <2>3, <2>4, <2>5, <2>6 DEF w, at, info, colon, port
<1> QED
  BY <1>4, <1>5

-----------------------------------------------------------------------------
(* What the parts of an Url have to do with one another, wherever they     *)
(* come from.                                                              *)

PortAgrees(u) ==
  IF PortThrows(u.port) THEN u.port \in UrlInputs.ports \cup {<<>>}
  ELSE u.local = Number[u.port[1]] % 65536

PartsAgree(u) ==
  /\ "?" \notin ToSet(u.path) /\ "#" \notin ToSet(u.query)
  /\ PortAgrees(u)

PartsInv == AddressInv /\ PartsAgree(url)

LEMMA PortOfScheme ==
  ASSUME NEW u \in UrlRecord, NEW scheme \in Text, PortAgrees(u)
  PROVE  PortAgrees(WithScheme(u, scheme))
<1> DEFINE v == WithScheme(u, scheme)
<1>1. \/ v.port = u.port /\ v.local = u.local
      \/ \E s \in DOMAIN DefaultPort :
           v.port = <<DefaultPortText[s]>> /\ v.local = DefaultPort[s]
  BY WithSchemeKeeps
<1> HIDE DEF v
<1>2. CASE v.port = u.port /\ v.local = u.local
  BY <1>2 DEF PortAgrees, v
<1>3. CASE \E s \in DOMAIN DefaultPort :
             v.port = <<DefaultPortText[s]>> /\ v.local = DefaultPort[s]
  <2>1. PICK s \in DOMAIN DefaultPort :
          v.port = <<DefaultPortText[s]>> /\ v.local = DefaultPort[s]
    BY <1>3
  <2>2. DefaultPortText[s] \in DOMAIN Number /\ Number[DefaultPortText[s]] = DefaultPort[s]
    BY NamesAssumption
  <2>3. DefaultPort[s] % 65536 = DefaultPort[s]
    <3>1. DefaultPort[s] \in {20, 22, 25, 80, 143, 443, 995}
      BY DEF DefaultPort
    <3>2. \A n \in 0..1000 : n % 65536 = n
      OBVIOUS
    <3> QED
      BY <3>1, <3>2
  <2>4. v.port[1] = DefaultPortText[s] /\ v.port # <<>>
    BY <2>1
  <2>5. ~PortThrows(v.port)
    BY <2>2, <2>4 DEF PortThrows
  <2> QED
    BY <2>1, <2>2, <2>3, <2>4, <2>5 DEF PortAgrees, v
<1> QED
  BY <1>1, <1>2, <1>3

LEMMA PortOfText ==
  ASSUME NEW u \in UrlRecord, NEW text \in Text,
         PortThrows(text) => text \in UrlInputs.ports
  PROVE  PortAgrees(WithPort(u, text))
<1> DEFINE v == WithPort(u, text)
<1>1. /\ v.port = text
      /\ v.local = IF PortThrows(text) THEN u.local ELSE Number[text[1]] % 65536
  BY WithPortKeeps
<1> HIDE DEF v
<1> QED
  BY <1>1 DEF PortAgrees, v

\* What an authority brings: a port that was read.
LEMMA AuthorityAgrees ==
  ASSUME NEW u \in UrlRecord, PortAgrees(u), NEW a \in Text, NEW answer,
         Find(SiteOf(a), ":") # 0 => ~PortThrows(After(SiteOf(a), Find(SiteOf(a), ":")))
  PROVE  LET x == WithAuthority(u, a, answer) IN
           /\ PortAgrees(x)
           /\ x.path = u.path /\ x.query = u.query /\ x.fragment = u.fragment
<1> DEFINE w == Sited(u, a)
           port == After(SiteOf(a), Find(SiteOf(a), ":"))
           host == HostIn(a)
           x == WithAuthority(u, a, answer)
<1>1. /\ w \in UrlRecord /\ Kept(u, w, {"user", "password", "port", "local"})
      /\ Find(SiteOf(a), ":") = 0 => w.port = u.port /\ w.local = u.local
      /\ Find(SiteOf(a), ":") # 0 =>
           /\ w.port = port
           /\ w.local = IF PortThrows(port) THEN u.local ELSE Number[port[1]] % 65536
  BY SitedKeeps
<1>2. x = IF \E word \in Addresses : host = <<word>> THEN [w EXCEPT !.ips = host]
          ELSE IF \E word \in Dotted : host = <<word>>
            THEN [w EXCEPT !.error = "IP_CONVERTER_ERROR"]
          ELSE WithHost(w, host, answer)
  BY AuthorityByHost
<1> HIDE DEF w, x, host
<1>3. w.path = u.path /\ w.query = u.query /\ w.fragment = u.fragment
  BY <1>1 DEF Kept, UrlMembers
<1>4. PortAgrees(w)
  BY <1>1 DEF PortAgrees
<1>5. Kept(w, x, {"host", "ips", "error"})
  <2>1. Kept(w, [w EXCEPT !.ips = host], {"host", "ips", "error"})
    BY <1>1 DEF UrlRecord, Kept, UrlMembers
  <2>2. Kept(w, [w EXCEPT !.error = "IP_CONVERTER_ERROR"], {"host", "ips", "error"})
    BY <1>1 DEF UrlRecord, Kept, UrlMembers
  <2>3. Kept(w, WithHost(w, host, answer), {"host", "ips", "error"})
    BY <1>1, WithHostKeeps
  <2> QED
    BY <1>2, <2>1, <2>2, <2>3
<1>6. /\ PortAgrees(x)
      /\ x.path = u.path /\ x.query = u.query /\ x.fragment = u.fragment
  BY <1>3, <1>4, <1>5 DEF Kept, UrlMembers, PortAgrees
<1> QED
  BY <1>6 DEF x

LEMMA ParseAgrees ==
  ASSUME NEW text \in Text, NEW answer \in Answers(HostOf(text)), ~ParseThrows(text)
  PROVE  PartsAgree(Parse(text, answer))
<1> DEFINE rest == RestOf(text)
           a == AuthorityOf(rest)
           tail == TailOf(rest)
           u == WithScheme(Blank, SchemeOf(text))
           v == IF Slashes(rest) = 0 THEN u ELSE WithAuthority(u, a, answer)
           p == Parse(text, answer)
           none == <<>>
<1>1. SchemeOf(text) \in Text /\ rest \in Text
  BY AroundFirst DEF SchemeOf, RestOf, Text
<1>2. a \in Text /\ tail \in Text
  BY <1>1, PartsType
<1>3. none \in Text /\ ToSet(none) = {}
  BY NoText DEF ToSet
<1>4. /\ Blank \in UrlRecord /\ PortAgrees(Blank)
      /\ Blank.host = none /\ Blank.ips = none
      /\ Blank.path = none /\ Blank.query = none /\ Blank.fragment = none
  BY BlankType DEF Blank, PortAgrees, PortThrows
<1>6. p = IF Find(text, ":") = 0 THEN [Blank EXCEPT !.error = "BAD_URL_FORMAT"]
          ELSE IF v.error # "none" THEN v
          ELSE WithTail(v, tail)
  BY DEF Parse
<1>7. /\ u \in UrlRecord /\ PortAgrees(u) /\ u.host = none /\ u.ips = none
      /\ u.path = none /\ u.query = none /\ u.fragment = none
  <2>1. u \in UrlRecord
    BY <1>1, <1>4, WithSchemeType
  <2>2. PortAgrees(u)
    BY <1>1, <1>4, PortOfScheme
  <2>3. Kept(Blank, u, {"scheme", "port", "local"})
    BY <1>1, <1>4, WithSchemeKeeps
  <2> HIDE DEF u, none
  <2> QED
    BY <1>4, <2>1, <2>2, <2>3 DEF Kept, UrlMembers
<1> HIDE DEF u
<1>8. /\ v \in UrlRecord /\ PortAgrees(v)
      /\ v.path = none /\ v.query = none /\ v.fragment = none
  <2>1. CASE Slashes(rest) = 0
    <3>1. v = u
      BY <2>1
    <3> HIDE DEF v
    <3> QED
      BY <1>7, <2>1, <3>1
  <2>2. CASE Slashes(rest) # 0
    <3>1. v = WithAuthority(u, a, answer)
      BY <2>2
    <3>2. HostOf(text) = HostIn(a)
      BY DEF HostOf, HostIn
    <3>3. answer \in Answers(HostIn(a))
      BY <3>2
    <3>4. Find(SiteOf(a), ":") # 0 => ~PortThrows(After(SiteOf(a), Find(SiteOf(a), ":")))
      BY DEF ParseThrows
    <3>5. u.host = <<>> /\ u.ips = <<>>
      BY <1>7
    <3> HIDE DEF v, a, none
    <3>6. v \in UrlRecord
      BY <1>2, <1>7, <3>1, <3>3, <3>5, WithAuthorityType
    <3>7. /\ PortAgrees(v)
          /\ v.path = u.path /\ v.query = u.query /\ v.fragment = u.fragment
      BY <1>2, <1>7, <3>1, <3>4, AuthorityAgrees
    <3> QED
      BY <1>7, <3>6, <3>7
  <2> QED
    BY <2>1, <2>2
<1> HIDE DEF v, tail, rest, a
<1>9. CASE Find(text, ":") = 0
  <2>1. p = [Blank EXCEPT !.error = "BAD_URL_FORMAT"]
    BY <1>6, <1>9
  <2>2. Kept(Blank, p, {"error"}) /\ p.error # "none"
    BY <1>4, <2>1 DEF UrlRecord, Kept, UrlMembers
  <2> HIDE DEF p, none
  <2>3. PartsAgree(p)
    BY <1>3, <1>4, <2>2 DEF Kept, UrlMembers, PartsAgree, PortAgrees
  <2> QED
    BY <2>3 DEF p
<1>10. CASE Find(text, ":") # 0 /\ v.error # "none"
  <2>1. p = v
    BY <1>6, <1>10
  <2> HIDE DEF p, none
  <2>2. PartsAgree(p)
    BY <1>3, <1>8, <1>10, <2>1 DEF PartsAgree
  <2> QED
    BY <2>2 DEF p
<1>11. CASE Find(text, ":") # 0 /\ v.error = "none"
  <2> DEFINE behind == After(tail, Find(tail, "?"))
  <2>1. p = WithTail(v, tail)
    BY <1>6, <1>11
  <2>2. /\ Kept(v, p, {"path", "query", "fragment", "valid"})
        /\ p.path = Before(tail, Find(tail, "?"))
        /\ p.query = Before(behind, Find(behind, "#"))
        /\ p.fragment = After(behind, Find(behind, "#"))
    BY <1>8, <2>1, WithTailKeeps
  <2> HIDE DEF p
  <2>3. tail \in Seq(Words) /\ behind \in Seq(Words)
    BY <1>2, AroundFirst DEF Text
  <2> HIDE DEF behind
  <2>4. "?" \notin ToSet(p.path) /\ "#" \notin ToSet(p.query)
    BY <2>2, <2>3, CutAtFirst
  <2>5. p.port = v.port /\ p.local = v.local
    BY <2>2 DEF Kept, UrlMembers
  <2>6. PortAgrees(p)
    BY <1>8, <2>5 DEF PortAgrees
  <2>7. PartsAgree(p)
    BY <2>4, <2>6 DEF PartsAgree
  <2> QED
    BY <2>7 DEF p
<1> QED
  BY <1>9, <1>10, <1>11

LEMMA PartsInvInit == UrlInit => PartsInv
<1> SUFFICES ASSUME UrlInit PROVE PartsAgree(url)
  BY AddressInvInit DEF PartsInv
<1>1. CASE url = [Blank EXCEPT !.valid = TRUE]
  <2> DEFINE none == <<>>
  <2>1. Kept(Blank, url, {"valid"})
    BY <1>1, BlankType DEF UrlRecord, Kept, UrlMembers
  <2>2. /\ Blank.port = none /\ Blank.path = none /\ Blank.query = none
    BY DEF Blank
  <2>3. ToSet(none) = {} /\ PortThrows(none)
    BY DEF ToSet, PortThrows
  <2> HIDE DEF none
  <2>4. /\ url.port = none /\ url.path = none /\ url.query = none
    BY <2>1, <2>2 DEF Kept, UrlMembers
  <2> QED
    BY <2>3, <2>4 DEF PartsAgree, PortAgrees, none
<1>2. ASSUME NEW text \in UrlInputs.texts, NEW answer \in Answers(HostOf(text)),
             ~ParseThrows(text), url = Parse(text, answer)
      PROVE  PartsAgree(url)
  <2>1. text \in Text
    BY TextsAreInputs
  <2> QED
    BY <1>2, <2>1, ParseAgrees
<1> QED
  BY <1>1, <1>2 DEF UrlInit

\* The parts that have nothing to do with the others.
Aside == {"scheme", "user", "password", "host", "ips", "fragment", "error", "valid"}

LEMMA PartsStay ==
  ASSUME NEW u, NEW v, PartsAgree(u),
         Kept(u, v, Aside)
  PROVE  PartsAgree(v)
<1>1. /\ v.path = u.path /\ v.query = u.query /\ v.port = u.port /\ v.local = u.local
  BY DEF Kept, UrlMembers, Aside
<1> QED
  BY <1>1 DEF PartsAgree, PortAgrees

LEMMA WithUserKeeps ==
  ASSUME NEW u \in UrlRecord, NEW name, NEW word
  PROVE  Kept(u, WithUser(u, name, word), {"user", "password"})
<1> DEFINE once == EncodeUser([name |-> name, thrown |-> FALSE], name)
           twice == EncodeUser(once, name)
           given_name == twice.name
<1>1. WithUser(u, name, word) =
        [u EXCEPT !.user = given_name, !.password = IF once.thrown THEN @ ELSE word]
  BY DEF WithUser
<1> HIDE DEF once, given_name
<1> QED
  BY <1>1 DEF UrlRecord, Kept, UrlMembers

LEMMA PartsSetScheme ==
  ASSUME PartsInv, NEW scheme \in UrlInputs.schemes, SetScheme(scheme)
  PROVE  PartsAgree(url')
<1>1. url \in UrlRecord /\ scheme \in Text /\ PartsAgree(url)
  BY TextsAreInputs DEF PartsInv, AddressInv
<1>2. CASE ToSet(scheme) \cap Special = {}
  <2>1. url' = WithScheme(url, scheme)
    BY <1>2 DEF SetScheme, Put
  <2>2. Kept(url, url', {"scheme", "port", "local"})
    BY <1>1, <2>1, WithSchemeKeeps
  <2>3. PortAgrees(url')
    BY <1>1, <2>1, PortOfScheme DEF PartsAgree
  <2>4. url'.path = url.path /\ url'.query = url.query
    BY <2>2 DEF Kept, UrlMembers
  <2> QED
    BY <1>1, <2>3, <2>4 DEF PartsAgree
<1>3. CASE ToSet(scheme) \cap Special # {}
  <2>1. url' = [url EXCEPT !.valid = FALSE]
    BY <1>3 DEF SetScheme, Put
  <2>2. Kept(url, url', Aside)
    BY <1>1, <2>1 DEF UrlRecord, Kept, UrlMembers, Aside
  <2> QED
    BY <1>1, <2>2, PartsStay
<1> QED
  BY <1>2, <1>3

LEMMA PartsSetAuthority ==
  ASSUME PartsInv, NEW host \in UrlInputs.hosts, NEW name \in UrlInputs.users,
         NEW word \in UrlInputs.passwords, SetAuthority(host, name, word)
  PROVE  PartsAgree(url')
<1>1. url \in UrlRecord /\ PartsAgree(url) /\ host \in Text
  BY TextsAreInputs DEF PartsInv, AddressInv
<1>2. CASE ToSet(host) \cap Special # {}
  <2>1. url' = [url EXCEPT !.error = "BAD_HOST_FORMAT", !.valid = FALSE]
    BY <1>2 DEF SetAuthority
  <2>2. Kept(url, url', Aside)
    BY <1>1, <2>1 DEF UrlRecord, Kept, UrlMembers, Aside
  <2> QED
    BY <1>1, <2>2, PartsStay
<1>3. CASE ToSet(host) \cap Special = {}
  <2>1. PICK answer \in Answers(host) :
          LET u == WithHost(url, host, answer) IN
            url' = IF u.error # "none" THEN [u EXCEPT !.valid = FALSE]
                   ELSE WithUser(u, name, word)
    BY <1>3 DEF SetAuthority
  <2> DEFINE u == WithHost(url, host, answer)
  <2>2. u \in UrlRecord
    BY <1>1, WithHostType
  <2>3. Kept(url, u, {"host", "ips", "error"})
    BY <1>1, WithHostKeeps
  <2>4. url' = IF u.error # "none" THEN [u EXCEPT !.valid = FALSE]
               ELSE WithUser(u, name, word)
    BY <2>1
  <2> HIDE DEF u
  <2>5. Kept(u, [u EXCEPT !.valid = FALSE], {"valid"})
    BY <2>2 DEF UrlRecord, Kept, UrlMembers
  <2>6. Kept(u, WithUser(u, name, word), {"user", "password"})
    BY <2>2, WithUserKeeps
  <2>7. Kept(url, [u EXCEPT !.valid = FALSE], Aside)
    BY <2>3, <2>5 DEF Kept, UrlMembers, Aside
  <2>8. Kept(url, WithUser(u, name, word), Aside)
    BY <2>3, <2>6 DEF Kept, UrlMembers, Aside
  <2>9. Kept(url, url', Aside)
    BY <2>4, <2>7, <2>8
  <2> QED
    BY <1>1, <2>9, PartsStay
<1> QED
  BY <1>2, <1>3

LEMMA PartsAddHostIP ==
  ASSUME PartsInv, NEW ip \in UrlInputs.ips, AddHostIP(ip)
  PROVE  PartsAgree(url')
<1> DEFINE ips == Append(url.ips, ip)
           e == IF ip \in Dotted THEN "IP_CONVERTER_ERROR" ELSE "BAD_IP_FORMAT"
<1>1. url \in UrlRecord /\ PartsAgree(url)
  BY DEF PartsInv, AddressInv
<1>2. url' = [url EXCEPT !.ips = ips] \/ url' = [url EXCEPT !.valid = FALSE, !.error = e]
  BY DEF AddHostIP
<1> HIDE DEF ips, e
<1>3. Kept(url, url', Aside)
  BY <1>1, <1>2 DEF UrlRecord, Kept, UrlMembers, Aside
<1> QED
  BY <1>1, <1>3, PartsStay

LEMMA PartsSetPort ==
  ASSUME PartsInv, NEW text \in UrlInputs.ports, SetPort(text)
  PROVE  PartsAgree(url')
<1>1. url \in UrlRecord /\ PartsAgree(url) /\ text \in Text
  BY TextsAreInputs DEF PartsInv, AddressInv
<1>2. url' = WithPort(url, text)
  BY DEF SetPort, Put
<1>3. PortAgrees(url')
  BY <1>1, <1>2, PortOfText
<1>4. Kept(url, url', {"port", "local"})
  BY <1>1, <1>2, WithPortKeeps
<1>5. url'.path = url.path /\ url'.query = url.query
  BY <1>4 DEF Kept, UrlMembers
<1> QED
  BY <1>1, <1>3, <1>5 DEF PartsAgree

LEMMA PartsSetPath ==
  ASSUME PartsInv, NEW path \in UrlInputs.paths, SetPath(path)
  PROVE  PartsAgree(url')
<1> DEFINE chars == Special \ {"/"}
           text == EncodeOnly(path, chars)
<1>1. url \in UrlRecord /\ PartsAgree(url) /\ path \in Text
  BY TextsAreInputs DEF PartsInv, AddressInv
<1>2. chars \in SUBSET Special /\ "?" \in chars /\ "?" # "%"
  BY DelimitersAreSpecial
<1>3. url' = [url EXCEPT !.path = text]
  BY DEF SetPath, Put
<1> HIDE DEF chars
<1>4. "?" \notin ToSet(text)
  BY <1>1, <1>2, EncodedHoldsNone
<1> HIDE DEF text
<1>5. Kept(url, url', {"path"}) /\ url'.path = text
  BY <1>1, <1>3 DEF UrlRecord, Kept, UrlMembers
<1>6. url'.query = url.query /\ url'.port = url.port /\ url'.local = url.local
  BY <1>5 DEF Kept, UrlMembers
<1> QED
  BY <1>1, <1>4, <1>5, <1>6 DEF PartsAgree, PortAgrees

LEMMA PartsSetQuery ==
  ASSUME PartsInv, NEW query \in UrlInputs.queries, SetQuery(query)
  PROVE  PartsAgree(url')
<1> DEFINE chars == Special \ {"&", "=", ";"}
           text == EncodeOnly(query, chars)
<1>1. url \in UrlRecord /\ PartsAgree(url) /\ query \in Text
  BY TextsAreInputs DEF PartsInv, AddressInv
<1>2. chars \in SUBSET Special /\ "#" \in chars /\ "#" # "%"
  <2>1. "#" \in chars
    BY DelimitersAreSpecial, Zenon
  <2> QED
    BY <2>1, Zenon
<1>3. url' = [url EXCEPT !.query = text]
  BY Zenon DEF SetQuery, Put
<1> HIDE DEF chars
<1>4. "#" \notin ToSet(text)
  BY <1>1, <1>2, EncodedHoldsNone
<1> HIDE DEF text
<1>5. Kept(url, url', {"query"}) /\ url'.query = text
  BY <1>1, <1>3 DEF UrlRecord, Kept, UrlMembers
<1>6. url'.path = url.path /\ url'.port = url.port /\ url'.local = url.local
  BY <1>5 DEF Kept, UrlMembers
<1> QED
  BY <1>1, <1>4, <1>5, <1>6 DEF PartsAgree, PortAgrees

LEMMA PartsSetFragment ==
  ASSUME PartsInv, NEW fragment \in UrlInputs.fragments, SetFragment(fragment)
  PROVE  PartsAgree(url')
<1> DEFINE text == EncodeOnly(fragment, Special)
<1>1. url \in UrlRecord /\ PartsAgree(url)
  BY DEF PartsInv, AddressInv
<1>2. url' = [url EXCEPT !.fragment = text]
  BY DEF SetFragment, Put
<1> HIDE DEF text
<1>3. Kept(url, url', Aside)
  BY <1>1, <1>2 DEF UrlRecord, Kept, UrlMembers, Aside
<1> QED
  BY <1>1, <1>3, PartsStay

LEMMA PartsInvNext == PartsInv /\ [MessageNext]_messageVars => PartsInv'
<1> SUFFICES ASSUME PartsInv, [MessageNext]_messageVars PROVE PartsAgree(url)'
  BY AddressInvNext DEF PartsInv
<1>1. CASE UNCHANGED url
  BY <1>1 DEF PartsInv, PartsAgree, PortAgrees
<1>2. CASE UrlNext
  <2>1. PartsAgree(url')
    BY <1>2, PartsSetScheme, PartsSetAuthority, PartsAddHostIP, PartsSetPort,
       PartsSetPath, PartsSetQuery, PartsSetFragment DEF UrlNext
  <2> QED
    BY <2>1 DEF PartsAgree, PortAgrees
<1>3. UrlNext \/ UNCHANGED url
  BY RequestCallsLeaveUrl DEF messageVars, urlVars
<1> QED
  BY <1>1, <1>2, <1>3

\* Lines 41-285: a path holds no "?" and a query no "#", and the number of a port is
\* that of its text if it has one, whatever texts and setters they come from and
\* whatever the resolver answers.
THEOREM PartsInvHolds == MessageSpec => []PartsInv
<1>1. MessageInit => PartsInv
  BY PartsInvInit DEF MessageInit
<1>2. PartsInv /\ [MessageNext]_messageVars => PartsInv'
  BY PartsInvNext
<1> QED
  BY <1>1, <1>2, PTL DEF MessageSpec

-----------------------------------------------------------------------------
(* What composeUrl() writes is read again.                                 *)

LEMMA PortIsNumber ==
  ASSUME NEW u \in UrlRecord, PortAgrees(u), Readable(u), u.port # <<>>
  PROVE  /\ ~PortThrows(u.port) /\ u.local = Number[u.port[1]] % 65536
         /\ ToSet(u.port) \subseteq DOMAIN Number
<1> DEFINE digits == ToString(u.local)
<1>1. u.port = <<digits>> /\ u.local \in Ports
  BY DEF Readable, UrlRecord
<1>2. \A text \in UrlInputs.ports : text = <<digits>> => digits \in DOMAIN Number
  BY <1>1, NamesAssumption
<1> HIDE DEF digits
<1>3. u.port[1] = digits /\ ToSet(u.port) = {digits}
  BY <1>1 DEF ToSet
<1>4. ~PortThrows(u.port)
  BY <1>1, <1>2, <1>3 DEF PortAgrees, PortThrows
<1>5. digits \in DOMAIN Number
  BY <1>3, <1>4 DEF PortThrows
<1> QED
  BY <1>3, <1>4, <1>5 DEF PortAgrees

LEMMA AuthorityIsParted ==
  ASSUME NEW u \in UrlRecord, PartsAgree(u), Readable(u), ~Nameless(u)
  PROVE  /\ Parted(u, HostWritten(u))
         /\ "/" \notin ToSet(AuthorityText(u, HostWritten(u)))
<1> DEFINE h == HostWritten(u)
           Marks == {"@", ":", "/"}
           i == InfoText(u.user, u.password)
           s == SiteText(h, u.port)
           p == Suffixed(i, "@")
<1>1. /\ h \in Text /\ u.user \in Text /\ u.password \in Text /\ u.port \in Text
      /\ u.host = <<>> => \E a \in Addresses : h = <<a>>
  BY HostIsWritten DEF UrlRecord
<1>2. Marks \cap Addresses = {} /\ Marks \cap DOMAIN Number = {}
  BY NamesAssumption
<1>3. Marks \cap ToSet(h) = {}
  <2>1. CASE u.host = <<>>
    <3>1. PICK a \in Addresses : h = <<a>>
      BY <1>1, <2>1
    <3> HIDE DEF h
    <3>2. ToSet(h) = {a}
      BY <3>1 DEF ToSet
    <3> QED
      BY <1>2, <3>2
  <2>2. CASE u.host # <<>>
    <3>1. h = u.host
      BY <2>2 DEF HostWritten
    <3> QED
      BY <3>1 DEF Readable
  <2> QED
    BY <2>1, <2>2
<1>4. Marks \cap ToSet(u.port) = {}
  <2>1. CASE u.port = <<>>
    BY <2>1 DEF ToSet
  <2>2. CASE u.port # <<>>
    <3>1. ToSet(u.port) \subseteq DOMAIN Number
      BY <2>2, PortIsNumber DEF PartsAgree
    <3> QED
      BY <1>2, <3>1
  <2> QED
    BY <2>1, <2>2
<1>5. /\ u.user = <<>> => u.password = <<>>
      /\ {"/", ":"} \cap ToSet(u.user) = {} /\ "/" \notin ToSet(u.password)
  BY DEF Readable
<1> HIDE DEF h
<1>6. /\ {":", "@"} \cap ToSet(h) = {} /\ "/" \notin ToSet(h)
      /\ "@" \notin ToSet(u.port) /\ "/" \notin ToSet(u.port)
      /\ ":" \notin ToSet(u.user) /\ "/" \notin ToSet(u.user)
  BY <1>3, <1>4, <1>5
<1>7. Parted(u, h)
  BY <1>1, <1>5, <1>6 DEF Parted
<1>8. i \in Text /\ ToSet(i) \subseteq ToSet(u.user) \cup {":"} \cup ToSet(u.password)
  BY <1>1, <1>5, <1>6, InfoIsRead
<1>9. s \in Text /\ ToSet(s) \subseteq ToSet(h) \cup {":"} \cup ToSet(u.port)
  BY <1>1, <1>6, SiteIsRead
<1> HIDE DEF i, s
<1>10. p \in Text /\ ToSet(p) \subseteq ToSet(i) \cup {"@"}
  BY <1>8, DelimitersAreWords, PrefixedHolds
<1> HIDE DEF p
<1>11. ToSet(p \o s) = ToSet(p) \cup ToSet(s)
  BY <1>9, <1>10, TextsAround
<1>12. "/" \notin ToSet(p \o s)
  BY <1>5, <1>6, <1>8, <1>9, <1>10, <1>11
<1>13. AuthorityText(u, h) = p \o s
  BY DEF AuthorityText, p, i, s
<1> QED
  BY <1>7, <1>12, <1>13 DEF h

\* The end of the text of an Url with an authority begins with a slash.
LEMMA TailOfReadable ==
  ASSUME NEW u \in UrlRecord, Readable(u), PartsAgree(u)
  PROVE  LET t == TailText(u.path, u.query, u.fragment) IN
           /\ t \in Text
           /\ ~Nameless(u) /\ t # <<>> => t[1] = "/"
           /\ Nameless(u) => NoPair(t, "/")
<1> DEFINE path == u.path
           query == u.query
           fragment == u.fragment
           t == TailText(path, query, fragment)
           f == Prefixed("#", fragment)
           b == query \o f
           q == Prefixed("?", b)
<1>1. /\ path \in Text /\ query \in Text /\ fragment \in Text
      /\ "?" \notin ToSet(path) /\ "#" \notin ToSet(query)
      /\ fragment # <<>> => query # <<>>
  BY DEF UrlRecord, PartsAgree, Readable
<1>2. /\ ~Nameless(u) => IF path = <<>> THEN query = <<>> ELSE path[1] = "/"
      /\ Nameless(u) => Slashes(path) = 0 /\ Slashes(query) = 0 /\ Slashes(fragment) = 0
  BY DEF Readable, Nameless
<1> HIDE DEF path, query, fragment
<1>3. t \in Text /\ t = path \o q
  BY <1>1, TailIsRead
<1>4. f \in Text
  BY <1>1, DelimitersAreWords, PrefixedHolds
<1>5. b \in Text
  BY <1>1, <1>4, TextsFollow
<1>6. q \in Text
  BY <1>5, DelimitersAreWords, PrefixedHolds
<1>7. query = <<>> => b = <<>>
  <2>1. query = <<>> => f = <<>>
    BY <1>1 DEF Prefixed
  <2>2. <<>> \o <<>> = <<>>
    BY TextsAround, NoText
  <2> QED
    BY <2>1, <2>2
<1>8. b = <<>> => q = <<>>
  BY DEF Prefixed
<1>9. b # <<>> => q = <<"?">> \o b
  BY DEF Prefixed
<1> HIDE DEF q, b, t
<1>10. ASSUME ~Nameless(u), t # <<>> PROVE t[1] = "/"
  <2>1. path # <<>>
    <3> SUFFICES ASSUME path = <<>> PROVE FALSE
      OBVIOUS
    <3>1. q = <<>>
      BY <1>2, <1>7, <1>8, <1>10
    <3>2. <<>> \o <<>> = <<>>
      BY TextsAround, NoText
    <3> QED
      BY <1>3, <1>10, <3>1, <3>2
  <2> QED
    BY <1>1, <1>2, <1>3, <1>6, <1>10, <2>1, SomeText
<1>11. ASSUME Nameless(u) PROVE NoPair(t, "/")
  <2>1. /\ path \in Seq(Words) /\ query \in Seq(Words) /\ fragment \in Seq(Words)
        /\ b \in Seq(Words)
    BY <1>1, <1>5 DEF Text
  <2>2. NoPair(path, "/") /\ NoPair(query, "/") /\ NoPair(fragment, "/")
    BY <1>2, <1>11, <2>1, PairsAreFound, PairNone
  <2>3. NoPair(b, "/")
    <3>1. CASE fragment = <<>>
      <4>1. f = <<>>
        BY <3>1 DEF Prefixed
      <4>2. b = query
        BY <1>1, <4>1, TextsAround, NoText DEF b
      <4> QED
        BY <2>2, <4>2
    <3>2. CASE fragment # <<>>
      <4> DEFINE m == <<"#">>
      <4>1. m \in Text /\ f = m \o fragment
        BY <3>2, DelimitersAreWords, OneWord DEF Prefixed
      <4>2. \A z \in Text : (query \o m) \o z = query \o (m \o z)
        <5>1. Groups(query, m)
          BY <1>1, <4>1, TextsGroup
        <5> QED
          BY <5>1 DEF Groups
      <4>3. b = query \o m \o fragment
        BY <1>1, <4>1, <4>2 DEF b
      <4>4. NoPair(query \o <<"#">> \o fragment, "/")
        BY <2>1, <2>2, DelimitersAreWords, NoPairAround
      <4> QED
        BY <4>3, <4>4
    <3> QED
      BY <3>1, <3>2
  <2>4. CASE b = <<>>
    <3>1. t = path
      BY <1>1, <1>3, <1>8, <2>4, TextsAround, NoText
    <3> QED
      BY <2>2, <3>1
  <2>5. CASE b # <<>>
    <3> DEFINE m == <<"?">>
    <3>1. m \in Text /\ q = m \o b
      BY <1>9, <2>5, DelimitersAreWords, OneWord
    <3>2. \A z \in Text : (path \o m) \o z = path \o (m \o z)
      <4>1. Groups(path, m)
        BY <1>1, <3>1, TextsGroup
      <4> QED
        BY <4>1 DEF Groups
    <3>3. t = path \o m \o b
      BY <1>3, <1>5, <3>1, <3>2
    <3>4. NoPair(path \o <<"?">> \o b, "/")
      BY <2>1, <2>2, <2>3, DelimitersAreWords, NoPairAround
    <3> QED
      BY <3>3, <3>4
  <2> QED
    BY <2>4, <2>5
<1> QED
  BY <1>3, <1>10, <1>11 DEF t, path, query, fragment

\* All that composeUrl() has written before the path.
SameSite(u, v) ==
  /\ v.scheme = u.scheme /\ v.user = u.user /\ v.password = u.password
  /\ v.host = u.host /\ v.port = u.port /\ v.local = u.local /\ v.error = "none"
  /\ u.host = <<>> => v.ips = u.ips

LEMMA SchemeIsRead ==
  ASSUME NEW u \in UrlRecord, Readable(u)
  PROVE  LET v == WithScheme(Blank, u.scheme)
             none == <<>>
         IN /\ v \in UrlRecord /\ v.scheme = u.scheme
            /\ v.user = none /\ v.password = none /\ v.host = none /\ v.ips = none
            /\ v.error = "none"
            /\ u.port = none => v.port = none /\ v.local = u.local
<1> DEFINE scheme == u.scheme
           v == WithScheme(Blank, scheme)
           none == <<>>
<1>1. scheme \in Text /\ Blank \in UrlRecord
  BY BlankType DEF UrlRecord
<1>2. /\ u.port = none => u.local = 0 /\ \A s \in DOMAIN DefaultPort : scheme # <<s>>
  BY DEF Readable
<1> HIDE DEF scheme
<1>3. v \in UrlRecord
  BY <1>1, WithSchemeType
<1>4. /\ Kept(Blank, v, {"scheme", "port", "local"}) /\ v.scheme = scheme
      /\ \/ v.port = Blank.port /\ v.local = Blank.local
            /\ \A s \in DOMAIN DefaultPort : scheme # <<s>>
         \/ \E s \in DOMAIN DefaultPort :
              v.port = <<DefaultPortText[s]>> /\ v.local = DefaultPort[s]
  BY <1>1, WithSchemeKeeps
<1>5. (\A s \in DOMAIN DefaultPort : scheme # <<s>>) =>
        v.port = Blank.port /\ v.local = Blank.local
  <2> SUFFICES ASSUME \A s \in DOMAIN DefaultPort : scheme # <<s>>
               PROVE  v.port = Blank.port /\ v.local = Blank.local
    OBVIOUS
  <2>1. v = [Blank EXCEPT !.scheme = scheme]
    BY DEF WithScheme
  <2> HIDE DEF v
  <2> QED
    BY <1>1, <2>1 DEF UrlRecord
<1>6. /\ Blank.user = none /\ Blank.password = none /\ Blank.host = none
      /\ Blank.ips = none /\ Blank.port = none /\ Blank.local = 0 /\ Blank.error = "none"
  BY DEF Blank
<1> HIDE DEF v, none
<1>7. /\ v.user = none /\ v.password = none /\ v.host = none /\ v.ips = none
      /\ v.error = "none"
  BY <1>4, <1>6 DEF Kept, UrlMembers
<1>8. u.port = none => v.port = none /\ v.local = u.local
  BY <1>2, <1>5, <1>6
<1> QED
  BY <1>3, <1>4, <1>7, <1>8 DEF v, none, scheme

LEMMA SiteIsReadBack ==
  ASSUME NEW u \in UrlRecord, PartsAgree(u), Readable(u), ~Nameless(u),
         NEW answer \in Answers(u.host), answer.error = "none"
  PROVE  LET x == WithAuthority(WithScheme(Blank, u.scheme),
                                AuthorityText(u, HostWritten(u)), answer)
         IN x \in UrlRecord /\ SameSite(u, x)
<1> DEFINE h == HostWritten(u)
           a == AuthorityText(u, h)
           v == WithScheme(Blank, u.scheme)
           w == Sited(v, a)
           x == WithAuthority(v, a, answer)
           at == FindLast(a, "@")
           info == Before(a, at)
           site == SiteOf(a)
           none == <<>>
           port == After(site, Find(site, ":"))
<1>1. Parted(u, h) /\ h \in Text /\ u.port \in Text /\ u.user \in Text /\ u.password \in Text
  BY AuthorityIsParted DEF Parted
<1>2. /\ v \in UrlRecord /\ v.scheme = u.scheme
      /\ v.user = none /\ v.password = none /\ v.host = none /\ v.ips = none
      /\ v.error = "none"
      /\ u.port = none => v.port = none /\ v.local = u.local
  BY SchemeIsRead
<1>3. /\ a \in Text /\ site = SiteText(h, u.port)
      /\ at = 0 <=> u.user = none
      /\ u.user # none => info = InfoText(u.user, u.password)
  BY <1>1, AuthorityIsRead
<1>4. /\ Find(site, ":") = 0 <=> u.port = none
      /\ HostIn(a) = h /\ port = u.port
  <2> DEFINE s == SiteText(h, u.port)
  <2>1. {":", "@"} \cap ToSet(h) = {} /\ "@" \notin ToSet(u.port)
    BY <1>1 DEF Parted
  <2> HIDE DEF h
  <2>2. /\ Find(s, ":") = 0 <=> u.port = <<>>
        /\ Before(s, Find(s, ":")) = h /\ After(s, Find(s, ":")) = u.port
    BY <1>1, <2>1, SiteIsRead
  <2> HIDE DEF s, a
  <2>3. site = s
    BY <1>3 DEF s
  <2> QED
    BY <2>2, <2>3 DEF HostIn
<1> HIDE DEF v, a
<1>5. /\ w \in UrlRecord /\ Kept(v, w, {"user", "password", "port", "local"})
      /\ at = 0 => w.user = v.user /\ w.password = v.password
      /\ at # 0 => /\ w.user = Before(info, Find(info, ":"))
                   /\ w.password = After(info, Find(info, ":"))
      /\ Find(site, ":") = 0 => w.port = v.port /\ w.local = v.local
      /\ Find(site, ":") # 0 =>
           /\ w.port = port
           /\ w.local = IF PortThrows(port) THEN v.local ELSE Number[port[1]] % 65536
  BY <1>2, <1>3, SitedKeeps
<1>6. x = IF \E word \in Addresses : HostIn(a) = <<word>>
            THEN [w EXCEPT !.ips = HostIn(a)]
          ELSE IF \E word \in Dotted : HostIn(a) = <<word>>
            THEN [w EXCEPT !.error = "IP_CONVERTER_ERROR"]
          ELSE WithHost(w, HostIn(a), answer)
  BY AuthorityByHost
<1> HIDE DEF w, x, at, info, site, port, h, none
<1>7. w.user = u.user /\ w.password = u.password
  <2>1. CASE u.user = none
    <3>1. u.password = none
      BY <2>1 DEF Readable, none
    <3> QED
      BY <1>2, <1>3, <1>5, <2>1, <3>1
  <2>2. CASE u.user # none
    <3> DEFINE i == InfoText(u.user, u.password)
    <3>1. Before(i, Find(i, ":")) = u.user /\ After(i, Find(i, ":")) = u.password
      BY <1>1, InfoIsRead DEF Parted
    <3>2. info = i
      BY <1>3, <2>2
    <3> HIDE DEF i
    <3> QED
      BY <1>3, <1>5, <2>2, <3>1, <3>2
  <2> QED
    BY <2>1, <2>2
<1>8. w.port = u.port /\ w.local = u.local
  <2>1. CASE u.port = none
    BY <1>2, <1>4, <1>5, <2>1
  <2>2. CASE u.port # none
    <3>1. ~PortThrows(u.port) /\ u.local = Number[u.port[1]] % 65536
      BY <2>2, PortIsNumber DEF PartsAgree, none
    <3> QED
      BY <1>4, <1>5, <2>2, <3>1
  <2> QED
    BY <2>1, <2>2
<1>9. w.scheme = u.scheme /\ w.host = none /\ w.ips = none /\ w.error = "none"
  BY <1>2, <1>5 DEF Kept, UrlMembers
<1>10. CASE u.host = none
  <2>1. PICK word \in Addresses : h = <<word>>
    BY <1>10, HostIsWritten DEF h, none
  <2>2. u.ips = h
    BY <1>10, HostIsWritten DEF h, none, Readable
  <2>3. x = [w EXCEPT !.ips = h]
    BY <1>4, <1>6, <2>1
  <2>4. h \in Seq(Addresses)
    BY <2>1
  <2>5. x \in UrlRecord /\ Kept(w, x, {"ips"}) /\ x.ips = h
    <3>1. w \in UrlRecord
      BY <1>5
    <3> QED
      BY <2>3, <2>4, <3>1 DEF UrlRecord, Kept, UrlMembers
  <2>6. SameSite(u, x)
    BY <1>7, <1>8, <1>9, <1>10, <2>2, <2>5 DEF SameSite, Kept, UrlMembers
  <2> QED
    BY <2>5, <2>6 DEF x, v, a, h
<1>11. CASE u.host # none
  <2>1. h = u.host
    BY <1>11 DEF h, HostWritten, none
  <2>2. \A word \in Addresses \cup Dotted : h # <<word>>
    BY <2>1 DEF Readable
  <2>3. x = WithHost(w, h, answer)
    BY <1>4, <1>6, <2>2
  <2>4. answer \in Answers(h) /\ answer.error = "none"
    BY <2>1
  <2>5. x \in UrlRecord
    <3>1. w \in UrlRecord /\ h \in Text
      BY <1>1, <1>5
    <3> QED
      BY <2>3, <2>4, <3>1, WithHostType
  <2>6. Kept(w, x, {"host", "ips", "error"}) /\ x.host = h /\ x.error = w.error
    BY <1>5, <2>3, <2>4, WithHostKeeps
  <2>7. SameSite(u, x)
    BY <1>7, <1>8, <1>9, <1>11, <2>1, <2>6 DEF SameSite, Kept, UrlMembers, none
  <2> QED
    BY <2>5, <2>7 DEF x, v, a, h
<1> QED
  BY <1>10, <1>11

LEMMA ComposedIsParsed ==
  ASSUME NEW u \in UrlRecord, u.valid, u.error = "none", PartsAgree(u), Readable(u),
         NEW answer \in Answers(u.host), answer.error = "none"
  PROVE  LET again == Parse(composeUrl(u), answer) IN
           /\ again.valid
           /\ [again EXCEPT !.ips = u.ips] = u
           /\ u.host = <<>> => again.ips = u.ips
<1> DEFINE scheme == u.scheme
           text == composeUrl(u)
           rest == RestText(u)
           a == AuthorityText(u, HostWritten(u))
           t == TailText(u.path, u.query, u.fragment)
           behind == After(t, Find(t, "?"))
           v == WithScheme(Blank, scheme)
           x == IF Slashes(rest) = 0 THEN v ELSE WithAuthority(v, AuthorityOf(rest), answer)
           again == Parse(text, answer)
<1>1. scheme \in Text /\ scheme # <<>> /\ ":" \notin ToSet(scheme)
  BY DEF UrlRecord, Readable
<1>2. text = scheme \o <<":">> \o rest /\ rest \in Text
  <2>1. ~Nameless(u) => Parted(u, HostWritten(u))
    BY AuthorityIsParted
  <2> QED
    BY <1>1, <2>1, ComposedParts
<1>3. /\ t \in Text
      /\ ~Nameless(u) /\ t # <<>> => t[1] = "/"
      /\ Nameless(u) => NoPair(t, "/")
  BY TailOfReadable
<1>4. /\ Before(t, Find(t, "?")) = u.path
      /\ Before(behind, Find(behind, "#")) = u.query
      /\ After(behind, Find(behind, "#")) = u.fragment
  <2> DEFINE path == u.path
             query == u.query
             fragment == u.fragment
  <2>1. /\ path \in Text /\ query \in Text /\ fragment \in Text
        /\ "?" \notin ToSet(path) /\ "#" \notin ToSet(query)
        /\ fragment # <<>> => query # <<>>
    BY DEF UrlRecord, PartsAgree, Readable
  <2> HIDE DEF path, query, fragment
  <2> DEFINE s == TailText(path, query, fragment)
             r == After(s, Find(s, "?"))
  <2>2. /\ Before(s, Find(s, "?")) = path
        /\ Before(r, Find(r, "#")) = query
        /\ After(r, Find(r, "#")) = fragment
    BY <2>1, TailIsRead
  <2> QED
    BY <2>2 DEF path, query, fragment
<1>5. Find(text, ":") # 0 /\ SchemeOf(text) = scheme /\ RestOf(text) = rest
  <2> HIDE DEF text, rest, scheme
  <2>1. scheme \in Seq(Words) /\ rest \in Seq(Words) /\ ":" \in Words
    BY <1>1, <1>2, DelimitersAreWords DEF Text
  <2> DEFINE s == scheme \o <<":">> \o rest
  <2>2. /\ Find(s, ":") = Len(scheme) + 1
        /\ Before(s, Find(s, ":")) = scheme /\ After(s, Find(s, ":")) = rest
    BY <1>1, <2>1, FindFirst
  <2>3. s = text
    BY <1>2
  <2>4. Len(scheme) + 1 # 0
    BY <2>1, LenProperties
  <2> HIDE DEF s
  <2> QED
    BY <2>2, <2>3, <2>4 DEF SchemeOf, RestOf
<1>6. v \in UrlRecord
  BY SchemeIsRead
<1>7. x \in UrlRecord /\ SameSite(u, x) /\ TailOf(rest) = t
  <2>1. CASE Nameless(u)
    <3>1. rest = <<>> \o t
      BY <2>1 DEF RestText
    <3> HIDE DEF t, rest
    <3>2. rest = t
      BY <1>3, <3>1, TextsAround, NoText
    <3>3. t \in Seq(Words) /\ NoPair(t, "/")
      BY <1>3, <2>1 DEF Text
    <3>4. Slashes(rest) = 0
      BY <3>2, <3>3, PairNone, PairsAreFound
    <3>5. x = v /\ TailOf(rest) = t
      BY <3>2, <3>4 DEF TailOf
    <3>6. /\ u.host = <<>> /\ u.ips = <<>> /\ u.user = <<>> /\ u.port = <<>>
          /\ u.password = <<>>
      BY <2>1 DEF Nameless, Readable
    <3>7. SameSite(u, v)
      <4> HIDE DEF v
      <4>1. /\ v.scheme = u.scheme
            /\ v.user = <<>> /\ v.password = <<>> /\ v.host = <<>> /\ v.ips = <<>>
            /\ v.error = "none"
            /\ u.port = <<>> => v.port = <<>> /\ v.local = u.local
        BY SchemeIsRead DEF v, scheme
      <4> QED
        BY <3>6, <4>1 DEF SameSite
    <3> HIDE DEF x, v
    <3> QED
      BY <1>6, <3>5, <3>7
  <2>2. CASE ~Nameless(u)
    <3>1. a \in Text /\ "/" \notin ToSet(a)
      BY <2>2, AuthorityIsParted, AuthorityIsRead
    <3>2. rest = (<<"/", "/">> \o a) \o t
      BY <2>2 DEF RestText
    <3>3. WithAuthority(v, a, answer) \in UrlRecord /\ SameSite(u, WithAuthority(v, a, answer))
      BY <2>2, SiteIsReadBack
    <3>4. t # <<>> => t[1] = "/"
      BY <1>3, <2>2
    <3> DEFINE s == <<"/", "/">>
    <3>5. s \in Text
      BY DelimitersAreWords, TwoWords
    <3> HIDE DEF t, rest, a, v
    <3>6. \A z \in Text : (s \o a) \o z = s \o (a \o z)
      <4>1. Groups(s, a)
        BY <3>1, <3>5, TextsGroup
      <4> QED
        BY <4>1 DEF Groups
    <3>7. rest = s \o (a \o t)
      BY <1>3, <3>2, <3>6
    <3> DEFINE r == <<"/", "/">> \o (a \o t)
    <3>8. Slashes(r) # 0 /\ AuthorityOf(r) = a /\ TailOf(r) = t
      BY <1>3, <3>1, <3>4, AuthorityCut
    <3>9. r = rest
      BY <3>7
    <3> HIDE DEF r
    <3>10. x = WithAuthority(v, a, answer) /\ TailOf(rest) = t
      BY <3>8, <3>9
    <3> HIDE DEF x
    <3> QED
      BY <3>3, <3>10
  <2> QED
    BY <2>1, <2>2
<1>8. again = WithTail(x, t)
  <2>1. x.error = "none"
    BY <1>7 DEF SameSite
  <2>2. again = IF Find(text, ":") = 0 THEN [Blank EXCEPT !.error = "BAD_URL_FORMAT"]
                ELSE IF x.error # "none" THEN x
                ELSE WithTail(x, TailOf(rest))
    BY <1>5 DEF Parse
  <2> HIDE DEF x, again, text, rest, t
  <2> QED
    BY <1>5, <1>7, <2>1, <2>2
<1> HIDE DEF x, again, text, rest, t, behind
<1>9. again \in UrlRecord
  BY <1>3, <1>7, <1>8, WithTailType
<1>10. /\ Kept(x, again, {"path", "query", "fragment", "valid"}) /\ again.valid = TRUE
       /\ again.path = u.path /\ again.query = u.query /\ again.fragment = u.fragment
  BY <1>4, <1>7, <1>8, WithTailKeeps DEF behind
<1>11. /\ again.scheme = u.scheme /\ again.user = u.user /\ again.password = u.password
       /\ again.host = u.host /\ again.port = u.port /\ again.local = u.local
       /\ again.error = u.error
       /\ u.host = <<>> => again.ips = u.ips
  BY <1>7, <1>10 DEF Kept, UrlMembers, SameSite
<1> DEFINE ips == u.ips
           y == [again EXCEPT !.ips = ips]
<1>12. ips \in Seq(Addresses)
  BY DEF UrlRecord
<1> HIDE DEF ips
<1>13. y \in UrlRecord /\ Kept(again, y, {"ips"}) /\ y.ips = ips
  BY <1>9, <1>12 DEF UrlRecord, Kept, UrlMembers
<1> HIDE DEF y
<1>14. u.valid = TRUE
  BY DEF UrlRecord
<1>15. Kept(u, y, {})
  <2>1. /\ y.scheme = again.scheme /\ y.user = again.user /\ y.password = again.password
        /\ y.host = again.host /\ y.port = again.port /\ y.local = again.local
        /\ y.error = again.error /\ y.path = again.path /\ y.query = again.query
        /\ y.fragment = again.fragment /\ y.valid = again.valid
    BY <1>13 DEF Kept, UrlMembers
  <2>2. y.ips = u.ips
    BY <1>13 DEF ips
  <2>3. /\ y.scheme = u.scheme /\ y.user = u.user /\ y.password = u.password
        /\ y.host = u.host /\ y.port = u.port /\ y.local = u.local /\ y.error = u.error
        /\ y.path = u.path /\ y.query = u.query /\ y.fragment = u.fragment
        /\ y.valid = u.valid /\ y.ips = u.ips
    BY <1>10, <1>11, <1>14, <2>1, <2>2
  <2>4. ASSUME NEW f \in UrlMembers PROVE y[f] = u[f]
    BY <2>3, <2>4, Zenon DEF UrlMembers
  <2> QED
    BY <2>4 DEF Kept
<1>16. y = u
  BY <1>13, <1>15, UrlsEqual
<1> QED
  BY <1>10, <1>11, <1>16 DEF again, text, y, ips

\* Lines 46-132 and 316-354: what composeUrl() makes of a valid Url is read again by the
\* constructor, for all texts and setters that the Url comes from and all answers of the
\* resolver but an error.
THEOREM ComposedIsAlwaysReadBack == MessageSpec => []ComposedIsReadBack
<1>1. PartsInv => ComposedIsReadBack
  BY ComposedIsParsed DEF PartsInv, AddressInv, ComposedIsReadBack
<1> QED
  BY <1>1, PartsInvHolds, PTL

-----------------------------------------------------------------------------
(* The lines of the head of a request.                                     *)

\* The texts that break no line, and the headers and the data that are not taken for
\* the line of the length.
InLine == Seq(Words \ {EndOfLine})

OwnFields ==
  {field \in Fields : field.name \notin {EndOfLine, "content-length"} /\ field.value \in InLine}

OwnData == {data \in InLine : data = <<>> \/ data[1] # "content-length"}

\* What the client must see to: nothing that it gives holds the end of a line, but for
\* a body and the parameters of a form, and it writes no length itself.
OwnLines ==
  /\ UrlInputs.texts \subseteq InLine /\ UrlInputs.hosts \subseteq InLine
  /\ UrlInputs.paths \subseteq InLine /\ UrlInputs.queries \subseteq InLine
  /\ HttpInputs.headers \subseteq OwnFields
  /\ HttpInputs.data \subseteq OwnData
  /\ "GET" \in Kinds =>
       \A field \in HttpInputs.params : field.name # EndOfLine /\ field.value \in InLine

LengthsAreInLine == \A n \in Nat : ToString(n) \in Words \ {EndOfLine}

LEMMA WordsInLine ==
  /\ Space \in Words \ {EndOfLine} /\ "HTTP/1.1" \in Words \ {EndOfLine}
  /\ "/" \in Words \ {EndOfLine} /\ "?" \in Words \ {EndOfLine}
  /\ "&" \in Words \ {EndOfLine} /\ "=" \in Words \ {EndOfLine}
  /\ ":" \in Words \ {EndOfLine} /\ "host" \in Words \ {EndOfLine}
  /\ "content-length" \in Words \ {EndOfLine} /\ "host" # "content-length"
  /\ \A kind \in Kinds : kind \in Words \ {EndOfLine} /\ kind # "content-length"
<1>1. /\ Space # EndOfLine /\ "HTTP/1.1" # EndOfLine /\ "/" # EndOfLine /\ "?" # EndOfLine
      /\ "&" # EndOfLine /\ "=" # EndOfLine /\ ":" # EndOfLine /\ "host" # EndOfLine
      /\ "content-length" # EndOfLine
  BY Zenon DEF Space, EndOfLine
<1>2. "GET" # EndOfLine /\ "POST" # EndOfLine /\ "PUT" # EndOfLine
  BY Zenon DEF EndOfLine
<1>3. ASSUME NEW kind \in Kinds
      PROVE  kind \in Words \ {EndOfLine} /\ kind # "content-length"
  <2>1. kind \in {"GET", "POST", "PUT"} /\ kind \in Words
    BY HttpAssumption
  <2>2. kind # EndOfLine
    BY <1>2, <2>1
  <2> QED
    BY <2>1, <2>2
<1>4. "host" # "content-length"
  OBVIOUS
<1> QED
  BY <1>1, <1>3, <1>4, WrittenWords

LEMMA TextsInLine ==
  /\ InLine \subseteq Text
  /\ \A s \in InLine : EndOfLine \notin ToSet(s)
  /\ <<>> \in InLine
  /\ \A s \in InLine, t \in InLine : s \o t \in InLine
<1>1. ASSUME NEW s \in InLine PROVE s \in Text /\ EndOfLine \notin ToSet(s)
  <2>1. s \in Seq(Words \ {EndOfLine})
    BY DEF InLine
  <2>2. ToSet(s) \subseteq Words \ {EndOfLine}
    BY <2>1, ToSetProperties
  <2>3. s \in Seq(Words)
    BY <2>1
  <2> QED
    BY <2>2, <2>3 DEF Text
<1>2. <<>> \in InLine
  BY EmptySeq DEF InLine
<1>3. ASSUME NEW s \in InLine, NEW t \in InLine PROVE s \o t \in InLine
  BY ConcatProperties DEF InLine
<1> QED
  BY <1>1, <1>2, <1>3

LEMMA OneInLine ==
  ASSUME NEW w \in Words \ {EndOfLine}
  PROVE  <<w>> \in InLine
BY DEF InLine

LEMMA PrefixedInLine ==
  ASSUME NEW c \in Words \ {EndOfLine}, NEW s \in InLine
  PROVE  Prefixed(c, s) \in InLine
<1>1. <<c>> \in InLine
  BY OneInLine
<1>2. <<c>> \o s \in InLine
  BY <1>1, TextsInLine
<1> QED
  BY <1>2, TextsInLine DEF Prefixed

LEMMA CutsInLine ==
  ASSUME NEW s \in InLine, NEW c
  PROVE  Before(s, Find(s, c)) \in InLine /\ After(s, Find(s, c)) \in InLine
BY AroundFirst DEF InLine

LEMMA EncodedInLine ==
  ASSUME NEW s \in InLine, NEW chars \in SUBSET Special
  PROVE  EncodeOnly(s, chars) \in InLine
<1> DEFINE W == Words \ {EndOfLine}
           e == [i \in DOMAIN s |-> IF s[i] \in chars THEN Percent(s[i]) ELSE <<s[i]>>]
<1>1. DOMAIN s = 1..Len(s) /\ Len(s) \in Nat /\ \A i \in 1..Len(s) : s[i] \in W
  BY LenProperties, ElementOfSeq DEF InLine
<1>2. ASSUME NEW i \in 1..Len(s)
      PROVE  e[i] \in Seq(W)
  <2>1. PICK w \in W : w = s[i]
    BY <1>1
  <2>2. ASSUME w \in chars PROVE Percent(w) \in Seq(W)
    <3>1. w \in Special /\ Digit(w) # EndOfLine /\ "0x" # EndOfLine
      BY <2>2, DigitsDiffer
    <3>2. "%" # EndOfLine
      BY Zenon DEF EndOfLine
    <3>3. Digit(w) \in Words /\ "%" \in Words /\ "0x" \in Words
      BY <3>1, WordsAssumption
    <3>4. PICK d \in W : d = Digit(w)
      BY <3>1, <3>3
    <3>5. "%" \in W /\ "0x" \in W
      BY <3>1, <3>2, <3>3
    <3> HIDE DEF W
    <3>6. <<"%", "0x", d>> \in Seq(W)
      BY <3>5
    <3> QED
      BY <3>4, <3>6 DEF Percent
  <2>3. <<w>> \in Seq(W)
    OBVIOUS
  <2>4. e[i] = IF w \in chars THEN Percent(w) ELSE <<w>>
    BY <1>1, <2>1
  <2> QED
    BY <2>2, <2>3, <2>4
<1>3. e = [i \in 1..Len(s) |-> e[i]]
  BY <1>1
<1> HIDE DEF e, W
<1>4. e \in Seq(Seq(W))
  BY <1>1, <1>2, <1>3
<1>5. FlattenSeq(e) \in Seq(W)
  BY <1>4, FlattenType
<1> QED
  BY <1>5 DEF EncodeOnly, e, W, InLine

\* Lines that end in one end of a line.
Whole(t, S, c) == t \in Seq(S) /\ NoPair(t, c) /\ t # <<>> /\ t[Len(t)] = c

Grouped(a, b, d) == (a \o b) \o d = a \o (b \o d)

LEMMA SequencesGroup ==
  ASSUME NEW S, NEW a \in Seq(S), NEW b \in Seq(S), NEW d \in Seq(S)
  PROVE  Grouped(a, b, d)
BY ConcatAssociative DEF Grouped

\* One more line, which is not empty, makes no blank line.
LEMMA NoPairOneMore ==
  ASSUME NEW S, NEW t \in Seq(S), NEW c \in S, NoPair(t, c),
         NEW line \in Seq(S), line # <<>>, c \notin ToSet(line)
  PROVE  Whole(Append(t \o line, c), S, c)
<1> DEFINE s == t \o line
           a == Append(s, c)
           m == Len(t)
           n == Len(line)
<1>1. /\ m \in Nat /\ n \in Nat /\ n # 0
      /\ DOMAIN line = 1..n
  BY LenProperties, EmptySeq
<1>2. /\ s \in Seq(S) /\ Len(s) = m + n
      /\ \A i \in 1..(m + n) : s[i] = IF i <= m THEN t[i] ELSE line[i - m]
  BY ConcatProperties
<1> HIDE DEF s
<1>3. /\ a \in Seq(S) /\ Len(a) = m + n + 1 /\ a[m + n + 1] = c
      /\ \A i \in 1..(m + n) : a[i] = s[i]
  <2> HIDE DEF m, n
  <2>1. a \in Seq(S)
    BY <1>2, AppendProperties
  <2>2. Len(a) = Len(s) + 1
    BY <1>2, AppendProperties
  <2>3. a[Len(s) + 1] = c
    BY <1>2, AppendProperties
  <2>4. \A i \in 1..Len(s) : a[i] = s[i]
    BY <1>2, AppendProperties
  <2> HIDE DEF a
  <2> QED
    BY <1>2, <2>1, <2>2, <2>3, <2>4
<1> HIDE DEF a
<1>4. \A i \in 1..n : line[i] # c
  BY <1>1 DEF ToSet
<1> HIDE DEF m, n
<1>5. ASSUME NEW i \in 1..(m + n), i > m PROVE a[i] # c
  <2>1. i - m \in 1..n /\ ~(i <= m)
    BY <1>1, <1>5
  <2>2. a[i] = line[i - m]
    BY <1>2, <1>3, <2>1
  <2> QED
    BY <1>4, <2>1, <2>2
<1>6. ASSUME NEW i \in 1..m PROVE a[i] = t[i]
  <2>1. i \in 1..(m + n) /\ i <= m
    BY <1>1
  <2> QED
    BY <1>2, <1>3, <2>1
<1>7. ASSUME NEW i \in 1..(Len(a) - 1), a[i] = c, a[i + 1] = c
      PROVE  FALSE
  <2>1. i \in 1..(m + n)
    BY <1>1, <1>3
  <2>2. i <= m
    BY <1>1, <1>5, <1>7, <2>1
  <2>3. i # m
    <3>1. m + 1 \in 1..(m + n) /\ m + 1 > m
      BY <1>1
    <3>2. a[m + 1] # c
      BY <1>5, <3>1
    <3> QED
      BY <1>7, <3>2
  <2>4. i \in 1..m /\ i + 1 \in 1..m /\ i \in 1..(m - 1)
    BY <1>1, <2>1, <2>2, <2>3
  <2>5. t[i] = c /\ t[i + 1] = c
    BY <1>6, <1>7, <2>4
  <2> QED
    BY <2>4, <2>5 DEF NoPair, m
<1>8. NoPair(a, c)
  BY <1>7 DEF NoPair
<1>9. a # <<>>
  <2>1. Len(a) # 0
    BY <1>1, <1>3
  <2> QED
    BY <2>1
<1> QED
  BY <1>1, <1>3, <1>8, <1>9 DEF a, s, Whole

LEMMA LinesAreWhole ==
  ASSUME NEW S, NEW c \in S, NEW first \in Seq(S), first # <<>>, c \notin ToSet(first),
         NEW lines \in Seq(Seq(S)), Unbroken(lines, c), \A i \in 1..Len(lines) : lines[i] # <<>>
  PROVE  Whole(first \o <<c>> \o Lines(lines, c), S, c)
<1> DEFINE U == Seq(S)
           start == first \o <<c>>
           All(l) == start \o Lines(l, c)
           Fine(l) == Unbroken(l, c) /\ \A i \in 1..Len(l) : l[i] # <<>>
           T == {l \in Seq(U) : Fine(l) => Whole(All(l), S, c)}
<1>1. start \in Seq(S) /\ Whole(start, S, c)
  <2> DEFINE none == <<>>
  <2>1. none \in Seq(S) /\ NoPair(none, c) /\ none \o first = first
    BY EmptySeq, ConcatEmptySeq DEF NoPair
  <2>2. start = Append(first, c)
    BY AppendIsConcat
  <2> HIDE DEF none, start
  <2>3. Whole(Append(none \o first, c), S, c)
    BY <2>1, NoPairOneMore
  <2> QED
    BY <2>1, <2>2, <2>3 DEF Whole
<1> HIDE DEF start
<1>2. <<>> \in T
  <2>1. <<>> \in Seq(U)
    BY EmptySeq
  <2>2. All(<<>>) = start
    BY <1>1, LinesOfNothing, ConcatEmptySeq
  <2> QED
    BY <1>1, <2>1, <2>2
<1>3. ASSUME NEW l \in Seq(U), NEW line \in U, l \in T
      PROVE  Append(l, line) \in T
  <2>0. line \in Seq(S)
    OBVIOUS
  <2> DEFINE m == Append(l, line)
             L == Lines(l, c)
  <2>1. /\ m \in Seq(U) /\ Len(m) = Len(l) + 1 /\ Len(l) \in Nat
        /\ \A i \in 1..Len(l) : m[i] = l[i]
        /\ m[Len(l) + 1] = line
    BY AppendProperties, LenProperties
  <2>2. Lines(m, c) = Append(L \o line, c) /\ L \in Seq(S)
    BY LinesAppend
  <2> HIDE DEF m, L
  <2>3. ASSUME Fine(m)
        PROVE  Whole(All(m), S, c)
    <3>1. Fine(l) /\ c \notin ToSet(line) /\ line # <<>>
      <4>1. \A i \in 1..Len(l) : i \in 1..Len(m)
        BY <2>1
      <4>2. Len(l) + 1 \in 1..Len(m)
        BY <2>1
      <4> QED
        BY <2>1, <2>3, <4>1, <4>2 DEF Unbroken
    <3> DEFINE t == start \o L
    <3>2. Whole(t, S, c)
      BY <1>3, <3>1 DEF L
    <3>3. start \o Append(L \o line, c) = Append(t \o line, c)
      <4>1. L \o line \in Seq(S)
        BY <2>2, ConcatProperties
      <4> DEFINE both == L \o line
      <4>2. start \o both = t \o line
        <5>1. start \in Seq(S) /\ L \in Seq(S)
          BY <1>1, <2>2
        <5> HIDE DEF U
        <5>2. Grouped(start, L, line)
          BY <2>0, <5>1, SequencesGroup
        <5> QED
          BY <5>2 DEF Grouped
      <4> HIDE DEF both, t
      <4>3. start \o Append(both, c) = Append(start \o both, c)
        BY <1>1, <4>1, ConcatAppend DEF both
      <4> QED
        BY <4>2, <4>3 DEF both
    <3> HIDE DEF t
    <3>4. Whole(Append(t \o line, c), S, c)
      <4>1. t \in Seq(S) /\ NoPair(t, c)
        BY <3>2 DEF Whole
      <4> QED
        BY <3>1, <4>1, NoPairOneMore
    <3>5. All(m) = Append(t \o line, c)
      BY <2>2, <3>3
    <3> HIDE DEF All
    <3> QED
      BY <3>4, <3>5
  <2> QED
    BY <2>1, <2>3 DEF m
<1> HIDE DEF T
<1>4. lines \in T
  BY <1>2, <1>3, InductionOnSeq
<1>5. Fine(lines)
  OBVIOUS
<1> QED
  BY <1>4, <1>5 DEF T, start

\* A blank line behind such lines is where the head ends.
LEMMA HeadIsWhole ==
  ASSUME NEW S, NEW c \in S, NEW t, Whole(t, S, c), NEW b \in Seq(S)
  PROVE  LET data == t \o <<c>> \o b IN
           /\ PairAt(data, c) = Len(t)
           /\ SubSeq(data, 1, Len(t)) = t
           /\ Len(data) - Len(t) - 1 = Len(b)
<1> DEFINE data == t \o <<c>> \o b
           m == Len(t)
<1>1. t \in Seq(S) /\ NoPair(t, c) /\ t # <<>> /\ t[m] = c
  BY DEF Whole
<1>2. m \in Nat /\ Len(b) \in Nat /\ m # 0
  BY <1>1, LenProperties, EmptySeq
<1>3. /\ data \in Seq(S) /\ Len(data) = m + 1 + Len(b)
      /\ data[m + 1] = c
      /\ \A i \in 1..m : data[i] = t[i]
      /\ SubSeq(data, 1, m) = t
  BY <1>1, Around
<1> HIDE DEF data, m
<1>4. m \in 1..(Len(data) - 1) /\ m \in 1..m
  BY <1>2, <1>3
<1>5. ASSUME NEW i \in 1..(m - 1), data[i] = c, data[i + 1] = c
      PROVE  FALSE
  <2>1. i \in 1..m /\ i + 1 \in 1..m
    BY <1>2
  <2>2. t[i] = c /\ t[i + 1] = c
    BY <1>3, <1>5, <2>1
  <2> QED
    BY <1>1, <2>2 DEF NoPair, m
<1>6. PairAt(data, c) = m
  BY <1>1, <1>3, <1>4, <1>5, PairFirst
<1>7. Len(data) - m - 1 = Len(b)
  BY <1>2, <1>3
<1> QED
  BY <1>3, <1>6, <1>7 DEF data, m

\* The pieces of such lines are the lines.
LEMMA PiecesOfHead ==
  ASSUME NEW S, NEW c \in S, NEW first \in Seq(S), c \notin ToSet(first),
         NEW lines \in Seq(Seq(S)), Unbroken(lines, c),
         NEW piece \in ToSet(Pieces(first \o <<c>> \o Lines(lines, c), c))
  PROVE  piece = first \/ piece = <<>> \/ piece \in ToSet(lines)
<1> DEFINE U == Seq(S)
           L == Lines(lines, c)
           last == <<>>
           more == Append(lines, last)
           one == <<first>>
<1>1. last \in U /\ c \notin ToSet(last)
  BY EmptySeq DEF ToSet
<1>2. L \in Seq(S) /\ L \o last = L
  BY LinesType, ConcatEmptySeq
<1>3. Pieces(L \o last, c) = more
  <2> HIDE DEF L, last, more
  <2>1. Pieces(Lines(lines, c) \o last, c) = Append(lines, last)
    BY <1>1, PiecesOfLines
  <2> QED
    BY <2>1 DEF L, more
<1>4. Pieces(first, c) = one
  BY PiecesWhole
<1>5. Pieces(first \o <<c>> \o L, c) = one \o more
  <2> HIDE DEF L, more, one
  <2>1. Pieces(first \o <<c>> \o L, c) = Pieces(first, c) \o Pieces(L, c)
    BY <1>2, PiecesAround
  <2> QED
    BY <1>2, <1>3, <1>4, <2>1
<1> HIDE DEF last
<1>6. more \in Seq(U) /\ ToSet(more) = ToSet(lines) \cup {last}
  BY <1>1, AppendSet, AppendProperties
<1>7. one \in Seq(U) /\ ToSet(one) = {first}
  BY DEF ToSet
<1> HIDE DEF one, more, U
<1>8. ToSet(one \o more) = ToSet(one) \cup ToSet(more)
  BY <1>6, <1>7, ConcatSet
<1>9. piece \in ToSet(one \o more)
  BY <1>5 DEF L
<1> QED
  BY <1>6, <1>7, <1>8, <1>9 DEF last

-----------------------------------------------------------------------------
(* The headers, each in a line.                                            *)

HeaderPiece == [field \in Fields |-> <<field.name, ":">> \o field.value]

LEMMA HeaderPieceType ==
  /\ Rule(HeaderPiece, Fields, Text)
  /\ \A field \in Fields :
       /\ HeaderPiece[field] # <<>> /\ HeaderPiece[field][1] = field.name
       /\ ToSet(HeaderPiece[field]) = {field.name, ":"} \cup ToSet(field.value)
<1>1. ASSUME NEW field \in Fields
      PROVE  /\ HeaderPiece[field] \in Text /\ HeaderPiece[field] # <<>>
             /\ HeaderPiece[field][1] = field.name
             /\ ToSet(HeaderPiece[field]) = {field.name, ":"} \cup ToSet(field.value)
  <2> DEFINE start == <<field.name, ":">>
             value == field.value
             line == start \o value
  <2>1. field.name \in Words /\ value \in Text /\ ":" \in Words
    BY WrittenWords DEF Fields
  <2>2. /\ start \in Text /\ Len(start) = 2 /\ start[1] = field.name
        /\ ToSet(start) = {field.name, ":"}
    <3>1. ToSet(start) = {field.name, ":"}
      BY DEF ToSet
    <3> QED
      BY <2>1, <3>1, TwoWords
  <2> HIDE DEF start, value
  <2>3. line \in Text /\ ToSet(line) = ToSet(start) \cup ToSet(value)
    BY <2>1, <2>2, TextsFollow, TextsAround
  <2>4. Len(line) = Len(start) + Len(value) /\ Len(value) \in Nat /\ line[1] = field.name
    <3>1. start \in Seq(Words) /\ value \in Seq(Words) /\ Len(value) \in Nat
      BY <2>1, <2>2, LenProperties DEF Text
    <3>2. /\ Len(line) = Len(start) + Len(value)
          /\ \A i \in 1..(Len(start) + Len(value)) :
               line[i] = IF i <= Len(start) THEN start[i] ELSE value[i - Len(start)]
      BY <3>1, ConcatProperties
    <3> HIDE DEF line
    <3>3. 1 \in 1..(Len(start) + Len(value)) /\ 1 <= Len(start)
      BY <2>2, <3>1
    <3> QED
      BY <2>2, <3>1, <3>2, <3>3
  <2>5. HeaderPiece[field] = line
    BY DEF HeaderPiece, line, start, value
  <2> HIDE DEF line
  <2>6. Len(line) # 0
    BY <2>2, <2>4
  <2>7. line # <<>>
    BY <2>6
  <2> QED
    BY <2>2, <2>3, <2>4, <2>5, <2>7 DEF value
<1>2. HeaderPiece = [field \in Fields |-> HeaderPiece[field]]
  BY DEF HeaderPiece
<1> QED
  BY <1>1, <1>2 DEF Rule

LEMMA HeadersAreLines ==
  ASSUME NEW headers \in Seq(Fields)
  PROVE  LET F == Ruled(headers, HeaderPiece) IN
           /\ F \in Seq(Seq(Words)) /\ Len(F) = Len(headers)
           /\ \A i \in 1..Len(headers) :
                headers[i] \in Fields /\ F[i] = HeaderPiece[headers[i]]
           /\ HeaderLines(headers) = Lines(F, EndOfLine)
<1> DEFINE F == Ruled(headers, HeaderPiece)
           E == [i \in DOMAIN headers |->
                   <<headers[i].name, ":">> \o headers[i].value \o <<EndOfLine>>]
<1>1. /\ Len(headers) \in Nat /\ DOMAIN headers = 1..Len(headers)
      /\ \A i \in 1..Len(headers) : headers[i] \in Fields
  BY ElementOfSeq, LenProperties
<1>2. F \in Seq(Seq(Words)) /\ Len(F) = Len(headers)
  BY HeaderPieceType, RuledType DEF Text
<1>3. /\ DOMAIN F = DOMAIN headers
      /\ \A i \in 1..Len(headers) : F[i] = HeaderPiece[headers[i]]
  BY <1>1 DEF Ruled
<1> HIDE DEF F
<1>4. E = [i \in DOMAIN F |-> Append(F[i], EndOfLine)]
  <2>1. ASSUME NEW i \in DOMAIN headers
        PROVE  E[i] = Append(F[i], EndOfLine)
    <3>1. headers[i] \in Fields /\ F[i] = HeaderPiece[headers[i]]
      BY <1>1, <1>3
    <3>2. E[i] = HeaderPiece[headers[i]] \o <<EndOfLine>>
      BY <3>1 DEF HeaderPiece
    <3>3. F[i] \in Seq(Words)
      BY <1>1, <1>2, ElementOfSeq
    <3>4. Append(F[i], EndOfLine) = F[i] \o <<EndOfLine>>
      BY <3>3, WrittenWords, AppendIsConcat
    <3> HIDE DEF E
    <3> QED
      BY <3>1, <3>2, <3>4
  <2>2. E = [i \in DOMAIN headers |-> E[i]]
    OBVIOUS
  <2> HIDE DEF E
  <2> QED
    BY <1>3, <2>1, <2>2
<1> QED
  BY <1>1, <1>2, <1>3, <1>4 DEF Lines, HeaderLines, F

LEMMA TwoAndOne ==
  ASSUME NEW u \in Words, NEW v \in Words, NEW w \in Words
  PROVE  <<u, v>> \o <<w>> = <<u, v, w>>
<1> DEFINE two == <<u, v>>
           three == <<u, v, w>>
           a == Append(two, w)
<1>1. two \in Seq(Words) /\ Len(two) = 2 /\ two[1] = u /\ two[2] = v
  OBVIOUS
<1>2. /\ three \in Seq(Words) /\ Len(three) = 3
      /\ three[1] = u /\ three[2] = v /\ three[3] = w
  OBVIOUS
<1> HIDE DEF two, three
<1>3. a \in Seq(Words)
  BY <1>1, AppendProperties
<1>4. Len(a) = Len(two) + 1
  BY <1>1, AppendProperties
<1>5. \A i \in 1..Len(two) : a[i] = two[i]
  <2>1. two \in Seq(Words)
    BY <1>1
  <2> QED
    BY <2>1, AppendProperties
<1>6. a[Len(two) + 1] = w
  BY <1>1, AppendProperties
<1>7. a = two \o <<w>>
  BY <1>1, AppendIsConcat
<1> HIDE DEF a
<1>8. Len(a) = 3 /\ \A i \in 1..3 : a[i] = three[i]
  BY <1>1, <1>2, <1>4, <1>5, <1>6
<1>9. a = three
  BY <1>2, <1>3, <1>8, SeqEqual
<1> QED
  BY <1>7, <1>9 DEF two, three

\* The headers of a request with its body: those of the client and the one of the length.
LengthOf(body) == Field("content-length", <<ToString(Len(body))>>)

LEMMA LengthInLine ==
  ASSUME LengthsAreInLine, NEW body \in Text
  PROVE  /\ LengthOf(body) \in Fields
         /\ LengthOf(body).name = "content-length" /\ LengthOf(body).value \in InLine
         /\ HeaderPiece[LengthOf(body)] = <<"content-length", ":", ToString(Len(body))>>
<1> DEFINE n == ToString(Len(body))
           field == LengthOf(body)
<1>1. n \in Words \ {EndOfLine}
  <2>1. Len(body) \in Nat
    BY LenProperties DEF Text
  <2> QED
    BY <2>1 DEF LengthsAreInLine
<1> HIDE DEF n
<1>2. <<n>> \in InLine /\ <<n>> \in Text
  BY <1>1, OneInLine, OneWord
<1>3. field = [name |-> "content-length", value |-> <<n>>]
  BY DEF LengthOf, Field, n
<1> HIDE DEF field
<1>4. field.name = "content-length" /\ field.value = <<n>> /\ field \in Fields
  BY <1>2, <1>3, WrittenWords DEF Fields
<1>5. <<"content-length", ":">> \o <<n>> = <<"content-length", ":", n>>
  BY <1>1, WrittenWords, TwoAndOne
<1>6. HeaderPiece[field] = <<field.name, ":">> \o field.value
  BY <1>4 DEF HeaderPiece
<1> QED
  BY <1>2, <1>4, <1>5, <1>6 DEF n, field

LEMMA HeadersWithBody ==
  ASSUME LengthsAreWords, NEW r, IsRequest(r), r.headers \in Seq(OwnFields)
  PROVE  LET w == WithBody(r) IN
           \A i \in 1..Len(w.headers) :
             w.headers[i] \in OwnFields \/ w.headers[i] = LengthOf(w.body)
<1> DEFINE body == IF r.body = <<>> THEN Form(r) ELSE r.body
           headers == Append(r.headers, LengthOf(body))
           w == WithBody(r)
<1>1. w = IF r.kind \notin Bodied THEN r ELSE [r EXCEPT !.body = body, !.headers = headers]
  BY DEF WithBody, LengthOf
<1>2. r = [f \in Members |-> r[f]]
  BY DEF IsRequest
<1>3. \A i \in 1..Len(r.headers) : r.headers[i] \in OwnFields
  BY ElementOfSeq
<1>4. CASE r.kind \notin Bodied
  <2>1. w = r
    BY <1>1, <1>4
  <2> HIDE DEF w
  <2> QED
    BY <1>3, <2>1 DEF w
<1>5. CASE r.kind \in Bodied
  <2>1. w = [r EXCEPT !.body = body, !.headers = headers]
    BY <1>1, <1>5
  <2> DEFINE more == LengthOf(body)
  <2>2. r.headers \in Seq(OwnFields \cup {more}) /\ more \in OwnFields \cup {more}
    OBVIOUS
  <2> HIDE DEF more
  <2>3. /\ Len(headers) = Len(r.headers) + 1 /\ Len(r.headers) \in Nat
        /\ \A i \in 1..Len(r.headers) : headers[i] = r.headers[i]
        /\ headers[Len(r.headers) + 1] = more
    BY <2>2, AppendProperties, LenProperties DEF more
  <2> HIDE DEF body, headers, w
  <2>4. w.body = body /\ w.headers = headers
    BY <1>2, <2>1 DEF Members
  <2>5. ASSUME NEW i \in 1..Len(headers)
        PROVE  headers[i] \in OwnFields \/ headers[i] = more
    <3>1. i \in 1..Len(r.headers) \/ i = Len(r.headers) + 1
      BY <2>3
    <3> QED
      BY <1>3, <2>3, <3>1
  <2>6. \A i \in 1..Len(w.headers) :
          w.headers[i] \in OwnFields \/ w.headers[i] = LengthOf(w.body)
    BY <2>4, <2>5 DEF more
  <2> QED
    BY <2>6 DEF w
<1> QED
  BY <1>4, <1>5

-----------------------------------------------------------------------------
(* The first line of a request.                                            *)

LEMMA FirstOfConcat ==
  ASSUME NEW s \in Text, NEW t \in Text, s # <<>>
  PROVE  s \o t # <<>> /\ (s \o t)[1] = s[1]
<1> DEFINE both == s \o t
<1>1. /\ s \in Seq(Words) /\ t \in Seq(Words) /\ Len(s) \in Nat /\ Len(t) \in Nat
      /\ Len(s) # 0
  BY LenProperties, EmptySeq DEF Text
<1>2. /\ Len(both) = Len(s) + Len(t)
      /\ \A i \in 1..(Len(s) + Len(t)) : both[i] = IF i <= Len(s) THEN s[i] ELSE t[i - Len(s)]
  BY <1>1, ConcatProperties
<1> HIDE DEF both
<1>3. 1 \in 1..(Len(s) + Len(t)) /\ 1 <= Len(s) /\ Len(both) # 0
  BY <1>1, <1>2
<1>4. both # <<>>
  BY <1>3
<1> QED
  BY <1>2, <1>3, <1>4 DEF both

LEMMA GetFieldsInLine ==
  ASSUME OwnLines, "GET" \in Kinds, NEW r, r.params \in Seq(HttpInputs.params),
         r.url.query \in InLine
  PROVE  GetFields(r) \in InLine
<1> DEFINE params == r.params
           rule == [i \in DOMAIN params |-> <<params[i].name>> \o Prefixed("=", params[i].value)]
           J == Joined(rule, "&")
           fields == IF params = <<>> THEN <<>> ELSE <<"?">> \o J
           query == r.url.query
<1>1. /\ Len(params) \in Nat /\ DOMAIN params = 1..Len(params)
      /\ \A i \in 1..Len(params) : params[i] \in HttpInputs.params
  BY ElementOfSeq, LenProperties
<1>2. ASSUME NEW field \in HttpInputs.params
      PROVE  <<field.name>> \o Prefixed("=", field.value) \in InLine
  <2>1. field.name \in Words \ {EndOfLine} /\ field.value \in InLine
    <3>1. field.name \in Words
      BY FieldsAreInputs DEF Fields
    <3> QED
      BY <3>1 DEF OwnLines
  <2>2. <<field.name>> \in InLine /\ Prefixed("=", field.value) \in InLine
    BY <2>1, OneInLine, PrefixedInLine, WordsInLine
  <2> QED
    BY <2>2, TextsInLine
<1>3. rule \in Seq(InLine)
  <2>1. rule = [i \in 1..Len(params) |-> rule[i]]
    BY <1>1
  <2>2. \A i \in 1..Len(params) : rule[i] \in InLine
    BY <1>1, <1>2
  <2> DEFINE N == Len(params)
             U == InLine
  <2>3. N \in Nat /\ rule = [i \in 1..N |-> rule[i]] /\ \A i \in 1..N : rule[i] \in U
    BY <1>1, <2>1, <2>2
  <2> HIDE DEF rule, N, U
  <2>4. rule \in [1..N -> U]
    BY <2>3
  <2> QED
    BY <2>3, <2>4 DEF U
<1> HIDE DEF rule
<1>4. J \in InLine
  <2> DEFINE W == Words \ {EndOfLine}
             c == "&"
  <2>1. c \in W /\ rule \in Seq(Seq(W)) /\ <<>> \in Seq(W)
    BY <1>3, WordsInLine, EmptySeq DEF InLine
  <2> HIDE DEF W, c
  <2>2. Joined(rule, c) \in Seq(W)
    BY <2>1, JoinedAppend
  <2> QED
    BY <2>2 DEF W, c, InLine
<1> HIDE DEF J
<1>5. <<"?">> \in InLine /\ Prefixed("&", query) \in InLine
  BY OneInLine, PrefixedInLine, WordsInLine
<1>6. fields \in InLine
  BY <1>4, <1>5, TextsInLine
<1>7. GetFields(r) = fields \o Prefixed("&", query)
  BY DEF GetFields, J, rule
<1> HIDE DEF fields
<1> QED
  BY <1>5, <1>6, <1>7, TextsInLine

\* A request whose head is in lines: what it holds before its data is composed.
OwnRequest(r) ==
  /\ r.url.path \in InLine /\ r.url.query \in InLine
  /\ r.headers \in Seq(OwnFields) /\ r.data \in OwnData

LEMMA FirstLineInLine ==
  ASSUME OwnLines, NEW r, IsRequest(r), OwnRequest(r), r.params \in Seq(HttpInputs.params)
  PROVE  FirstLine(r) \in InLine /\ FirstLine(r) # <<>> /\ FirstLine(r)[1] # "content-length"
<1> DEFINE d == r.data
           s == <<r.kind, Space>>
           t == Target(r.url.path)
           q == QueryOf(r)
           v == <<Space, "HTTP/1.1">>
<1>1. d \in InLine /\ (d = <<>> \/ d[1] # "content-length")
  BY DEF OwnRequest, OwnData
<1>2. s \in InLine /\ s # <<>> /\ s[1] # "content-length"
  <2>1. r.kind \in Words \ {EndOfLine} /\ r.kind # "content-length"
    BY WordsInLine DEF IsRequest
  <2>2. Space \in Words \ {EndOfLine}
    BY WordsInLine
  <2>3. s \in InLine
    BY <2>1, <2>2 DEF InLine
  <2>4. s # <<>> /\ s[1] = r.kind
    OBVIOUS
  <2> QED
    BY <2>1, <2>3, <2>4
<1>3. t \in InLine
  <2>1. <<"/">> \in InLine /\ r.url.path \in InLine
    BY OneInLine, WordsInLine DEF OwnRequest
  <2>2. <<"/">> \o r.url.path \in InLine
    BY <2>1, TextsInLine
  <2> QED
    BY <2>1, <2>2 DEF Target
<1>4. q \in InLine
  <2>1. CASE r.kind = "GET"
    <3>1. "GET" \in Kinds /\ r.url.query \in InLine
      BY <2>1 DEF IsRequest, OwnRequest
    <3>2. GetFields(r) \in InLine
      BY <3>1, GetFieldsInLine
    <3> QED
      BY <2>1, <3>2 DEF QueryOf
  <2>2. CASE r.kind # "GET"
    BY <2>2, TextsInLine DEF QueryOf
  <2> QED
    BY <2>1, <2>2
<1>5. v \in InLine
  <2>1. Space \in Words \ {EndOfLine} /\ "HTTP/1.1" \in Words \ {EndOfLine}
    BY WordsInLine
  <2> QED
    BY <2>1 DEF InLine
<1> HIDE DEF d, s, t, q, v
<1> DEFINE ds == d \o s
           dst == ds \o t
           dstq == dst \o q
           all == dstq \o v
           Good(x) == x \in InLine /\ x # <<>> /\ x[1] # "content-length"
<1>6. Good(ds)
  <2>1. d \in Text /\ s \in Text /\ ds \in InLine
    BY <1>1, <1>2, TextsInLine
  <2>2. CASE d = <<>>
    <3>1. ds = s
      BY <2>1, <2>2, TextsAround
    <3> HIDE DEF ds
    <3> QED
      BY <1>2, <3>1
  <2>3. CASE d # <<>>
    <3>1. ds # <<>> /\ ds[1] = d[1]
      BY <2>1, <2>3, FirstOfConcat
    <3> HIDE DEF ds
    <3> QED
      BY <1>1, <2>1, <2>3, <3>1
  <2> QED
    BY <2>2, <2>3
<1>7. ASSUME NEW x, Good(x), NEW y \in InLine
      PROVE  Good(x \o y)
  <2>1. x \in Text /\ y \in Text /\ x \o y \in InLine
    BY <1>7, TextsInLine
  <2> DEFINE xy == x \o y
  <2>2. xy # <<>> /\ xy[1] = x[1]
    BY <1>7, <2>1, FirstOfConcat
  <2> HIDE DEF xy
  <2>3. Good(xy)
    BY <1>7, <2>1, <2>2 DEF xy
  <2> QED
    BY <2>3 DEF xy
<1> HIDE DEF Good
<1>8. Good(dst)
  <2> HIDE DEF ds
  <2> QED
    BY <1>3, <1>6, <1>7
<1>9. Good(dstq)
  <2> HIDE DEF dst
  <2> QED
    BY <1>4, <1>7, <1>8
<1>10. Good(all)
  <2> HIDE DEF dstq
  <2> QED
    BY <1>5, <1>7, <1>9
<1>11. FirstLine(r) = all
  BY DEF FirstLine, d, s, t, q, v
<1> HIDE DEF all
<1> QED
  BY <1>10, <1>11 DEF Good

-----------------------------------------------------------------------------
(* The length that is written is that of the body.                         *)

LengthFits(data) ==
  HeadEnd(data) # 0 =>
    \A line \in ToSet(Pieces(SubSeq(data, 1, HeadEnd(data)), EndOfLine)) :
      line # <<>> /\ line[1] = "content-length" =>
        line = <<"content-length", ":", ToString(Len(data) - HeadEnd(data) - 1)>>

LEMMA LengthIsMatched ==
  LengthMatchesBody <=> (request # None /\ request.composed => LengthFits(request.data))
BY Zenon DEF LengthMatchesBody, LengthFits

\* Data without the end of a line has no head.
LEMMA NoHeadInLine ==
  ASSUME NEW data \in InLine
  PROVE  LengthFits(data)
<1>1. data \in Seq(Words) /\ EndOfLine \notin ToSet(data)
  BY TextsInLine DEF Text
<1>2. NoPair(data, EndOfLine)
  BY <1>1, NoPairWithout
<1>3. HeadEnd(data) = 0
  BY <1>1, <1>2, PairNone, PairsAreFound
<1> QED
  BY <1>3 DEF LengthFits

LEMMA HeadersInLines ==
  ASSUME LengthsAreInLine, NEW headers \in Seq(Fields), NEW body \in Text,
         \A i \in 1..Len(headers) : headers[i] \in OwnFields \/ headers[i] = LengthOf(body)
  PROVE  LET F == Ruled(headers, HeaderPiece) IN
           /\ F \in Seq(Seq(Words)) /\ Unbroken(F, EndOfLine)
           /\ \A i \in 1..Len(F) : F[i] # <<>>
           /\ HeaderLines(headers) = Lines(F, EndOfLine)
           /\ \A line \in ToSet(F) : line[1] = "content-length" =>
                line = <<"content-length", ":", ToString(Len(body))>>
<1> DEFINE F == Ruled(headers, HeaderPiece)
           length == LengthOf(body)
<1>1. /\ F \in Seq(Seq(Words)) /\ Len(F) = Len(headers)
      /\ \A i \in 1..Len(headers) : headers[i] \in Fields /\ F[i] = HeaderPiece[headers[i]]
      /\ HeaderLines(headers) = Lines(F, EndOfLine)
  BY HeadersAreLines
<1>2. /\ length.name = "content-length" /\ length.value \in InLine
      /\ HeaderPiece[length] = <<"content-length", ":", ToString(Len(body))>>
  BY LengthInLine
<1> HIDE DEF F, length
<1>3. ASSUME NEW i \in 1..Len(F)
      PROVE  /\ EndOfLine \notin ToSet(F[i]) /\ F[i] # <<>>
             /\ F[i][1] = "content-length" =>
                  F[i] = <<"content-length", ":", ToString(Len(body))>>
  <2> DEFINE field == headers[i]
  <2>1. field \in Fields /\ F[i] = HeaderPiece[field]
    BY <1>1
  <2>2. field \in OwnFields \/ field = length
    BY <1>1 DEF length
  <2>3. ":" # EndOfLine /\ "content-length" # EndOfLine
    BY WordsInLine
  <2> HIDE DEF field
  <2>4. field.name # EndOfLine /\ field.value \in InLine
    BY <1>2, <2>2, <2>3 DEF OwnFields
  <2>5. /\ F[i] # <<>> /\ F[i][1] = field.name
        /\ ToSet(F[i]) = {field.name, ":"} \cup ToSet(field.value)
    BY <2>1, HeaderPieceType
  <2>6. EndOfLine \notin ToSet(F[i])
    BY <2>3, <2>4, <2>5, TextsInLine
  <2>7. field.name = "content-length" => field = length
    BY <2>2 DEF OwnFields
  <2> QED
    BY <1>2, <2>1, <2>5, <2>6, <2>7
<1>4. Unbroken(F, EndOfLine)
  BY <1>3 DEF Unbroken
<1>5. ASSUME NEW line \in ToSet(F), line[1] = "content-length"
      PROVE  line = <<"content-length", ":", ToString(Len(body))>>
  <2>1. PICK i \in 1..Len(F) : F[i] = line
    BY <1>1, ToSetProperties
  <2> QED
    BY <1>3, <1>5, <2>1
<1> QED
  BY <1>1, <1>3, <1>4, <1>5 DEF F

\* The data is its head, the blank line and the body.
LEMMA DataInHead ==
  ASSUME LengthsAreWords, NEW r, IsRequest(r)
  PROVE  LET w == WithBody(r) IN
           DataOf(r) = FirstLine(r) \o <<EndOfLine>> \o HeaderLines(w.headers)
                         \o <<EndOfLine>> \o w.body
<1> DEFINE w == WithBody(r)
           e == <<EndOfLine>>
           lines == HeaderLines(w.headers)
           first == FirstLine(r)
           b == w.body
           start == first \o e
           blank == lines \o e
<1>1. /\ first \in Text /\ b \in Text /\ lines \in Text
      /\ DataOf(r) = first \o e \o (lines \o e \o b)
  BY DataInLines
<1>2. e \in Text
  BY VersionEndsLine
<1> HIDE DEF w, e, lines, first, b
<1>3. start \in Text /\ blank \in Text
  BY <1>1, <1>2, TextsFollow
<1>4. start \o (blank \o b) = (start \o blank) \o b
  <2> HIDE DEF start, blank
  <2>1. \A u \in Text : (start \o blank) \o u = start \o (blank \o u)
    <3>1. Groups(start, blank)
      BY <1>3, TextsGroup
    <3> QED
      BY <3>1 DEF Groups
  <2> QED
    BY <1>1, <2>1
<1>5. start \o blank = (start \o lines) \o e
  <2> HIDE DEF start
  <2>1. \A u \in Text : (start \o lines) \o u = start \o (lines \o u)
    <3>1. Groups(start, lines)
      BY <1>1, <1>3, TextsGroup
    <3> QED
      BY <3>1 DEF Groups
  <2> QED
    BY <1>2, <2>1
<1> QED
  BY <1>1, <1>4, <1>5 DEF w, e, lines, first, b

LEMMA DataFits ==
  ASSUME OwnLines, LengthsAreInLine, NEW r, IsRequest(r), OwnRequest(r),
         r.params \in Seq(HttpInputs.params)
  PROVE  LengthFits(DataOf(r))
<1> DEFINE w == WithBody(r)
           c == EndOfLine
           first == FirstLine(r)
           F == Ruled(w.headers, HeaderPiece)
           t == first \o <<c>> \o Lines(F, c)
           b == w.body
           data == t \o <<c>> \o b
           n == ToString(Len(b))
<1>1. LengthsAreWords
  BY DEF LengthsAreWords, LengthsAreInLine
<1>2. w.headers \in Seq(Fields) /\ b \in Text
  BY <1>1, DataInLines
<1>3. /\ F \in Seq(Seq(Words)) /\ Unbroken(F, c) /\ \A i \in 1..Len(F) : F[i] # <<>>
      /\ HeaderLines(w.headers) = Lines(F, c)
      /\ \A line \in ToSet(F) :
           line[1] = "content-length" => line = <<"content-length", ":", n>>
  <2>1. \A i \in 1..Len(w.headers) : w.headers[i] \in OwnFields \/ w.headers[i] = LengthOf(b)
    BY <1>1, HeadersWithBody DEF OwnRequest
  <2> HIDE DEF w
  <2> QED
    BY <1>2, <2>1, HeadersInLines
<1>4. /\ first \in Seq(Words) /\ first # <<>> /\ c \notin ToSet(first)
      /\ first[1] # "content-length"
  <2>1. first \in InLine /\ first # <<>> /\ first[1] # "content-length"
    BY FirstLineInLine
  <2> HIDE DEF first
  <2> QED
    BY <2>1, TextsInLine DEF Text
<1>5. DataOf(r) = data
  BY <1>1, <1>3, DataInHead
<1>6. c \in Words /\ b \in Seq(Words)
  BY <1>2, WrittenWords DEF Text
<1> HIDE DEF w, c, first, F, b, n
<1>7. Whole(t, Words, c)
  BY <1>3, <1>4, <1>6, LinesAreWhole
<1>8. \A piece \in ToSet(Pieces(t, c)) : piece = first \/ piece = <<>> \/ piece \in ToSet(F)
  BY <1>3, <1>4, <1>6, PiecesOfHead
<1> HIDE DEF t
<1>9. /\ PairAt(data, c) = Len(t) /\ SubSeq(data, 1, Len(t)) = t
      /\ Len(data) - Len(t) - 1 = Len(b)
  BY <1>6, <1>7, HeadIsWhole
<1> HIDE DEF data
<1>10. HeadEnd(data) = Len(t)
  BY <1>9, PairsAreFound DEF c
<1>11. ASSUME NEW line \in ToSet(Pieces(t, c)), line # <<>>, line[1] = "content-length"
       PROVE  line = <<"content-length", ":", n>>
  BY <1>3, <1>4, <1>8, <1>11
<1>12. LengthFits(data)
  <2>1. SubSeq(data, 1, HeadEnd(data)) = t /\ Len(data) - HeadEnd(data) - 1 = Len(b)
    BY <1>9, <1>10
  <2> QED
    BY <1>11, <2>1, Zenon DEF LengthFits, c, n
<1> QED
  BY <1>5, <1>12

-----------------------------------------------------------------------------
(* The parts of an Url stand in one line.                                  *)

UrlInLine(u) == u.host \in InLine /\ u.path \in InLine /\ u.query \in InLine

LEMMA KeptInLine ==
  ASSUME NEW u, NEW v, UrlInLine(u),
         Kept(u, v, UrlMembers \ {"host", "path", "query"})
  PROVE  UrlInLine(v)
<1>1. v.host = u.host /\ v.path = u.path /\ v.query = u.query
  BY DEF Kept, UrlMembers
<1> QED
  BY <1>1 DEF UrlInLine

LEMMA AuthorityInLine ==
  ASSUME NEW u \in UrlRecord, UrlInLine(u), NEW a \in InLine, NEW answer
  PROVE  UrlInLine(WithAuthority(u, a, answer))
<1> DEFINE w == Sited(u, a)
           v == WithAuthority(u, a, answer)
           host == HostIn(a)
<1>1. a \in Text
  BY TextsInLine
<1>2. w \in UrlRecord /\ Kept(u, w, {"user", "password", "port", "local"})
  BY <1>1, SitedKeeps
<1>3. host \in InLine
  BY SiteParts DEF InLine
<1>4. \/ v = [w EXCEPT !.ips = host]
      \/ v = [w EXCEPT !.error = "IP_CONVERTER_ERROR"]
      \/ v = WithHost(w, host, answer)
  BY AuthorityByHost
<1> HIDE DEF w, v, host
<1>5. v.host \in {w.host, host} /\ v.path = w.path /\ v.query = w.query
  <2>1. CASE v = [w EXCEPT !.ips = host] \/ v = [w EXCEPT !.error = "IP_CONVERTER_ERROR"]
    BY <1>2, <2>1 DEF UrlRecord
  <2>2. CASE v = WithHost(w, host, answer)
    <3>1. Kept(w, v, {"host", "ips", "error"}) /\ v.host = host
      BY <1>2, <2>2, WithHostKeeps
    <3> QED
      BY <3>1 DEF Kept, UrlMembers
  <2> QED
    BY <1>4, <2>1, <2>2
<1>6. w.host = u.host /\ w.path = u.path /\ w.query = u.query
  BY <1>2 DEF Kept, UrlMembers
<1>7. UrlInLine(v)
  BY <1>3, <1>5, <1>6 DEF UrlInLine
<1> QED
  BY <1>7 DEF v

LEMMA ParsedInLine ==
  ASSUME NEW text \in InLine, NEW answer \in Answers(HostOf(text))
  PROVE  UrlInLine(Parse(text, answer))
<1> DEFINE rest == RestOf(text)
           a == AuthorityOf(rest)
           tail == TailOf(rest)
           u == WithScheme(Blank, SchemeOf(text))
           v == IF Slashes(rest) = 0 THEN u ELSE WithAuthority(u, a, answer)
           p == Parse(text, answer)
<1>1. p = IF Find(text, ":") = 0 THEN [Blank EXCEPT !.error = "BAD_URL_FORMAT"]
          ELSE IF v.error # "none" THEN v
          ELSE WithTail(v, tail)
  BY DEF Parse
<1>2. SchemeOf(text) \in InLine /\ rest \in InLine
  BY CutsInLine DEF SchemeOf, RestOf
<1>3. a \in InLine /\ tail \in InLine
  BY <1>2, RestParts DEF InLine
<1>4. SchemeOf(text) \in Text /\ a \in Text
  BY <1>2, <1>3, TextsInLine
<1>5. /\ Blank \in UrlRecord /\ UrlInLine(Blank)
      /\ Blank.host = <<>> /\ Blank.ips = <<>>
  BY BlankType, TextsInLine DEF Blank, UrlInLine
<1>6. u \in UrlRecord /\ UrlInLine(u) /\ u.host = <<>> /\ u.ips = <<>>
  <2>1. u \in UrlRecord /\ Kept(Blank, u, {"scheme", "port", "local"})
    BY <1>4, <1>5, WithSchemeType, WithSchemeKeeps
  <2> HIDE DEF u
  <2>2. u.host = Blank.host /\ u.path = Blank.path /\ u.query = Blank.query
        /\ u.ips = Blank.ips
    BY <2>1 DEF Kept, UrlMembers
  <2> QED
    BY <1>5, <2>1, <2>2 DEF UrlInLine
<1> HIDE DEF u
<1>7. v \in UrlRecord /\ UrlInLine(v)
  <2>1. CASE Slashes(rest) = 0
    BY <1>6, <2>1
  <2>2. CASE Slashes(rest) # 0
    <3>1. v = WithAuthority(u, a, answer)
      BY <2>2
    <3>2. answer \in Answers(HostIn(a))
      BY DEF HostOf, HostIn
    <3> HIDE DEF v, a
    <3> QED
      BY <1>3, <1>4, <1>6, <3>1, <3>2, WithAuthorityType, AuthorityInLine
  <2> QED
    BY <2>1, <2>2
<1> HIDE DEF v, tail, p
<1>8. CASE Find(text, ":") = 0
  <2>1. p.host = Blank.host /\ p.path = Blank.path /\ p.query = Blank.query
    BY <1>5, <1>1, <1>8 DEF UrlRecord
  <2> QED
    BY <1>5, <2>1 DEF UrlInLine, p
<1>9. CASE Find(text, ":") # 0 /\ v.error # "none"
  BY <1>7, <1>1, <1>9 DEF p
<1>10. CASE Find(text, ":") # 0 /\ v.error = "none"
  <2> DEFINE behind == After(tail, Find(tail, "?"))
             path == Before(tail, Find(tail, "?"))
             query == Before(behind, Find(behind, "#"))
  <2>1. p = WithTail(v, tail)
    BY <1>1, <1>10
  <2>2. /\ Kept(v, p, {"path", "query", "fragment", "valid"})
        /\ p.path = path /\ p.query = query
    BY <1>7, <2>1, WithTailKeeps
  <2>3. path \in InLine /\ behind \in InLine
    BY <1>3, CutsInLine
  <2> HIDE DEF behind
  <2>4. query \in InLine
    BY <2>3, CutsInLine
  <2> HIDE DEF path, query
  <2>5. p.host = v.host
    BY <2>2 DEF Kept, UrlMembers
  <2> QED
    BY <1>7, <2>2, <2>3, <2>4, <2>5 DEF UrlInLine, p
<1> QED
  BY <1>8, <1>9, <1>10

LEMMA UrlStartsInLine ==
  ASSUME OwnLines, UrlInit
  PROVE  UrlInLine(url)
<1>1. CASE url = [Blank EXCEPT !.valid = TRUE]
  <2>1. url.host = <<>> /\ url.path = <<>> /\ url.query = <<>>
    BY <1>1 DEF Blank
  <2> QED
    BY <2>1, TextsInLine DEF UrlInLine
<1>2. ASSUME NEW text \in UrlInputs.texts, NEW answer \in Answers(HostOf(text)),
             url = Parse(text, answer)
      PROVE  UrlInLine(url)
  <2>1. text \in InLine
    BY DEF OwnLines
  <2> QED
    BY <1>2, <2>1, ParsedInLine
<1> QED
  BY <1>1, <1>2 DEF UrlInit

LEMMA AuthorityCallInLine ==
  ASSUME OwnLines, url \in UrlRecord, UrlInLine(url), NEW host \in UrlInputs.hosts,
         NEW name, NEW word, SetAuthority(host, name, word)
  PROVE  UrlInLine(url')
<1>1. host \in InLine /\ host \in Text /\ host # <<>>
  BY TextsAreInputs DEF OwnLines
<1>2. CASE ToSet(host) \cap Special # {}
  <2>1. url' = [url EXCEPT !.error = "BAD_HOST_FORMAT", !.valid = FALSE]
    BY <1>2 DEF SetAuthority
  <2>2. Kept(url, url', {"error", "valid"})
    BY <2>1 DEF UrlRecord, Kept, UrlMembers
  <2>3. Kept(url, url', UrlMembers \ {"host", "path", "query"})
    BY <2>2 DEF Kept
  <2> QED
    BY <2>3, KeptInLine
<1>3. CASE ToSet(host) \cap Special = {}
  <2>1. PICK answer \in Answers(host) :
          LET u == WithHost(url, host, answer) IN
            url' = IF u.error # "none" THEN [u EXCEPT !.valid = FALSE]
                   ELSE WithUser(u, name, word)
    BY <1>3 DEF SetAuthority
  <2> DEFINE u == WithHost(url, host, answer)
  <2>2. u \in UrlRecord
    BY <1>1, WithHostType
  <2>3. Kept(url, u, {"host", "ips", "error"}) /\ u.host = host
    BY WithHostKeeps
  <2>4. url' = IF u.error # "none" THEN [u EXCEPT !.valid = FALSE]
               ELSE WithUser(u, name, word)
    BY <2>1
  <2> HIDE DEF u
  <2>5. UrlInLine(u)
    BY <1>1, <2>3 DEF UrlInLine, Kept, UrlMembers
  <2>6. Kept(u, url', {"user", "password", "valid"})
    <3>1. CASE url' = [u EXCEPT !.valid = FALSE]
      BY <2>2, <3>1 DEF UrlRecord, Kept, UrlMembers
    <3>2. CASE url' = WithUser(u, name, word)
      <4>1. Kept(u, url', {"user", "password"})
        BY <2>2, <3>2, WithUserKeeps
      <4> QED
        BY <4>1 DEF Kept
    <3> QED
      BY <2>4, <3>1, <3>2
  <2>7. Kept(u, url', UrlMembers \ {"host", "path", "query"})
    BY <2>6 DEF Kept
  <2> QED
    BY <2>5, <2>7, KeptInLine
<1> QED
  BY <1>2, <1>3

LEMMA UrlStaysInLine ==
  ASSUME OwnLines, url \in UrlRecord, UrlInLine(url), [MessageNext]_messageVars
  PROVE  UrlInLine(url')
<1>1. ASSUME NEW scheme \in UrlInputs.schemes, SetScheme(scheme) PROVE UrlInLine(url')
  <2>1. url' = WithScheme(url, scheme) \/ url' = [url EXCEPT !.valid = FALSE]
    BY <1>1 DEF SetScheme, Put
  <2>2. scheme \in Text
    BY TextsAreInputs
  <2>3. Kept(url, url', {"scheme", "port", "local", "valid"})
    <3>1. CASE url' = WithScheme(url, scheme)
      <4>1. Kept(url, url', {"scheme", "port", "local"})
        BY <2>2, <3>1, WithSchemeKeeps
      <4> QED
        BY <4>1 DEF Kept
    <3>2. CASE url' = [url EXCEPT !.valid = FALSE]
      BY <3>2 DEF UrlRecord, Kept, UrlMembers
    <3> QED
      BY <2>1, <3>1, <3>2
  <2>4. Kept(url, url', UrlMembers \ {"host", "path", "query"})
    BY <2>3 DEF Kept
  <2> QED
    BY <2>4, KeptInLine
<1>2. ASSUME NEW ip \in UrlInputs.ips, AddHostIP(ip) PROVE UrlInLine(url')
  <2> DEFINE ips == Append(url.ips, ip)
             e == IF ip \in Dotted THEN "IP_CONVERTER_ERROR" ELSE "BAD_IP_FORMAT"
  <2>1. url' = [url EXCEPT !.ips = ips] \/ url' = [url EXCEPT !.valid = FALSE, !.error = e]
    BY <1>2 DEF AddHostIP
  <2> HIDE DEF ips, e
  <2>2. Kept(url, url', {"ips", "valid", "error"})
    BY <2>1 DEF UrlRecord, Kept, UrlMembers
  <2>3. Kept(url, url', UrlMembers \ {"host", "path", "query"})
    BY <2>2 DEF Kept
  <2> QED
    BY <2>3, KeptInLine
<1>3. ASSUME NEW text \in UrlInputs.ports, SetPort(text) PROVE UrlInLine(url')
  <2>1. url' = WithPort(url, text) /\ text \in Text
    BY <1>3, TextsAreInputs DEF SetPort, Put
  <2>2. Kept(url, url', {"port", "local"})
    BY <2>1, WithPortKeeps
  <2>3. Kept(url, url', UrlMembers \ {"host", "path", "query"})
    BY <2>2 DEF Kept
  <2> QED
    BY <2>3, KeptInLine
<1>4. ASSUME NEW path \in UrlInputs.paths, SetPath(path) PROVE UrlInLine(url')
  <2> DEFINE chars == Special \ {"/"}
             text == EncodeOnly(path, chars)
  <2>1. path \in InLine /\ chars \in SUBSET Special
    BY DEF OwnLines
  <2>2. url' = [url EXCEPT !.path = text]
    BY <1>4 DEF SetPath, Put
  <2> HIDE DEF chars
  <2>3. text \in InLine
    BY <2>1, EncodedInLine
  <2> HIDE DEF text
  <2>4. url'.host = url.host /\ url'.path = text /\ url'.query = url.query
    BY <2>2 DEF UrlRecord
  <2> QED
    BY <2>3, <2>4 DEF UrlInLine
<1>5. ASSUME NEW query \in UrlInputs.queries, SetQuery(query) PROVE UrlInLine(url')
  <2> DEFINE chars == Special \ {"&", "=", ";"}
             text == EncodeOnly(query, chars)
  <2>1. query \in InLine /\ chars \in SUBSET Special
    BY Zenon DEF OwnLines
  <2>2. url' = [url EXCEPT !.query = text]
    BY <1>5, Zenon DEF SetQuery, Put
  <2> HIDE DEF chars
  <2>3. text \in InLine
    BY <2>1, EncodedInLine
  <2> HIDE DEF text
  <2>4. url'.host = url.host /\ url'.path = url.path /\ url'.query = text
    BY <2>2 DEF UrlRecord
  <2> QED
    BY <2>3, <2>4 DEF UrlInLine
<1>6. ASSUME NEW fragment \in UrlInputs.fragments, SetFragment(fragment)
      PROVE  UrlInLine(url')
  <2> DEFINE text == EncodeOnly(fragment, Special)
  <2>1. url' = [url EXCEPT !.fragment = text]
    BY <1>6 DEF SetFragment, Put
  <2> HIDE DEF text
  <2>2. Kept(url, url', {"fragment"})
    BY <2>1 DEF UrlRecord, Kept, UrlMembers
  <2>3. Kept(url, url', UrlMembers \ {"host", "path", "query"})
    BY <2>2 DEF Kept
  <2> QED
    BY <2>3, KeptInLine
<1>7. CASE UrlNext
  BY <1>1, <1>2, <1>3, <1>4, <1>5, <1>6, <1>7, AuthorityCallInLine DEF UrlNext
<1>8. UrlNext \/ UNCHANGED url
  BY RequestCallsLeaveUrl DEF messageVars, urlVars
<1> QED
  BY <1>7, <1>8

\* What a request holds until its data is composed, and that its data fits from then on.
LinesInv ==
  /\ UrlInLine(url)
  /\ request # None =>
       IF request.composed THEN LengthFits(request.data) ELSE OwnRequest(request)

LEMMA MadeInLine ==
  ASSUME UrlInLine(url), NEW kind
  PROVE  ~Make(kind).composed /\ OwnRequest(Make(kind))
<1> DEFINE bad == \/ ~url.valid
                  \/ /\ url.scheme \notin {<<"http">>, <<"https">>}
                     /\ url.port \notin {<<"80">>, <<"443">>}
           headers == IF bad THEN <<>> ELSE <<Field("host", url.host)>>
           none == <<>>
           r == Make(kind)
<1>1. r.url = url /\ r.headers = headers /\ r.data = none /\ ~r.composed
  BY DEF Make
<1>2. headers \in Seq(OwnFields)
  <2>1. url.host \in InLine /\ url.host \in Text
    BY TextsInLine DEF UrlInLine
  <2> DEFINE host == Field("host", url.host)
  <2>2. host \in Fields /\ host.name = "host" /\ host.value = url.host
    BY <2>1, WordsInLine DEF Field, Fields
  <2> HIDE DEF host
  <2>3. host \in OwnFields
    BY <2>1, <2>2, WordsInLine DEF OwnFields
  <2>4. <<host>> \in Seq(OwnFields) /\ <<>> \in Seq(OwnFields)
    BY <2>3, EmptySeq
  <2> QED
    BY <2>4 DEF host
<1>3. none \in OwnData
  BY TextsInLine DEF OwnData
<1> HIDE DEF headers, none, r
<1>4. ~r.composed /\ OwnRequest(r)
  BY <1>1, <1>2, <1>3 DEF OwnRequest, UrlInLine
<1> QED
  BY <1>4 DEF r

LEMMA LinesInvNext ==
  ASSUME OwnLines, LengthsAreInLine, AddressInv, RequestInv, ParamsInv, LinesInv,
         [MessageNext]_messageVars
  PROVE  LinesInv'
<1> DEFINE r == request
           s == request'
           Fits == IF s.composed THEN LengthFits(s.data) ELSE OwnRequest(s)
<1>1. UrlInLine(url')
  BY UrlStaysInLine DEF LinesInv, AddressInv
<1>2. CASE request = None
  <2>1. ASSUME NEW kind \in Kinds, s = Make(kind)
        PROVE  Fits
    BY <2>1, MadeInLine DEF LinesInv
  <2> HIDE DEF Fits
  <2>2. s # None => Fits
    BY <1>2, <2>1, FirstSteps
  <2> QED
    BY <1>1, <2>2 DEF LinesInv, Fits, UrlInLine, LengthFits, OwnRequest
<1>3. CASE request # None
  <2>1. IsRequest(r) /\ r = [f \in Members |-> r[f]] /\ r.params \in Seq(HttpInputs.params)
    <3>1. IsRequest(r) /\ r.params \in Seq(HttpInputs.params)
      BY <1>3 DEF RequestInv, ParamsInv
    <3> QED
      BY <3>1 DEF IsRequest
  <2>2. IF r.composed THEN LengthFits(r.data) ELSE OwnRequest(r)
    BY <1>3 DEF LinesInv
  <2> HIDE DEF r, s
  <2>3. ASSUME NEW field \in HttpInputs.headers, s = [r EXCEPT !.headers = Append(r.headers, field)]
        PROVE  Fits
    <3> DEFINE headers == Append(r.headers, field)
    <3>1. field \in OwnFields
      BY DEF OwnLines
    <3>2. ~r.composed => headers \in Seq(OwnFields)
      <4>1. ~r.composed => r.headers \in Seq(OwnFields)
        BY <2>2 DEF OwnRequest
      <4> QED
        BY <3>1, <4>1, AppendProperties
    <3>3. s = [r EXCEPT !.headers = headers]
      BY <2>3
    <3> HIDE DEF headers
    <3>4. /\ s.composed = r.composed /\ s.data = r.data /\ s.url = r.url
          /\ s.headers = headers
      BY <2>1, <3>3 DEF Members
    <3> QED
      BY <2>2, <3>2, <3>4 DEF OwnRequest
  <2>4. ASSUME NEW x, NEW y,
               \/ s = r
               \/ s = [r EXCEPT !.params = x]
               \/ s = [r EXCEPT !.body = x]
               \/ s = [r EXCEPT !.ssl = x]
               \/ s = [r EXCEPT !.head = x, !.response = y]
        PROVE  Fits
    <3>1. /\ s.composed = r.composed /\ s.data = r.data /\ s.url = r.url
          /\ s.headers = r.headers
      BY <2>1, <2>4 DEF Members
    <3> QED
      BY <2>2, <3>1 DEF OwnRequest
  <2>5. ASSUME NEW data \in HttpInputs.data, s = [r EXCEPT !.data = data]
        PROVE  Fits
    <3>1. data \in OwnData /\ data \in InLine
      BY DEF OwnLines, OwnData
    <3>2. LengthFits(data)
      BY <3>1, NoHeadInLine
    <3>3. /\ s.composed = r.composed /\ s.data = data /\ s.url = r.url
          /\ s.headers = r.headers
      BY <2>1, <2>5 DEF Members
    <3> QED
      BY <2>2, <3>1, <3>2, <3>3 DEF OwnRequest
  <2>6. ASSUME s = requestData(r)
        PROVE  Fits
    <3>1. CASE r.composed
      <4>1. s = r
        BY <2>6, <3>1 DEF requestData
      <4> QED
        BY <2>2, <4>1
    <3>2. CASE ~r.composed
      <4>1. s.composed /\ s.data = DataOf(r)
        BY <2>1, <2>6, <3>2, requestDataMakes
      <4>2. LengthFits(DataOf(r))
        BY <2>1, <2>2, <3>2, DataFits
      <4> QED
        BY <4>1, <4>2
    <3> QED
      BY <3>1, <3>2
  <2>7. Fits
    <3> HIDE DEF Fits
    <3> QED
      BY <1>3, <2>3, <2>4, <2>5, <2>6, RequestSteps, Zenon DEF r, s
  <2> QED
    BY <1>1, <2>7 DEF LinesInv, Fits, s, UrlInLine, LengthFits, OwnRequest
<1> QED
  BY <1>2, <1>3

\* src/http_request.cpp:120-170: the Content-Length that is sent is the length of the
\* body that is sent, however the body came about and whatever is called on the Url
\* and the request before and after, if the client gives no end of a line but in a
\* body or a form, and writes no Content-Length itself.
THEOREM LengthAlwaysMatchesBody ==
  ASSUME OwnLines, LengthsAreInLine
  PROVE  MessageSpec => []LengthMatchesBody
<1>1. MessageInit => RequestInv /\ ParamsInv /\ LinesInv
  BY UrlStartsInLine DEF MessageInit, RequestInv, ParamsInv, LinesInv
<1>2. AddressInv /\ RequestInv /\ [MessageNext]_messageVars => RequestInv'
  BY RequestInvNext DEF LengthsAreInLine, LengthsAreWords
<1>3. RequestInv /\ ParamsInv /\ [MessageNext]_messageVars => ParamsInv'
  BY ParamsInvNext
<1>4. AddressInv /\ RequestInv /\ ParamsInv /\ LinesInv /\ [MessageNext]_messageVars
        => LinesInv'
  BY LinesInvNext
<1>5. LinesInv => LengthMatchesBody
  BY LengthIsMatched DEF LinesInv
<1> QED
  BY <1>1, <1>2, <1>3, <1>4, <1>5, AddressInvHolds, PTL DEF MessageSpec
=============================================================================
