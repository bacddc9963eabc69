--------------------------- MODULE SequenceLemmas ---------------------------
(***************************************************************************)
(* Lemmas about sequences: their elements, what is put together or taken out,   *)
(* ascending and consecutive numbers, and what FlattenSeq, with which the       *)
(* modules gather the words of heartbeat frames and the contents of files,      *)
(* computes for every sequence of sequences.  FlattenSeq is a recursive          *)
(* function; what it satisfies is proved by induction on the length, in the     *)
(* form of a least counterexample.                                           *)
(***************************************************************************)
EXTENDS Integers, SequencesExt, WellFoundedInduction, SequenceTheorems, TLAPS

(* A set of natural numbers that is not empty has a least element.             *)
LEMMA LeastElement ==
  ASSUME NEW T, T \subseteq Nat, T # {}
  PROVE  \E x \in T : \A y \in T : x <= y
<1> DEFINE R == OpToRel(<, Nat)
<1>1. \A x, y \in Nat : <<x, y>> \in R <=> x < y
  BY DEF OpToRel
<1>2. IsWellFoundedOn(R, Nat)
  BY NatLessThanWellFounded
<1> HIDE DEF R
<1>3. PICK x \in T : \A y \in T : ~ (<<y, x>> \in R)
  BY <1>2, WFMin
<1>4. ASSUME NEW y \in T PROVE x <= y
  <2>1. x \in Nat /\ y \in Nat /\ ~ (y < x)
    BY <1>1, <1>3
  <2> QED BY <2>1
<1> QED BY <1>3, <1>4

-----------------------------------------------------------------------------
(* The first and the rest of a sequence.                                          *)
LEMMA Parts ==
  ASSUME NEW S, NEW q \in Seq(S), q # <<>>
  PROVE  Head(q) \in S /\ Tail(q) \in Seq(S)
OBVIOUS

(* The elements of sequences that are put together or taken apart.                         *)
LEMMA ElementsOfBoth ==
  ASSUME NEW S, NEW s \in Seq(S), NEW t \in Seq(S)
  PROVE  ToSet(s \o t) = ToSet(s) \cup ToSet(t)
<1>1. DOMAIN (s \o t) = 1 .. Len(s) + Len(t) /\ DOMAIN s = 1 .. Len(s) /\ DOMAIN t = 1 .. Len(t)
      /\ Len(s) \in Nat /\ Len(t) \in Nat
  OBVIOUS
<1>2. \A i \in 1 .. Len(s) : (s \o t)[i] = s[i]
  OBVIOUS
<1>3. \A i \in 1 .. Len(t) : (s \o t)[Len(s) + i] = t[i] /\ Len(s) + i \in 1 .. Len(s) + Len(t)
  OBVIOUS
<1>4. \A i \in 1 .. Len(s) + Len(t) : i \in 1 .. Len(s) \/ \E j \in 1 .. Len(t) : i = Len(s) + j
  <2> SUFFICES ASSUME NEW i \in 1 .. Len(s) + Len(t), i \notin 1 .. Len(s)
               PROVE  \E j \in 1 .. Len(t) : i = Len(s) + j
    OBVIOUS
  <2>1. i - Len(s) \in 1 .. Len(t) /\ i = Len(s) + (i - Len(s))
    BY <1>1
  <2> QED BY <2>1
<1>5. ASSUME NEW y \in ToSet(s \o t) PROVE y \in ToSet(s) \cup ToSet(t)
  <2>1. PICK i \in 1 .. Len(s) + Len(t) : y = (s \o t)[i]
    BY <1>1 DEF ToSet
  <2> QED BY <1>1, <1>2, <1>3, <1>4, <2>1 DEF ToSet
<1>6. ASSUME NEW y \in ToSet(s) PROVE y \in ToSet(s \o t)
  <2>1. PICK i \in 1 .. Len(s) : y = s[i]
    BY <1>1 DEF ToSet
  <2>2. i \in 1 .. Len(s) + Len(t) /\ y = (s \o t)[i]
    BY <1>1, <1>2, <2>1
  <2> QED BY <1>1, <2>2 DEF ToSet
<1>7. ASSUME NEW y \in ToSet(t) PROVE y \in ToSet(s \o t)
  <2>1. PICK i \in 1 .. Len(t) : y = t[i]
    BY <1>1 DEF ToSet
  <2> QED BY <1>1, <1>3, <2>1 DEF ToSet
<1> QED BY <1>5, <1>6, <1>7

(* One element more. *)
LEMMA ElementsOfLonger ==
  ASSUME NEW S, NEW s \in Seq(S), NEW x \in S
  PROVE  ToSet(Append(s, x)) = ToSet(s) \cup {x}
<1>1. Append(s, x) \in Seq(S) /\ Len(Append(s, x)) = Len(s) + 1 /\ Append(s, x)[Len(s) + 1] = x
      /\ \A i \in 1 .. Len(s) : Append(s, x)[i] = s[i]
  OBVIOUS
<1>2. DOMAIN Append(s, x) = 1 .. Len(s) + 1 /\ DOMAIN s = 1 .. Len(s) /\ Len(s) \in Nat
  OBVIOUS
<1>3. \A i \in 1 .. Len(s) + 1 : i \in 1 .. Len(s) \/ i = Len(s) + 1
  BY <1>2
<1>4. \A i \in 1 .. Len(s) : i \in 1 .. Len(s) + 1
  BY <1>2
<1>5. Len(s) + 1 \in 1 .. Len(s) + 1
  BY <1>2
<1> QED BY <1>1, <1>2, <1>3, <1>4, <1>5 DEF ToSet

(* The first element and those behind it. *)
LEMMA ElementsOfRest ==
  ASSUME NEW S, NEW s \in Seq(S), s # <<>>
  PROVE  ToSet(Tail(s)) \subseteq ToSet(s) /\ Head(s) \in ToSet(s)
<1>1. /\ DOMAIN s = 1 .. Len(s) /\ 1 \in 1 .. Len(s) /\ Head(s) = s[1]
      /\ DOMAIN Tail(s) = 1 .. Len(s) - 1
      /\ \A i \in 1 .. Len(s) - 1 : Tail(s)[i] = s[i + 1] /\ i + 1 \in 1 .. Len(s)
  OBVIOUS
<1> QED BY <1>1 DEF ToSet

(* Sequences that are equal because their elements are.                             *)
LEMMA IsLonger ==
  ASSUME NEW S, NEW s \in Seq(S), NEW x \in S, NEW t \in Seq(S), Len(t) = Len(s) + 1,
         \A i \in 1 .. Len(s) : t[i] = s[i], t[Len(s) + 1] = x
  PROVE  t = Append(s, x)
<1> DEFINE a == Append(s, x)
<1>1. Len(a) = Len(s) + 1 /\ a \in Seq(S) /\ a[Len(s) + 1] = x /\ Len(s) \in Nat
      /\ \A i \in 1 .. Len(s) : a[i] = s[i]
  OBVIOUS
<1> HIDE DEF a
<1>2. \A i \in 1 .. Len(t) : t[i] = a[i]
  BY <1>1
<1>3. t = a
  BY <1>1, <1>2, SeqEqual
<1> QED BY <1>3 DEF a

(* The same for two sequences, one after the other. *)
LEMMA IsBoth ==
  ASSUME NEW S, NEW s \in Seq(S), NEW r \in Seq(S), NEW t \in Seq(S), Len(t) = Len(s) + Len(r),
         \A i \in 1 .. Len(s) : t[i] = s[i], \A i \in 1 .. Len(r) : t[Len(s) + i] = r[i]
  PROVE  t = s \o r
<1> DEFINE a == s \o r
<1>1. Len(a) = Len(s) + Len(r) /\ a \in Seq(S) /\ Len(s) \in Nat /\ Len(r) \in Nat
      /\ (\A i \in 1 .. Len(s) : a[i] = s[i]) /\ \A i \in 1 .. Len(r) : a[Len(s) + i] = r[i]
  OBVIOUS
<1> HIDE DEF a
<1>2. ASSUME NEW i \in 1 .. Len(t) PROVE t[i] = a[i]
  <2>1. CASE i <= Len(s)
    BY <1>1, <2>1
  <2>2. CASE i > Len(s)
    <3> DEFINE k == i - Len(s)
    <3>1. k \in 1 .. Len(r) /\ i = Len(s) + k
      BY <1>1, <2>2
    <3> HIDE DEF k
    <3> QED BY <1>1, <3>1
  <2> QED BY <1>1, <2>1, <2>2
<1>3. t = a
  BY <1>1, <1>2, SeqEqual
<1> QED BY <1>3 DEF a

(* Putting sequences together. *)
LEMMA Together ==
  ASSUME NEW S
  PROVE  /\ \A a, b \in Seq(S) : a \o b \in Seq(S)
         /\ \A a, b, c \in Seq(S) : (a \o b) \o c = a \o (b \o c)
         /\ \A a \in Seq(S) : a \o <<>> = a /\ <<>> \o a = a
BY ConcatAssociative

(* An element behind two sequences is behind the second one. *)
LEMMA LongerBehind ==
  ASSUME NEW S, NEW a \in Seq(S), NEW b \in Seq(S), NEW x \in S
  PROVE  a \o Append(b, x) = Append(a \o b, x)
<1>1. <<x>> \in Seq(S) /\ Append(b, x) = b \o <<x>>
  OBVIOUS
<1>2. a \o b \in Seq(S)
  OBVIOUS
<1>3. Append(a \o b, x) = (a \o b) \o <<x>>
  BY <1>2, AppendIsConcat
<1> QED BY <1>1, <1>3, Together

(* Concatenation under a name of its own, for what follows from these laws alone.    *)
Cat(a, b) == a \o b

(* They are associativity and what is empty. *)
LEMMA CatLaws ==
  ASSUME NEW S
  PROVE  /\ \A a, b \in Seq(S) : Cat(a, b) \in Seq(S)
         /\ \A a, b, c \in Seq(S) : Cat(Cat(a, b), c) = Cat(a, Cat(b, c))
         /\ \A a \in Seq(S) : Cat(a, <<>>) = a /\ Cat(<<>>, a) = a
BY Together DEF Cat

(* A sequence without one element in the middle. *)
LEMMA WithoutOne ==
  ASSUME NEW S, NEW s \in Seq(S), NEW h \in S, NEW t \in Seq(S)
  PROVE  LET a == s \o (<<h>> \o t)
             b == s \o t
         IN  /\ Len(s) \in Nat /\ Len(t) \in Nat
             /\ Len(a) = Len(s) + Len(t) + 1 /\ Len(b) = Len(s) + Len(t)
             /\ a[Len(s) + 1] = h
             /\ \A i \in 1 .. Len(b) : b[i] = IF i <= Len(s) THEN a[i] ELSE a[i + 1]
<1> DEFINE ht == <<h>> \o t
           a == s \o ht
           b == s \o t
           l == Len(s)
           m == Len(t)
<1>1. /\ l \in Nat /\ m \in Nat /\ ht \in Seq(S) /\ Len(ht) = m + 1 /\ ht[1] = h
      /\ \A i \in 1 .. m : ht[i + 1] = t[i]
  OBVIOUS
<1>2. /\ Len(b) = l + m
      /\ \A i \in 1 .. l : b[i] = s[i]
      /\ \A i \in 1 .. m : b[l + i] = t[i]
  OBVIOUS
<1>3. /\ Len(a) = l + (m + 1)
      /\ \A i \in 1 .. l : a[i] = s[i]
      /\ \A i \in 1 .. m + 1 : a[l + i] = ht[i]
  <2>1. ASSUME NEW r \in Seq(S)
        PROVE  /\ Len(s \o r) = l + Len(r)
               /\ \A i \in 1 .. l : (s \o r)[i] = s[i]
               /\ \A i \in 1 .. Len(r) : (s \o r)[l + i] = r[i]
    OBVIOUS
  <2> HIDE DEF ht, l, m
  <2> QED BY <1>1, <2>1
<1> HIDE DEF a, b, ht, l, m
<1>4. a[l + 1] = h
  BY <1>1, <1>3
<1>5. ASSUME NEW i \in 1 .. Len(b) PROVE b[i] = IF i <= l THEN a[i] ELSE a[i + 1]
  <2>1. CASE i <= l
    BY <1>1, <1>2, <1>3, <2>1
  <2>2. CASE i > l
    <3> DEFINE k == i - l
    <3>1. k \in 1 .. m /\ i = l + k /\ k + 1 \in 1 .. m + 1 /\ i + 1 = l + (k + 1)
      BY <1>1, <1>2, <2>2
    <3> HIDE DEF k
    <3>2. b[l + k] = t[k] /\ a[l + (k + 1)] = ht[k + 1] /\ ht[k + 1] = t[k]
      BY <1>1, <1>2, <1>3, <3>1
    <3> QED BY <1>1, <2>2, <3>1, <3>2
  <2> QED BY <1>1, <1>2, <2>1, <2>2
<1>6. Len(a) = l + m + 1
  BY <1>1, <1>3
<1> QED BY <1>1, <1>2, <1>4, <1>5, <1>6 DEF a, b, ht, l, m

-----------------------------------------------------------------------------
(* f lists the concatenations of the first one, two, ... sequences of q.        *)
Concats(f, q) ==
  f = [i \in 1 .. Len(q) |-> IF i = 1 THEN q[i] ELSE f[i - 1] \o q[i]]

(* One more sequence is one more concatenation. *)
LEMMA ConcatsLonger ==
  ASSUME NEW S, NEW q \in Seq(Seq(S)), NEW f, Concats(f, q), NEW x \in Seq(S)
  PROVE  \E g : Concats(g, Append(q, x))
<1> DEFINE n == Len(q)
           g == [i \in 1 .. n + 1 |-> IF i = n + 1 THEN (IF n = 0 THEN x ELSE f[n] \o x)
                                                   ELSE f[i]]
           a == Append(q, x)
           h == [i \in 1 .. Len(a) |-> IF i = 1 THEN a[i] ELSE g[i - 1] \o a[i]]
<1>1. n \in Nat /\ Len(a) = n + 1 /\ a[n + 1] = x /\ \A i \in 1 .. n : a[i] = q[i]
  OBVIOUS
<1>2. \A i \in 1 .. n : f[i] = IF i = 1 THEN q[i] ELSE f[i - 1] \o q[i]
  BY DEF Concats
<1> HIDE DEF a
<1>3. ASSUME NEW i \in 1 .. n + 1 PROVE g[i] = h[i]
  <2>0. h[i] = IF i = 1 THEN a[i] ELSE g[i - 1] \o a[i]
    BY <1>1, <1>3
  <2>1. CASE i = n + 1
    <3>1. CASE n = 0
      BY <1>1, <2>0, <2>1, <3>1
    <3>2. CASE n # 0
      <4>1. i - 1 \in 1 .. n + 1 /\ i - 1 # n + 1 /\ i - 1 = n /\ i # 1
        BY <1>1, <2>1, <3>2
      <4>2. g[i - 1] = f[n]
        BY <4>1
      <4> QED BY <1>1, <2>0, <2>1, <3>2, <4>1, <4>2
    <3> QED BY <3>1, <3>2
  <2>2. CASE i # n + 1
    <3>1. i \in 1 .. n /\ g[i] = f[i] /\ a[i] = q[i]
      BY <1>1, <1>3, <2>2
    <3>2. i # 1 => i - 1 \in 1 .. n + 1 /\ i - 1 # n + 1
      BY <1>1, <3>1
    <3>3. i # 1 => g[i - 1] = f[i - 1]
      BY <3>2
    <3> QED BY <1>2, <2>0, <3>1, <3>3
  <2> QED BY <2>1, <2>2
<1>4. g = h
  <2>1. DOMAIN h = 1 .. n + 1
    BY <1>1
  <2> QED BY <1>3, <2>1, ZenonT(60)
<1>5. Concats(g, a)
  BY <1>4 DEF Concats
<1> QED BY <1>5 DEF a

(* The list of concatenations exists.                                            *)
LEMMA ConcatsExist ==
  ASSUME NEW S, NEW q \in Seq(Seq(S))
  PROVE  \E f : Concats(f, q)
<1> DEFINE p(n) == SubSeq(q, 1, n)
           T == {n \in 0 .. Len(q) : ~ \E f : Concats(f, p(n))}
<1>1. SUFFICES ASSUME T # {} PROVE FALSE
  <2>1. Len(q) \notin T
    BY <1>1
  <2>2. p(Len(q)) = q /\ Len(q) \in 0 .. Len(q)
    OBVIOUS
  <2> HIDE DEF p
  <2> QED BY <2>1, <2>2
<1>2. PICK x \in T : \A y \in T : x <= y
  <2>1. T \subseteq Nat
    OBVIOUS
  <2> HIDE DEF T
  <2> QED BY <1>1, <2>1, LeastElement
<1>3. x \in 0 .. Len(q) /\ ~ \E f : Concats(f, p(x))
  BY <1>2
<1>4. CASE x = 0
  <2>1. Concats([i \in {} |-> 0], p(x))
    BY <1>4 DEF Concats
  <2> QED BY <1>3, <2>1
<1>5. CASE x # 0
  <2>1. x - 1 \in 0 .. Len(q) /\ ~ (x <= x - 1)
    BY <1>3, <1>5
  <2>2. PICK f : Concats(f, p(x - 1))
    <3>1. x - 1 \notin T
      BY <1>2, <2>1
    <3> QED BY <2>1, <3>1
  <2>3. p(x - 1) \in Seq(Seq(S)) /\ q[x] \in Seq(S) /\ p(x) = Append(p(x - 1), q[x])
    BY <1>3, <1>5
  <2> HIDE DEF p, T
  <2> QED BY <1>3, <2>2, <2>3, ConcatsLonger
<1> QED BY <1>4, <1>5

(* The concatenations are sequences.                                             *)
LEMMA ConcatsType ==
  ASSUME NEW S, NEW q \in Seq(Seq(S)), NEW f, Concats(f, q)
  PROVE  \A i \in 1 .. Len(q) : f[i] \in Seq(S)
<1> DEFINE T == {n \in 1 .. Len(q) : f[n] \notin Seq(S)}
<1>1. SUFFICES ASSUME T # {} PROVE FALSE
  BY <1>1
<1>2. PICK x \in T : \A y \in T : x <= y
  <2>1. T \subseteq Nat
    OBVIOUS
  <2> HIDE DEF T
  <2> QED BY <1>1, <2>1, LeastElement
<1>3. f[x] = IF x = 1 THEN q[x] ELSE f[x - 1] \o q[x]
  BY <1>2 DEF Concats
<1>4. x # 1 => x - 1 \in 1 .. Len(q) /\ ~ (x <= x - 1)
  BY <1>2
<1>5. x # 1 => f[x - 1] \in Seq(S)
  BY <1>2, <1>4
<1>6. q[x] \in Seq(S) /\ f[x] \notin Seq(S)
  BY <1>2
<1> QED BY <1>3, <1>5, <1>6

(* One more sequence leaves the first concatenations as they are.                  *)
LEMMA ConcatsAgree ==
  ASSUME NEW S, NEW q \in Seq(Seq(S)), NEW f, Concats(f, q),
         NEW x \in Seq(S), NEW g, Concats(g, Append(q, x))
  PROVE  \A i \in 1 .. Len(q) : f[i] = g[i]
<1> DEFINE T == {i \in 1 .. Len(q) : f[i] # g[i]}
<1>1. SUFFICES ASSUME T # {} PROVE FALSE
  BY <1>1
<1>2. PICK i \in T : \A y \in T : i <= y
  <2>1. T \subseteq Nat
    OBVIOUS
  <2> HIDE DEF T
  <2> QED BY <1>1, <2>1, LeastElement
<1>3. i \in 1 .. Len(q) /\ i \in 1 .. Len(Append(q, x)) /\ Append(q, x)[i] = q[i]
  BY <1>2
<1>4. /\ f[i] = IF i = 1 THEN q[i] ELSE f[i - 1] \o q[i]
      /\ g[i] = IF i = 1 THEN q[i] ELSE g[i - 1] \o q[i]
  BY <1>3 DEF Concats
<1>5. i # 1 => i - 1 \in 1 .. Len(q) /\ ~ (i <= i - 1)
  BY <1>2
<1>6. i # 1 => f[i - 1] = g[i - 1]
  BY <1>2, <1>5
<1>7. f[i] # g[i]
  BY <1>2
<1> QED BY <1>4, <1>6, <1>7

-----------------------------------------------------------------------------
(* FlattenSeq gives the last of the concatenations.                               *)
LEMMA FlattenIsLast ==
  ASSUME NEW S, NEW q \in Seq(Seq(S)), q # <<>>
  PROVE  \E f : Concats(f, q) /\ FlattenSeq(q) = f[Len(q)]
<1> DEFINE F == CHOOSE f : Concats(f, q)
<1>1. Concats(F, q)
  BY ConcatsExist
<1>2. Len(q) # 0
  OBVIOUS
<1>3. FlattenSeq(q) = F[Len(q)]
  BY <1>2 DEF FlattenSeq, Concats
<1> QED BY <1>1, <1>3

(* Nothing flattens to nothing.                                                   *)
LEMMA FlattenEmpty == FlattenSeq(<<>>) = <<>>
BY DEF FlattenSeq

(* A sequence of sequences of elements flattens to a sequence of elements.         *)
LEMMA FlattenType ==
  ASSUME NEW S, NEW q \in Seq(Seq(S))
  PROVE  FlattenSeq(q) \in Seq(S)
<1>1. CASE q = <<>>
  <2>1. FlattenSeq(q) = <<>>
    BY <1>1, FlattenEmpty
  <2> QED BY <2>1
<1>2. CASE q # <<>>
  <2>1. PICK f : Concats(f, q) /\ FlattenSeq(q) = f[Len(q)]
    BY <1>2, FlattenIsLast
  <2>2. Len(q) \in 1 .. Len(q)
    BY <1>2
  <2> QED BY <2>1, <2>2, ConcatsType
<1> QED BY <1>1, <1>2

(* The last sequence goes to the end.                                             *)
LEMMA FlattenAppend ==
  ASSUME NEW S, NEW q \in Seq(Seq(S)), NEW x \in Seq(S)
  PROVE  FlattenSeq(Append(q, x)) = FlattenSeq(q) \o x
<1> DEFINE a == Append(q, x)
           m == Len(a)
<1>1. a \in Seq(Seq(S)) /\ a # <<>>
  BY AppendProperties
<1>2. Len(q) \in Nat /\ m = Len(q) + 1 /\ a[m] = x
  OBVIOUS
<1>3. PICK g : Concats(g, a) /\ FlattenSeq(a) = g[m]
  BY <1>1, FlattenIsLast
<1>4. g[m] = IF m = 1 THEN x ELSE g[m - 1] \o x
  <2>1. \A i \in 1 .. m : g[i] = IF i = 1 THEN a[i] ELSE g[i - 1] \o a[i]
    BY <1>3 DEF Concats
  <2> HIDE DEF m, a
  <2>2. m \in 1 .. m
    BY <1>2
  <2> QED BY <1>2, <2>1, <2>2
<1>5. CASE q = <<>>
  <2>1. m = 1 /\ x = <<>> \o x
    BY <1>5
  <2> HIDE DEF m
  <2> QED BY <1>3, <1>4, <1>5, <2>1, FlattenEmpty
<1>6. CASE q # <<>>
  <2>1. PICK f : Concats(f, q) /\ FlattenSeq(q) = f[Len(q)]
    BY <1>6, FlattenIsLast
  <2>2. Len(q) \in 1 .. Len(q) /\ m # 1 /\ m - 1 = Len(q)
    BY <1>2, <1>6
  <2>3. f[Len(q)] = g[Len(q)]
    BY <1>3, <2>1, <2>2, ConcatsAgree
  <2> HIDE DEF m
  <2> QED BY <1>3, <1>4, <2>1, <2>2, <2>3
<1> QED BY <1>5, <1>6

(* One sequence flattens to itself.                                               *)
LEMMA FlattenOne ==
  ASSUME NEW S, NEW x \in Seq(S)
  PROVE  FlattenSeq(<<x>>) = x
<1>1. <<>> \in Seq(Seq(S)) /\ Append(<<>>, x) = <<x>> /\ <<>> \o x = x
  OBVIOUS
<1>2. FlattenSeq(Append(<<>>, x)) = FlattenSeq(<<>>) \o x
  BY <1>1, FlattenAppend
<1> QED BY <1>1, <1>2, FlattenEmpty

(* Flattening distributes over concatenation.                                     *)
LEMMA FlattenConcat ==
  ASSUME NEW S, NEW q \in Seq(Seq(S)), NEW r \in Seq(Seq(S))
  PROVE  FlattenSeq(q \o r) = FlattenSeq(q) \o FlattenSeq(r)
<1> DEFINE p(n) == SubSeq(r, 1, n)
           T == {n \in 0 .. Len(r) : FlattenSeq(q \o p(n)) # FlattenSeq(q) \o FlattenSeq(p(n))}
<1>1. SUFFICES ASSUME T # {} PROVE FALSE
  <2>1. p(Len(r)) = r /\ Len(r) \in 0 .. Len(r)
    OBVIOUS
  <2> HIDE DEF p
  <2> QED BY <1>1, <2>1
<1>2. PICK n \in T : \A y \in T : n <= y
  <2>1. T \subseteq Nat
    OBVIOUS
  <2> HIDE DEF T
  <2> QED BY <1>1, <2>1, LeastElement
<1>3. n \in 0 .. Len(r) /\ FlattenSeq(q \o p(n)) # FlattenSeq(q) \o FlattenSeq(p(n))
  BY <1>2
<1>4. FlattenSeq(q) \in Seq(S)
  BY FlattenType
<1>5. CASE n = 0
  <2>1. p(n) = <<>> /\ q \o <<>> = q /\ FlattenSeq(q) \o <<>> = FlattenSeq(q)
    BY <1>4, <1>5
  <2> HIDE DEF p
  <2> QED BY <1>3, <2>1, FlattenEmpty
<1>6. CASE n # 0
  <2>1. n - 1 \in 0 .. Len(r) /\ ~ (n <= n - 1)
    BY <1>3, <1>6
  <2>2. n - 1 \notin T
    BY <1>2, <2>1
  <2>3. FlattenSeq(q \o p(n - 1)) = FlattenSeq(q) \o FlattenSeq(p(n - 1))
    BY <2>1, <2>2
  <2>4. p(n - 1) \in Seq(Seq(S)) /\ r[n] \in Seq(S) /\ p(n) = Append(p(n - 1), r[n])
    BY <1>3, <1>6
  <2> HIDE DEF p, T
  <2>5. q \o p(n) = Append(q \o p(n - 1), r[n]) /\ q \o p(n - 1) \in Seq(Seq(S))
    BY <2>4, SMTT(30)
  <2>6. FlattenSeq(q \o p(n)) = FlattenSeq(q \o p(n - 1)) \o r[n]
    BY <2>4, <2>5, FlattenAppend
  <2>7. FlattenSeq(p(n)) = FlattenSeq(p(n - 1)) \o r[n] /\ FlattenSeq(p(n - 1)) \in Seq(S)
    BY <2>4, FlattenAppend, FlattenType
  <2>8. (FlattenSeq(q) \o FlattenSeq(p(n - 1))) \o r[n]
          = FlattenSeq(q) \o (FlattenSeq(p(n - 1)) \o r[n])
    <3>1. \A a, b, c \in Seq(S) : (a \o b) \o c = a \o (b \o c)
      BY Together, Zenon
    <3> QED BY <1>4, <2>4, <2>7, <3>1
  <2> QED BY <1>3, <2>3, <2>6, <2>7, <2>8
<1> QED BY <1>5, <1>6

(* The first sequence is the beginning.                                           *)
LEMMA FlattenHead ==
  ASSUME NEW S, NEW q \in Seq(Seq(S)), q # <<>>
  PROVE  FlattenSeq(q) = Head(q) \o FlattenSeq(Tail(q))
<1>1. Head(q) \in Seq(S) /\ Tail(q) \in Seq(Seq(S)) /\ <<Head(q)>> \in Seq(Seq(S))
      /\ q = <<Head(q)>> \o Tail(q)
  OBVIOUS
<1>2. FlattenSeq(<<Head(q)>> \o Tail(q)) = FlattenSeq(<<Head(q)>>) \o FlattenSeq(Tail(q))
  BY <1>1, FlattenConcat
<1> QED BY <1>1, <1>2, FlattenOne

-----------------------------------------------------------------------------
(* Numbers that ascend, up to n.                                                  *)
AscendsTo(s, n) ==
  /\ \A i \in 1 .. Len(s) : s[i] <= n
  /\ \A i, j \in 1 .. Len(s) : i < j => s[i] < s[j]

(* What is taken out of an ascending sequence leaves the rest ascending.           *)
LEMMA AscendsWithout ==
  ASSUME NEW a \in Seq(Nat), NEW b \in Seq(Nat), NEW c \in Seq(Nat), NEW n \in Nat,
         AscendsTo((a \o b) \o c, n)
  PROVE  AscendsTo(a \o c, n)
<1> DEFINE la == Len(a)
           lb == Len(b)
           lc == Len(c)
           s == (a \o b) \o c
           t == a \o c
           to(i) == IF i <= la THEN i ELSE i + lb
<1>1. /\ la \in Nat /\ lb \in Nat /\ lc \in Nat
      /\ Len(s) = la + lb + lc /\ Len(t) = la + lc
      /\ \A i \in 1 .. la : s[i] = a[i] /\ t[i] = a[i]
      /\ \A i \in 1 .. lc : s[la + lb + i] = c[i] /\ t[la + i] = c[i]
  OBVIOUS
<1> HIDE DEF la, lb, lc, s, t
<1>2. ASSUME NEW i \in 1 .. Len(t) PROVE to(i) \in 1 .. Len(s) /\ t[i] = s[to(i)]
  <2>1. CASE i <= la
    BY <1>1, <2>1
  <2>2. CASE i > la
    <3> DEFINE k == i - la
    <3>1. k \in 1 .. lc /\ i = la + k /\ to(i) = la + lb + k /\ to(i) \in 1 .. Len(s)
      BY <1>1, <2>2
    <3> HIDE DEF k
    <3>2. t[la + k] = s[la + lb + k]
      BY <1>1, <3>1
    <3> QED BY <3>1, <3>2
  <2> QED BY <1>1, <2>1, <2>2
<1>3. \A i, j \in 1 .. Len(t) : i < j => to(i) < to(j)
  BY <1>1
<1>4. AscendsTo(s, n)
  BY DEF s
<1> HIDE DEF to
<1>5. AscendsTo(t, n)
  BY <1>2, <1>3, <1>4 DEF AscendsTo
<1> QED BY <1>5 DEF t

(* A later number goes to the end.                                                *)
LEMMA AscendsLonger ==
  ASSUME NEW s \in Seq(Nat), NEW n \in Nat, NEW m \in Nat, AscendsTo(s, n), n < m
  PROVE  AscendsTo(Append(s, m), m)
<1> DEFINE t == Append(s, m)
           l == Len(s)
<1>1. l \in Nat /\ Len(t) = l + 1 /\ t[l + 1] = m /\ \A i \in 1 .. l : t[i] = s[i] /\ s[i] \in Nat
  OBVIOUS
<1>2. /\ \A i \in 1 .. l : s[i] <= n
      /\ \A i, j \in 1 .. l : i < j => s[i] < s[j]
  BY DEF AscendsTo
<1> HIDE DEF t, l
<1>3. \A i \in 1 .. l + 1 : i \in 1 .. l \/ i = l + 1
  BY <1>1
<1>4. \A i \in 1 .. l + 1 : t[i] <= m /\ (i # l + 1 => t[i] < m)
  BY <1>1, <1>2, <1>3
<1>5. ASSUME NEW i \in 1 .. l + 1, NEW j \in 1 .. l + 1, i < j PROVE t[i] < t[j]
  <2>1. i \in 1 .. l /\ i # l + 1
    BY <1>1, <1>5
  <2>2. CASE j = l + 1
    BY <1>1, <1>4, <2>1, <2>2
  <2>3. CASE j \in 1 .. l
    BY <1>1, <1>2, <1>5, <2>1, <2>3
  <2> QED BY <1>3, <2>2, <2>3
<1>6. AscendsTo(t, m)
  BY <1>1, <1>4, <1>5 DEF AscendsTo
<1> QED BY <1>6 DEF t

-----------------------------------------------------------------------------
(* Consecutive numbers up to n.                                                   *)
CountsTo(s, n) == \A i \in 1 .. Len(s) : s[i] = n - Len(s) + i

(* The next number goes to the end. *)
LEMMA CountsLonger ==
  ASSUME NEW s \in Seq(Nat), NEW n \in Nat, CountsTo(s, n)
  PROVE  CountsTo(Append(s, n + 1), n + 1)
<1> DEFINE t == Append(s, n + 1)
           l == Len(s)
<1>1. l \in Nat /\ Len(t) = l + 1 /\ t[l + 1] = n + 1 /\ \A i \in 1 .. l : t[i] = s[i]
  OBVIOUS
<1>2. \A i \in 1 .. l : s[i] = n - l + i
  BY DEF CountsTo
<1> HIDE DEF t, l
<1>3. CountsTo(t, n + 1)
  <2> SUFFICES ASSUME NEW i \in 1 .. l + 1 PROVE t[i] = (n + 1) - (l + 1) + i
    BY <1>1 DEF CountsTo
  <2>1. CASE i = l + 1
    BY <1>1, <2>1
  <2>2. CASE i \in 1 .. l
    BY <1>1, <1>2, <2>2
  <2> QED BY <1>1, <2>1, <2>2
<1> QED BY <1>3 DEF t

(* Both parts of consecutive numbers are consecutive.                              *)
LEMMA CountsParts ==
  ASSUME NEW a \in Seq(Nat), NEW b \in Seq(Nat), NEW n \in Nat, CountsTo(a \o b, n)
  PROVE  CountsTo(a, n - Len(b)) /\ CountsTo(b, n)
<1> DEFINE la == Len(a)
           lb == Len(b)
           s == a \o b
<1>1. /\ la \in Nat /\ lb \in Nat /\ Len(s) = la + lb
      /\ \A i \in 1 .. la : s[i] = a[i]
      /\ \A i \in 1 .. lb : s[la + i] = b[i]
  OBVIOUS
<1>2. \A i \in 1 .. Len(s) : s[i] = n - Len(s) + i
  BY DEF CountsTo
<1> HIDE DEF la, lb, s
<1>3. ASSUME NEW i \in 1 .. la PROVE a[i] = n - lb - la + i
  <2>1. i \in 1 .. Len(s)
    BY <1>1
  <2> QED BY <1>1, <1>2, <2>1
<1>4. ASSUME NEW i \in 1 .. lb PROVE b[i] = n - lb + i
  <2> DEFINE k == la + i
  <2>1. k \in 1 .. Len(s) /\ n - Len(s) + k = n - lb + i
    BY <1>1
  <2>2. s[k] = b[i]
    BY <1>1
  <2> HIDE DEF k
  <2> QED BY <1>2, <2>1, <2>2
<1> QED BY <1>3, <1>4 DEF CountsTo, la, lb

=============================================================================
