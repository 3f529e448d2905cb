----------------------------- MODULE UrlsProofs ------------------------------
(***************************************************************************)
(* What texts of any length are taken apart into and put together from:    *)
(* lemmas about folds, flattening, splitting, joining and parameters; and  *)
(* how a Url is read from a text that is laid out in parts (ReadingUrl).   *)
(*                                                                         *)
(* Induction is by the least counterexample: a set of numbers that has 0   *)
(* and with each number the next has them all (SetInduction).  A recursive *)
(* function is what its definition says only if there is such a function,  *)
(* which SubsetRecursion and Recursion show for the folds and for          *)
(* FlattenSeq.                                                             *)
(***************************************************************************)
EXTENDS Urls, SequenceTheorems, WellFoundedInduction, TLAPS

-----------------------------------------------------------------------------
(* Induction and recursion. *)

\* Induction: a number that S lacks would have a least one below it, which is 0 or the
\* next of one that S has.
LEMMA SetInduction ==
  ASSUME NEW S, 0 \in S, \A n \in Nat : n \in S => n + 1 \in S
  PROVE  Nat \subseteq S
<1> DEFINE T == {n \in Nat : n \notin S}
<1> DEFINE R == {ss \in Nat \X Nat : ss[1] < ss[2]}
<1> SUFFICES ASSUME T # {} PROVE FALSE
  OBVIOUS
<1>1. IsWellFoundedOn(R, Nat)
  BY NatLessThanWellFounded DEF OpToRel
<1>2. PICK x \in T : \A y \in T : ~ (<<y, x>> \in R)
  <2> HIDE DEF T, R
  <2>1. T \subseteq Nat
    BY DEF T
  <2> QED
    BY <1>1, <2>1, WFMin
<1>3. \A y \in T : ~ (y < x)
  BY <1>2
<1>4. x # 0 /\ x - 1 \in Nat
  OBVIOUS
<1>5. x - 1 \notin T
  BY <1>3, <1>4
<1> QED
  BY <1>4, <1>5

\* The greatest element is the maximum.
LEMMA MaxIs ==
  ASSUME NEW s \in SUBSET Int, NEW m \in s, \A y \in s : y <= m
  PROVE  Max(s) = m
<1> DEFINE Q(x) == \A y \in s : x >= y
<1>1. Q(m)
  OBVIOUS
<1>2. ASSUME NEW x \in s, Q(x) PROVE x = m
  <2>1. x \in Int /\ m \in Int /\ x >= m /\ x <= m
    BY <1>2
  <2> QED
    BY <2>1
<1>3. Max(s) = CHOOSE x \in s : Q(x)
  BY DEF Max
<1> HIDE DEF Q
<1> QED
  BY <1>1, <1>2, <1>3

\* f folds the sets of the first n numbers, from the greatest of each.
FoldsSubsets(f, n, b, g) ==
    \A s \in SUBSET (1 .. n) : f[s] = IF s = {} THEN b ELSE g[<<f[s \ {Max(s)}], Max(s)>>]

\* There is a function on the sets of numbers up to n that folds each from its greatest
\* element down, as MapThenFoldSet has it.
LEMMA SubsetRecursion ==
  ASSUME NEW n \in Nat, NEW X, NEW b \in X, NEW g \in [X \X (1 .. n) -> X]
  PROVE  \E f \in [SUBSET (1 .. n) -> X] : FoldsSubsets(f, n, b, g)
<1> USE DEF FoldsSubsets
<1> DEFINE Good(k, f) == FoldsSubsets(f, k, b, g)
<1> DEFINE P(k) == k <= n => \E f \in [SUBSET (1 .. k) -> X] : Good(k, f)
<1> DEFINE S == {k \in Nat : P(k)}
<1>1. P(0)
  <2>1. Good(0, [s \in SUBSET (1 .. 0) |-> b])
    OBVIOUS
  <2>2. [s \in SUBSET (1 .. 0) |-> b] \in [SUBSET (1 .. 0) -> X]
    OBVIOUS
  <2> QED
    BY <2>1, <2>2
<1>2. ASSUME NEW k \in Nat, P(k) PROVE P(k + 1)
  <2> SUFFICES ASSUME k + 1 <= n PROVE \E f \in [SUBSET (1 .. k + 1) -> X] : Good(k + 1, f)
    OBVIOUS
  <2>0. k <= n
    OBVIOUS
  <2>1. PICK f \in [SUBSET (1 .. k) -> X] : Good(k, f)
    BY <1>2, <2>0, Zenon
  <2> DEFINE h == [s \in SUBSET (1 .. k + 1) |-> IF k + 1 \in s THEN g[<<f[s \ {k + 1}], k + 1>>] ELSE f[s]]
  <2>2. ASSUME NEW s \in SUBSET (1 .. k + 1) PROVE h[s] \in X
    <3>1. CASE k + 1 \in s
      <4>1. s \ {k + 1} \in SUBSET (1 .. k)
        OBVIOUS
      <4> QED
        BY <4>1, <3>1
    <3>2. CASE k + 1 \notin s
      <4>1. s \in SUBSET (1 .. k)
        BY <3>2
      <4> QED
        BY <4>1, <3>2
    <3> QED
      BY <3>1, <3>2
  <2>3. ASSUME NEW s \in SUBSET (1 .. k + 1) PROVE h[s] = IF s = {} THEN b ELSE g[<<h[s \ {Max(s)}], Max(s)>>]
    <3>1. CASE k + 1 \in s
      <4>1. Max(s) = k + 1
        BY <3>1, MaxIs
      <4>2. s \ {k + 1} \in SUBSET (1 .. k) /\ s \ {k + 1} \in SUBSET (1 .. k + 1)
        OBVIOUS
      <4> QED
        BY <4>1, <3>1, <4>2
    <3>2. CASE k + 1 \notin s
      <4>1. s \in SUBSET (1 .. k)
        BY <3>2
      <4>2. CASE s = {}
        BY <4>1, <2>1, <4>2
      <4>3. CASE s # {}
        <5>1. f[s] = g[<<f[s \ {Max(s)}], Max(s)>>]
          BY <4>1, <2>1, <4>3
        <5>2. \A m : s \ {m} \in SUBSET (1 .. k) /\ s \ {m} \in SUBSET (1 .. k + 1) /\ k + 1 \notin s \ {m}
          <6>1. k + 1 \notin s
            BY <3>2
          <6>2. \A m : s \ {m} \subseteq s
            OBVIOUS
          <6> QED
            BY <4>1, <6>1, <6>2, Zenon
        <5>3. h[s \ {Max(s)}] = f[s \ {Max(s)}] /\ h[s] = f[s]
          BY <5>2, <3>2
        <5> QED
          BY <5>1, <5>3, <4>3
      <4> QED
        BY <4>2, <4>3
    <3> QED
      BY <3>1, <3>2
  <2>4. h \in [SUBSET (1 .. k + 1) -> X]
    BY <2>2
  <2> HIDE DEF h
  <2> QED
    BY <2>3, <2>4
<1> HIDE DEF P
<1>3. 0 \in S /\ \A k \in Nat : k \in S => k + 1 \in S
  BY <1>1, <1>2
<1>4. n \in S
  <2> HIDE DEF S
  <2> QED
    BY <1>3, SetInduction
<1>5. P(n)
  BY <1>4
<1>6. n <= n
  OBVIOUS
<1> QED
  BY <1>5, <1>6, Zenon DEF P

\* 1 .. k as a set that is folded.
LEMMA InitialSegment ==
  ASSUME NEW n \in Nat, NEW k \in 1 .. n
  PROVE  Max(1 .. k) = k /\ 1 .. k \in SUBSET (1 .. n) /\ 1 .. k # {} /\ (1 .. k) \ {k} = 1 .. (k - 1)
<1>1. 1 .. k \in SUBSET Int /\ k \in 1 .. k /\ \A y \in 1 .. k : y <= k
  OBVIOUS
<1>2. Max(1 .. k) = k
  BY <1>1, MaxIs
<1>3. 1 .. k \in SUBSET (1 .. n) /\ 1 .. k # {} /\ (1 .. k) \ {k} = 1 .. (k - 1)
  OBVIOUS
<1> QED
  BY <1>2, <1>3

\* f goes from b on by a step for each number up to n.
Walks(f, n, b, g) == f[0] = b /\ \A k \in 1 .. n : f[k] = g[<<f[k - 1], k>>]

\* There is the function that starts with b and goes on with g.
LEMMA Recursion ==
  ASSUME NEW n \in Nat, NEW X, NEW b \in X, NEW g \in [X \X (1 .. n) -> X]
  PROVE  \E f \in [0 .. n -> X] : Walks(f, n, b, g)
<1>1. PICK h \in [SUBSET (1 .. n) -> X] : FoldsSubsets(h, n, b, g)
  BY SubsetRecursion
<1> DEFINE f == [k \in 0 .. n |-> h[1 .. k]]
<1>2. \A k \in 0 .. n : 1 .. k \in SUBSET (1 .. n)
  OBVIOUS
<1>3. f \in [0 .. n -> X]
  BY <1>2
<1>4. f[0] = b
  <2>1. 1 .. 0 = {} /\ {} \in SUBSET (1 .. n)
    OBVIOUS
  <2>2. h[{}] = b
    BY <1>1, <2>1 DEF FoldsSubsets
  <2> QED
    BY <2>1, <2>2
<1>5. ASSUME NEW k \in 1 .. n PROVE f[k] = g[<<f[k - 1], k>>]
  <2>1. Max(1 .. k) = k /\ 1 .. k \in SUBSET (1 .. n) /\ 1 .. k # {} /\ (1 .. k) \ {k} = 1 .. (k - 1)
    BY InitialSegment
  <2>3. h[1 .. k] = g[<<h[1 .. (k - 1)], k>>]
    BY <1>1, <2>1 DEF FoldsSubsets
  <2>4. f[k] = h[1 .. k] /\ f[k - 1] = h[1 .. (k - 1)]
    OBVIOUS
  <2> QED
    BY <2>3, <2>4
<1> HIDE DEF f
<1> QED
  BY <1>3, <1>4, <1>5 DEF Walks

\* The greatest element of a set of numbers is one of them.
LEMMA MaxBelongs ==
  ASSUME NEW n \in Nat, NEW s \in SUBSET (1 .. n), s # {}
  PROVE  Max(s) \in 1 .. n /\ Max(s) \in s
<1> DEFINE P(k) == \A t \in SUBSET (1 .. k) : t # {} => Max(t) \in t
<1> DEFINE S == {k \in Nat : P(k)}
<1>1. P(0)
  <2>1. 1 .. 0 = {}
    OBVIOUS
  <2>2. \A t \in SUBSET (1 .. 0) : t = {}
    BY <2>1
  <2> QED
    BY <2>2, Zenon
<1>2. ASSUME NEW k \in Nat, P(k) PROVE P(k + 1)
  <2> SUFFICES ASSUME NEW t \in SUBSET (1 .. (k + 1)), t # {} PROVE Max(t) \in t
    OBVIOUS
  <2>1. CASE k + 1 \in t
    <3>1. t \in SUBSET Int /\ \A y \in t : y <= k + 1
      OBVIOUS
    <3> QED
      BY <2>1, <3>1, MaxIs
  <2>2. CASE k + 1 \notin t
    <3>1. t \in SUBSET (1 .. k)
      BY <2>2
    <3> QED
      BY <1>2, <3>1, Zenon
  <2> QED
    BY <2>1, <2>2
<1> HIDE DEF P
<1>3. 0 \in S /\ \A k \in Nat : k \in S => k + 1 \in S
  BY <1>1, <1>2
<1>4. n \in S
  <2> HIDE DEF S
  <2> QED
    BY <1>3, SetInduction
<1>5. P(n)
  BY <1>4
<1> QED
  BY <1>5, Zenon DEF P

\* What a fold over 1 .. n ends with is where the steps lead to.
Iterates(it, n, X, b, g) ==
    /\ it[{}] = b
    /\ \A k \in 1 .. n : it[1 .. (k - 1)] \in X => it[1 .. k] = g[<<it[1 .. (k - 1)], k>>]

\* What iterates over sets of numbers goes through 1 .. n in order.
LEMMA FoldWalks ==
  ASSUME NEW n \in Nat, NEW X, NEW b, NEW g, NEW f \in [0 .. n -> X], Walks(f, n, b, g),
         NEW it, Iterates(it, n, X, b, g)
  PROVE  it[1 .. n] = f[n]
<1> DEFINE S == {k \in Nat : k <= n => it[1 .. k] = f[k]}
<1>1. 0 \in S
  <2>1. 1 .. 0 = {} /\ f[0] = b
    BY DEF Walks
  <2> QED
    BY <2>1 DEF Iterates
<1>2. ASSUME NEW k \in Nat, k \in S PROVE k + 1 \in S
  <2> SUFFICES ASSUME k + 1 <= n PROVE it[1 .. (k + 1)] = f[k + 1]
    OBVIOUS
  <2>1. k <= n /\ k + 1 \in 1 .. n /\ (k + 1) - 1 = k /\ k \in 0 .. n
    OBVIOUS
  <2>2. it[1 .. k] = f[k] /\ f[k] \in X
    BY <1>2, <2>1
  <2>3. f[k + 1] = g[<<f[k], k + 1>>]
    BY <2>1 DEF Walks
  <2> QED
    BY <2>1, <2>2, <2>3 DEF Iterates
<1>3. n \in S
  <2> HIDE DEF S
  <2> QED
    BY <1>1, <1>2, SetInduction
<1> QED
  BY <1>3

\* FlattenSeq puts one text behind the other.
Flattens(f, ss) == f[0] = <<>> /\ \A k \in 1 .. Len(ss) : f[k] = f[k - 1] \o ss[k]

\* Flattening appends one text after the other.
LEMMA FlattenWalk ==
  ASSUME NEW Ch, NEW ss \in Seq(Seq(Ch))
  PROVE  \E f \in [0 .. Len(ss) -> Seq(Ch)] : Flattens(f, ss) /\ FlattenSeq(ss) = f[Len(ss)]
<1>1. PICK n \in Nat : n = Len(ss)
  BY LenProperties
<1>2. \A k \in 1 .. n : ss[k] \in Seq(Ch)
  BY <1>1, ElementOfSeq
<1> DEFINE g == [p \in Seq(Ch) \X (1 .. n) |-> p[1] \o ss[p[2]]]
<1>3. \A u \in Seq(Ch), k \in 1 .. n : g[<<u, k>>] = u \o ss[k] /\ u \o ss[k] \in Seq(Ch)
  BY <1>2, ConcatProperties
<1>4. g \in [Seq(Ch) \X (1 .. n) -> Seq(Ch)]
  BY <1>3
<1> HIDE DEF g
<1>5. PICK f \in [0 .. n -> Seq(Ch)] : Walks(f, n, <<>>, g)
  BY <1>4, EmptySeq, Recursion
<1>6. f[0] = <<>> /\ \A k \in 1 .. n : f[k] = f[k - 1] \o ss[k] /\ f[k - 1] \in Seq(Ch) /\ k \in 0 .. n
  <2>1. \A k \in 1 .. n : k - 1 \in 0 .. n /\ k \in 0 .. n
    OBVIOUS
  <2> QED
    BY <1>3, <1>5, <2>1 DEF Walks
<1>7. n # 0 => f[1] = ss[1]
  <2>1. n # 0 => 1 \in 1 .. n /\ 1 - 1 = 0
    OBVIOUS
  <2>2. n # 0 => f[1] = <<>> \o ss[1] /\ ss[1] \in Seq(Ch)
    BY <1>2, <1>6, <2>1
  <2> QED
    BY <2>2, ConcatEmptySeq
<1>8. FlattenSeq(ss) = f[n]
  <2>1. CASE n = 0
    BY <2>1, <1>1, <1>6, EmptySeq DEF FlattenSeq
  <2>2. CASE n # 0
    <3> DEFINE Eq(h) == h = [i \in 1 .. n |-> IF i = 1 THEN ss[i] ELSE h[i - 1] \o ss[i]]
    <3> DEFINE flat == CHOOSE h : Eq(h)
    <3>1. FlattenSeq(ss) = flat[n]
      BY <2>2, <1>1 DEF FlattenSeq
    <3>2. Eq([i \in 1 .. n |-> f[i]])
      <4> DEFINE h == [i \in 1 .. n |-> f[i]]
      <4>1. ASSUME NEW i \in 1 .. n PROVE h[i] = IF i = 1 THEN ss[i] ELSE h[i - 1] \o ss[i]
        <5>1. CASE i = 1
          BY <1>7, <2>2, <5>1
        <5>2. CASE i # 1
          <6>1. i - 1 \in 1 .. n
            BY <5>2
          <6> QED
            BY <1>6, <5>2, <6>1
        <5> QED
          BY <5>1, <5>2
      <4> QED
        BY <4>1
    <3>3. Eq(flat)
      <4> HIDE DEF Eq
      <4> QED
        BY <3>2
    <3>4. \A i \in 1 .. n : flat[i] = IF i = 1 THEN ss[i] ELSE flat[i - 1] \o ss[i]
      BY <3>3
    <3> HIDE DEF Eq, flat
    <3> DEFINE S == {k \in Nat : k + 1 <= n => flat[k + 1] = f[k + 1]}
    <3>5. 0 \in S
      BY <1>7, <3>4
    <3>6. ASSUME NEW k \in Nat, k \in S PROVE k + 1 \in S
      <4> SUFFICES ASSUME k + 2 <= n PROVE flat[k + 2] = f[k + 2]
        OBVIOUS
      <4>1. k + 2 \in 1 .. n /\ k + 2 # 1 /\ (k + 2) - 1 = k + 1
        OBVIOUS
      <4>2. flat[k + 2] = flat[k + 1] \o ss[k + 2]
        BY <3>4, <4>1
      <4>3. f[k + 2] = f[k + 1] \o ss[k + 2]
        BY <1>6, <4>1
      <4> QED
        <5>1. k + 1 <= n
          OBVIOUS
        <5>2. flat[k + 1] = f[k + 1]
          BY <3>6, <5>1
        <5> QED
          BY <5>2, <4>2, <4>3
    <3>7. n - 1 \in S
      <4>1. n - 1 \in Nat
        BY <2>2
      <4> HIDE DEF S
      <4> QED
        BY <3>5, <3>6, SetInduction, <4>1
    <3> QED
      BY <3>1, <3>7, <2>2
  <2> QED
    BY <2>1, <2>2
<1> QED
  BY <1>1, <1>5, <1>6, <1>8 DEF Flattens

\* Two elements one behind the other.
LEMMA PairIs ==
  ASSUME NEW S, NEW a \in S, NEW b \in S
  PROVE  <<a>> \o <<b>> = <<a, b>> /\ <<a>> \in Seq(S) /\ <<b>> \in Seq(S) /\ <<a, b>> \in Seq(S)
<1>1. <<a>> \in Seq(S) /\ <<b>> \in Seq(S) /\ Len(<<a>>) = 1 /\ Len(<<b>>) = 1
  OBVIOUS
<1>2. <<a>> \o <<b>> \in Seq(S) /\ Len(<<a>> \o <<b>>) = 2 /\ (<<a>> \o <<b>>)[1] = a /\ (<<a>> \o <<b>>)[2] = b
  BY <1>1, ConcatProperties
<1>3. <<a, b>> \in Seq(S) /\ Len(<<a, b>>) = 2 /\ <<a, b>>[1] = a /\ <<a, b>>[2] = b
  OBVIOUS
<1>4. \A i \in 1 .. 2 : i = 1 \/ i = 2
  OBVIOUS
<1>5. \A i \in 1 .. 2 : (<<a>> \o <<b>>)[i] = <<a, b>>[i]
  BY <1>2, <1>3, <1>4, Zenon
<1>6. <<a>> \o <<b>> = <<a, b>>
  BY <1>2, <1>3, <1>5, SeqEqual
<1> QED
  BY <1>1, <1>3, <1>6


\* The beginnings of a text, each a character longer than the one before.
Beginning(text, k) == SubSeq(text, 1, k)

\* The beginning of a text grows by one character at a time, up to the whole text.
LEMMA BeginningIs ==
  ASSUME NEW C, NEW text \in Seq(C), NEW n \in Nat, n = Len(text)
  PROVE  /\ Beginning(text, 0) = <<>>
         /\ Beginning(text, n) = text
         /\ \A k \in 0 .. n : Beginning(text, k) \in Seq(C)
         /\ \A k \in 1 .. n : Beginning(text, k) = Append(Beginning(text, k - 1), text[k])
<1>1. Beginning(text, 0) = <<>>
  BY SubSeqEmpty DEF Beginning
<1>2. Beginning(text, n) = text
  BY SubSeqFull DEF Beginning
<1>3. \A k \in 1 .. n : text[k] \in C
  BY ElementOfSeq
<1>4. ASSUME NEW k \in 0 .. n PROVE Beginning(text, k) \in Seq(C)
  <2>1. \A i \in 1 .. k : text[i] \in C
    BY <1>3
  <2> QED
    BY <2>1, SubSeqProperties DEF Beginning
<1>5. ASSUME NEW k \in 1 .. n PROVE Beginning(text, k) = Append(Beginning(text, k - 1), text[k])
  <2>1. 1 \in 1 .. Len(text) /\ k \in 1 .. Len(text) /\ k - 1 \in 0 .. n
    OBVIOUS
  <2>2. Beginning(text, k) = Beginning(text, k - 1) \o <<text[k]>>
    BY <2>1, SubSeqRecursiveSecond DEF Beginning
  <2>3. Beginning(text, k - 1) \in Seq(C) /\ text[k] \in C
    BY <1>3, <1>4, <2>1
  <2> QED
    BY <2>2, <2>3, AppendIsConcat
<1> QED
  BY <1>1, <1>2, <1>4, <1>5

-----------------------------------------------------------------------------
(* Splitting. *)

\* Pieces of a text, in which the separator is not.
Pieces(C, sep) == Seq(Seq(C \ {sep})) \ {<<>>}
SplitsAlong(f, text, sep) ==
    f[0] = << <<>> >> /\ \A k \in 1 .. Len(text) : f[k] = PutCharacter(f[k - 1], text[k], sep)

\* Pieces stay texts without the mark between them, at least one of them.
LEMMA PutType ==
  ASSUME NEW C, NEW sep, NEW pieces \in Pieces(C, sep), NEW ch \in C
  PROVE  PutCharacter(pieces, ch, sep) \in Pieces(C, sep)
<1> DEFINE T == Seq(C \ {sep})
<1>1. PICK n \in Nat : n = Len(pieces)
  BY LenProperties DEF Pieces
<1>2. pieces \in Seq(T) /\ n # 0
  BY <1>1, EmptySeq DEF Pieces
<1>3. CASE ch = sep
  <2>1. <<>> \in T
    BY EmptySeq
  <2> HIDE DEF T
  <2>2. Append(pieces, <<>>) \in Seq(T) /\ Append(pieces, <<>>) # <<>>
    BY <1>2, <2>1, AppendProperties
  <2> QED
    BY <1>3, <2>2 DEF PutCharacter, Pieces, T
<1>4. CASE ch # sep
  <2>1. n \in 1 .. Len(pieces) /\ pieces[n] \in T
    <3> HIDE DEF T
    <3> QED
      BY <1>1, <1>2, ElementOfSeq
  <2>2. Append(pieces[n], ch) \in T
    BY <1>4, <2>1, AppendProperties
  <2> DEFINE put == [pieces EXCEPT ![n] = Append(pieces[n], ch)]
  <2>3. put \in Seq(T) /\ Len(put) = n
    <3> HIDE DEF T
    <3> QED
      BY <1>1, <1>2, <2>1, <2>2, ExceptSeq
  <2>4. put # <<>>
    BY <1>2, <2>3, EmptySeq
  <2>5. PutCharacter(pieces, ch, sep) = put
    BY <1>1, <1>4 DEF PutCharacter
  <2> QED
    BY <2>3, <2>4, <2>5 DEF Pieces
<1> QED
  BY <1>3, <1>4

\* Split puts one character after the other, from one empty piece.
LEMMA SplitWalk ==
  ASSUME NEW C, NEW text \in Seq(C), NEW sep
  PROVE  \E f \in [0 .. Len(text) -> Pieces(C, sep)] : SplitsAlong(f, text, sep) /\ Split(text, sep) = f[Len(text)]
<1> DEFINE X == Pieces(C, sep)
           b == << <<>> >>
<1>1. PICK n \in Nat : n = Len(text) /\ DOMAIN text = 1 .. n
  BY LenProperties
<1>2. \A k \in 1 .. n : text[k] \in C
  BY <1>1, ElementOfSeq
<1> DEFINE g == [p \in X \X (1 .. n) |-> PutCharacter(p[1], text[p[2]], sep)]
<1>3. \A r \in X, k \in 1 .. n : g[<<r, k>>] = PutCharacter(r, text[k], sep) /\ PutCharacter(r, text[k], sep) \in X
  BY <1>2, PutType
<1>4. g \in [X \X (1 .. n) -> X]
  BY <1>3
<1> HIDE DEF g
<1>5. b \in X
  <2>1. <<>> \in Seq(C \ {sep})
    BY EmptySeq
  <2>2. \A S : \A e \in S : <<e>> \in Seq(S) /\ <<e>> # <<>>
    OBVIOUS
  <2> QED
    BY <2>1, <2>2, Zenon DEF Pieces
<1> HIDE DEF X, b
<1>6. PICK f \in [0 .. n -> X] : Walks(f, n, b, g)
  BY <1>1, <1>4, <1>5, Recursion
<1>7. SplitsAlong(f, text, sep)
  <2>1. \A k \in 1 .. n : k - 1 \in 0 .. n
    BY <1>1
  <2> QED
    BY <1>1, <1>3, <1>6, <2>1 DEF Walks, SplitsAlong, b
<1> DEFINE Eq(h) == h = [s \in SUBSET (1 .. n) |-> IF s = {} THEN b ELSE PutCharacter(h[s \ {Max(s)}], text[Max(s)], sep)]
<1> DEFINE it == CHOOSE h : Eq(h)
<1>8. Split(text, sep) = it[1 .. n]
  BY <1>1 DEF Split, FoldLeft, MapThenFoldSet, b
<1>9. Eq(it)
  <2>1. PICK h \in [SUBSET (1 .. n) -> X] : FoldsSubsets(h, n, b, g)
    BY <1>1, <1>4, <1>5, SubsetRecursion
  <2>2. ASSUME NEW s \in SUBSET (1 .. n)
        PROVE  h[s] = IF s = {} THEN b ELSE PutCharacter(h[s \ {Max(s)}], text[Max(s)], sep)
    <3>1. CASE s # {}
      <4>1. Max(s) \in 1 .. n /\ s \ {Max(s)} \in SUBSET (1 .. n)
        BY <1>1, <3>1, MaxBelongs
      <4> QED
        BY <2>1, <3>1, <4>1, <1>3 DEF FoldsSubsets
    <3> QED
      BY <2>1, <3>1 DEF FoldsSubsets
  <2>3. Eq(h)
    BY <2>1, <2>2
  <2> HIDE DEF Eq
  <2> QED
    BY <2>3
<1>10. it[{}] = b /\ \A s \in SUBSET (1 .. n) : s # {} => it[s] = PutCharacter(it[s \ {Max(s)}], text[Max(s)], sep)
  <2>1. {} \in SUBSET (1 .. n)
    OBVIOUS
  <2> QED
    BY <1>9, <2>1
<1> HIDE DEF it
<1>11. ASSUME NEW k \in 1 .. n, it[1 .. (k - 1)] \in X
       PROVE  it[1 .. k] = g[<<it[1 .. (k - 1)], k>>]
  <2>1. Max(1 .. k) = k /\ 1 .. k \in SUBSET (1 .. n) /\ 1 .. k # {} /\ (1 .. k) \ {k} = 1 .. (k - 1)
    BY <1>1, InitialSegment
  <2>2. it[1 .. k] = PutCharacter(it[(1 .. k) \ {Max(1 .. k)}], text[Max(1 .. k)], sep)
    BY <1>10, <2>1, Zenon
  <2>3. g[<<it[1 .. (k - 1)], k>>] = PutCharacter(it[1 .. (k - 1)], text[k], sep)
    BY <1>3, <1>11
  <2> QED
    BY <2>1, <2>2, <2>3, Zenon
<1>12. Iterates(it, n, X, b, g)
  BY <1>10, <1>11 DEF Iterates
<1>13. it[1 .. n] = f[n]
  BY <1>1, <1>6, <1>12, FoldWalks
<1> QED
  BY <1>1, <1>6, <1>7, <1>8, <1>13 DEF X

\* Pieces, and no other ones than by this walk.
LEMMA SplitType ==
  ASSUME NEW C, NEW text \in Seq(C), NEW sep
  PROVE  Split(text, sep) \in Pieces(C, sep)
<1>1. Len(text) \in 0 .. Len(text)
  BY LenProperties
<1> QED
  BY <1>1, SplitWalk

\* Whatever puts the characters one after the other ends with what Split gives.
LEMMA SplitIs ==
  ASSUME NEW C, NEW text \in Seq(C), NEW sep, NEW f, SplitsAlong(f, text, sep)
  PROVE  Split(text, sep) = f[Len(text)]
<1>1. PICK n \in Nat : n = Len(text)
  BY LenProperties
<1>2. PICK h : SplitsAlong(h, text, sep) /\ Split(text, sep) = h[n]
  BY <1>1, SplitWalk
<1> DEFINE S == {k \in Nat : k <= n => h[k] = f[k]}
<1>3. 0 \in S
  BY <1>2 DEF SplitsAlong
<1>4. ASSUME NEW k \in Nat, k \in S PROVE k + 1 \in S
  <2> SUFFICES ASSUME k + 1 <= n PROVE h[k + 1] = f[k + 1]
    OBVIOUS
  <2>1. k <= n /\ k + 1 \in 1 .. n /\ (k + 1) - 1 = k
    BY <1>1
  <2>2. h[k] = f[k]
    BY <1>4, <2>1
  <2> QED
    BY <1>1, <1>2, <2>1, <2>2 DEF SplitsAlong
<1>5. n \in S
  <2> HIDE DEF S
  <2> QED
    BY <1>1, <1>3, <1>4, SetInduction
<1> QED
  BY <1>1, <1>2, <1>5

\* A text without the separator is one piece.
LEMMA SplitWhole ==
  ASSUME NEW C, NEW text \in Seq(C), NEW sep, sep \notin C
  PROVE  Split(text, sep) = <<text>>
<1>1. PICK n \in Nat : n = Len(text)
  BY LenProperties
<1> DEFINE f == [k \in 0 .. n |-> <<Beginning(text, k)>>]
<1>2. /\ Beginning(text, 0) = <<>> /\ Beginning(text, n) = text
      /\ \A k \in 1 .. n : Beginning(text, k) = Append(Beginning(text, k - 1), text[k])
  BY <1>1, BeginningIs
<1>3. ASSUME NEW k \in 1 .. n PROVE f[k] = PutCharacter(f[k - 1], text[k], sep)
  <2>1. text[k] # sep /\ k - 1 \in 0 .. n /\ k \in 0 .. n
    BY <1>1, ElementOfSeq
  <2>2. \A a, c : [<<a>> EXCEPT ![1] = Append(a, c)] = <<Append(a, c)>> /\ Len(<<a>>) = 1 /\ <<a>>[1] = a
    OBVIOUS
  <2>3. PutCharacter(<<Beginning(text, k - 1)>>, text[k], sep) = <<Append(Beginning(text, k - 1), text[k])>>
    BY <2>1, <2>2 DEF PutCharacter
  <2> QED
    BY <1>2, <2>1, <2>3
<1>4. f[0] = << <<>> >> /\ f[n] = <<text>>
  BY <1>1, <1>2
<1> HIDE DEF f
<1>5. SplitsAlong(f, text, sep)
  BY <1>1, <1>3, <1>4 DEF SplitsAlong
<1> QED
  BY <1>1, <1>4, <1>5, SplitIs

Associates(S) == \A a \in Seq(S), b \in Seq(S), c \in Seq(S) : (a \o b) \o c = a \o (b \o c)

\* Texts behind each other may be joined in any order.
LEMMA ConcatAssociates ==
  ASSUME NEW S
  PROVE  Associates(S)
<1> SUFFICES ASSUME NEW a \in Seq(S), NEW b \in Seq(S), NEW c \in Seq(S)
             PROVE  (a \o b) \o c = a \o (b \o c)
  BY DEF Associates
<1> QED
  BY ConcatAssociative

\* What is appended comes last behind any other sequence, too.
AppendsBehind(S) == \A q \in Seq(S), p \in Seq(S), e \in S : Append(q \o p, e) = q \o Append(p, e)

\* A character at the end of the second text is at the end of both.
LEMMA AppendBehind ==
  ASSUME NEW S
  PROVE  AppendsBehind(S)
<1> SUFFICES ASSUME NEW q \in Seq(S), NEW p \in Seq(S), NEW e \in S
             PROVE  Append(q \o p, e) = q \o Append(p, e)
  BY DEF AppendsBehind
<1>1. <<e>> \in Seq(S) /\ q \o p \in Seq(S)
  BY ConcatProperties
<1>2. Append(q \o p, e) = (q \o p) \o <<e>> /\ Append(p, e) = p \o <<e>>
  BY <1>1, AppendIsConcat
<1>3. (q \o p) \o <<e>> = q \o (p \o <<e>>)
  BY <1>1, ConcatAssociative
<1> QED
  BY <1>2, <1>3

\* What is put into the last of some pieces leaves those in front of them.
PutsBehind(C, sep) ==
    \A q \in Pieces(C, sep), pieces \in Pieces(C, sep), ch \in C :
        PutCharacter(q \o pieces, ch, sep) = q \o PutCharacter(pieces, ch, sep)

\* A character is put in the last piece, or begins one, whatever the pieces before it are.
LEMMA PutBehind ==
  ASSUME NEW C, NEW sep
  PROVE  PutsBehind(C, sep)
<1> SUFFICES ASSUME NEW q \in Pieces(C, sep), NEW pieces \in Pieces(C, sep), NEW ch \in C
             PROVE  PutCharacter(q \o pieces, ch, sep) = q \o PutCharacter(pieces, ch, sep)
  BY DEF PutsBehind
<1> DEFINE T == Seq(C \ {sep})
<1>1. PICK m \in Nat : m = Len(q)
  BY LenProperties DEF Pieces
<1>2. PICK n \in Nat : n = Len(pieces)
  BY LenProperties DEF Pieces
<1>3. q \in Seq(T) /\ pieces \in Seq(T) /\ m # 0 /\ n # 0
  BY <1>1, <1>2, EmptySeq DEF Pieces
<1>4. CASE ch = sep
  <2>1. <<>> \in T
    BY EmptySeq
  <2> HIDE DEF T
  <2>2. Append(q \o pieces, <<>>) = q \o Append(pieces, <<>>)
    <3>1. \A e \in T : Append(q \o pieces, e) = q \o Append(pieces, e)
      <4>1. AppendsBehind(T)
        BY AppendBehind
      <4> QED
        BY <1>3, <4>1 DEF AppendsBehind
    <3> QED
      BY <2>1, <3>1
  <2> QED
    BY <1>4, <2>2 DEF PutCharacter
<1>5. CASE ch # sep
  <2>1. n \in 1 .. n /\ pieces[n] \in T /\ m + n \in 1 .. m + n
    <3>1. n \in 1 .. n /\ m + n \in 1 .. m + n
      BY <1>1, <1>2, <1>3
    <3> HIDE DEF T
    <3> QED
      BY <1>2, <1>3, <3>1, ElementOfSeq
  <2>2. Append(pieces[n], ch) \in T
    BY <1>5, <2>1, AppendProperties
  <2> HIDE DEF T
  <2> DEFINE e == Append(pieces[n], ch)
             all == q \o pieces
             put == [pieces EXCEPT ![n] = e]
             putAll == [all EXCEPT ![m + n] = e]
  <2>3. all \in Seq(T) /\ Len(all) = m + n /\ \A i \in 1 .. m + n : all[i] = IF i <= m THEN q[i] ELSE pieces[i - m]
    BY <1>1, <1>2, <1>3, ConcatProperties
  <2>4. put \in Seq(T) /\ Len(put) = n /\ \A i \in 1 .. n : put[i] = IF i = n THEN e ELSE pieces[i]
    <3> HIDE DEF e
    <3>1. e \in T
      BY <2>2 DEF e
    <3> QED
      BY <1>2, <1>3, <2>1, <3>1, ExceptSeq
  <2> HIDE DEF all
  <2>5. putAll \in Seq(T) /\ Len(putAll) = m + n /\ \A i \in 1 .. m + n : putAll[i] = IF i = m + n THEN e ELSE all[i]
    <3> HIDE DEF e
    <3>1. e \in T
      BY <2>2 DEF e
    <3> QED
      BY <2>1, <2>3, <3>1, ExceptSeq
  <2> HIDE DEF put, putAll, e
  <2>6. q \o put \in Seq(T) /\ Len(q \o put) = m + n /\ \A i \in 1 .. m + n : (q \o put)[i] = IF i <= m THEN q[i] ELSE put[i - m]
    <3>1. /\ q \o put \in Seq(T) /\ Len(q \o put) = Len(q) + Len(put)
          /\ \A i \in 1 .. Len(q) + Len(put) : (q \o put)[i] = IF i <= Len(q) THEN q[i] ELSE put[i - Len(q)]
      BY <1>3, <2>4, ConcatProperties
    <3> QED
      BY <1>1, <2>4, <3>1
  <2>7. \A i \in 1 .. m + n : putAll[i] = (q \o put)[i]
    <3>1. ASSUME NEW i \in 1 .. m + n PROVE putAll[i] = (q \o put)[i]
      <4>1. CASE i <= m
        <5>1. i # m + n
          BY <1>1, <1>2, <1>3, <4>1
        <5> QED
          BY <2>3, <2>5, <2>6, <4>1, <5>1
      <4>2. CASE ~(i <= m)
        <5>1. i - m \in 1 .. n /\ (i - m = n <=> i = m + n)
          BY <1>1, <1>2, <4>2
        <5> QED
          BY <2>3, <2>4, <2>5, <2>6, <4>2, <5>1
      <4> QED
        BY <4>1, <4>2
    <3> QED
      BY <3>1
  <2>8. putAll = q \o put
    BY <2>5, <2>6, <2>7, SeqEqual
  <2>9. all[m + n] = pieces[n]
    <3>1. ~(m + n <= m) /\ (m + n) - m = n
      BY <1>1, <1>2, <1>3
    <3> QED
      BY <2>1, <2>3, <3>1
  <2>10. PutCharacter(q \o pieces, ch, sep) = putAll /\ PutCharacter(pieces, ch, sep) = put
    BY <1>2, <1>5, <2>3, <2>9 DEF PutCharacter, putAll, put, all, e
  <2> QED
    BY <2>8, <2>10
<1> QED
  BY <1>4, <1>5

\* Two texts with the separator between them are the pieces of one, then of the other.
SplitsBetween(C, sep) ==
    \A a \in Seq(C), b \in Seq(C) : Split(a \o <<sep>> \o b, sep) = Split(a, sep) \o Split(b, sep)

\* A text with a mark in it is split in what is in front of the mark and what is behind.
LEMMA SplitThen ==
  ASSUME NEW C, NEW sep \in C
  PROVE  SplitsBetween(C, sep)
<1> SUFFICES ASSUME NEW a \in Seq(C), NEW b \in Seq(C)
             PROVE  Split(a \o <<sep>> \o b, sep) = Split(a, sep) \o Split(b, sep)
  BY DEF SplitsBetween
<1> DEFINE X == Pieces(C, sep)
           front == a \o <<sep>>
           text == front \o b
<1>1. PICK m \in Nat : m = Len(a)
  BY LenProperties
<1>2. PICK n \in Nat : n = Len(b)
  BY LenProperties
<1>3. front \in Seq(C) /\ Len(front) = m + 1 /\ (\A k \in 1 .. m : front[k] = a[k]) /\ front[m + 1] = sep
  <2>1. front = Append(a, sep)
    BY AppendIsConcat
  <2> QED
    BY <1>1, <2>1, AppendProperties
<1>4. text \in Seq(C) /\ Len(text) = m + 1 + n /\ \A k \in 1 .. m + 1 + n : text[k] = IF k <= m + 1 THEN front[k] ELSE b[k - (m + 1)]
  <2> HIDE DEF front
  <2> QED
    <3>1. /\ text \in Seq(C) /\ Len(text) = Len(front) + Len(b)
          /\ \A k \in 1 .. Len(front) + Len(b) : text[k] = IF k <= Len(front) THEN front[k] ELSE b[k - Len(front)]
      BY <1>3, ConcatProperties
    <3> HIDE DEF text
    <3> QED
      BY <1>2, <1>3, <3>1
<1> HIDE DEF text, front
<1>5. PICK f \in [0 .. m -> X] : SplitsAlong(f, a, sep) /\ Split(a, sep) = f[m]
  BY <1>1, SplitWalk
<1>6. PICK h \in [0 .. n -> X] : SplitsAlong(h, b, sep) /\ Split(b, sep) = h[n]
  BY <1>2, SplitWalk
<1>7. f[m] \in X /\ h[0] = << <<>> >> /\ f[0] = << <<>> >> /\ \A k \in 0 .. n : h[k] \in X
  <2>1. m \in 0 .. m
    BY <1>1
  <2>2. h[0] = << <<>> >> /\ f[0] = << <<>> >>
    BY <1>5, <1>6 DEF SplitsAlong
  <2> HIDE DEF X
  <2> QED
    BY <1>5, <1>6, <2>1, <2>2
<1> DEFINE w == [k \in 0 .. m + 1 + n |-> IF k <= m THEN f[k] ELSE f[m] \o h[k - (m + 1)]]
<1>8. ASSUME NEW k \in 1 .. m + 1 + n PROVE w[k] = PutCharacter(w[k - 1], text[k], sep)
  <2>1. k \in 0 .. m + 1 + n /\ k - 1 \in 0 .. m + 1 + n
    BY <1>1, <1>2
  <2>2. CASE k <= m
    <3>1. k \in 1 .. m /\ k - 1 <= m /\ k <= m + 1
      BY <1>1, <2>2
    <3>2. w[k] = f[k] /\ w[k - 1] = f[k - 1] /\ text[k] = a[k]
      BY <1>3, <1>4, <2>1, <2>2, <3>1
    <3> QED
      BY <1>1, <1>5, <3>1, <3>2 DEF SplitsAlong
  <2>3. CASE k = m + 1
    <3>1. ~(k <= m) /\ k - 1 = m /\ k - 1 <= m /\ k - (m + 1) = 0 /\ k <= m + 1
      BY <1>1, <2>3
    <3>2. w[k] = f[m] \o << <<>> >> /\ w[k - 1] = f[m] /\ text[k] = sep
      BY <1>3, <1>4, <1>7, <2>1, <2>3, <3>1
    <3>3. f[m] \o << <<>> >> = Append(f[m], <<>>)
      <4>1. <<>> \in Seq(C \ {sep}) /\ f[m] \in Seq(Seq(C \ {sep}))
        BY <1>7, EmptySeq DEF Pieces
      <4> QED
        BY <4>1, AppendIsConcat
    <3> QED
      BY <3>2, <3>3 DEF PutCharacter
  <2>4. CASE k > m + 1
    <3> DEFINE j == k - (m + 1)
    <3>1. j \in 1 .. n /\ j - 1 \in 0 .. n /\ ~(k <= m) /\ ~(k - 1 <= m) /\ (k - 1) - (m + 1) = j - 1 /\ ~(k <= m + 1)
      BY <1>1, <1>2, <2>4
    <3>2. w[k] = f[m] \o h[j] /\ w[k - 1] = f[m] \o h[j - 1] /\ text[k] = b[j]
      BY <1>4, <2>1, <3>1
    <3> HIDE DEF j
    <3>3. h[j] = PutCharacter(h[j - 1], b[j], sep) /\ b[j] \in C
      BY <1>2, <1>6, <3>1, ElementOfSeq DEF SplitsAlong
    <3>4. f[m] \in X /\ h[j - 1] \in X
      BY <1>7, <3>1
    <3>5. PutCharacter(f[m] \o h[j - 1], b[j], sep) = f[m] \o PutCharacter(h[j - 1], b[j], sep)
      <4>1. \A q \in X, p \in X, ch \in C : PutCharacter(q \o p, ch, sep) = q \o PutCharacter(p, ch, sep)
        <5>1. PutsBehind(C, sep)
          BY PutBehind
        <5> QED
          BY <5>1 DEF PutsBehind
      <4> HIDE DEF X
      <4> QED
        BY <3>3, <3>4, <4>1, Zenon
    <3> QED
      BY <3>2, <3>3, <3>5
  <2> QED
    BY <1>1, <1>2, <2>2, <2>3, <2>4
<1>9. w[0] = << <<>> >>
  BY <1>1, <1>2, <1>7
<1>10. w[m + 1 + n] = f[m] \o h[n]
  <2>1. m + 1 + n \in 0 .. m + 1 + n /\ ~(m + 1 + n <= m) /\ (m + 1 + n) - (m + 1) = n
    BY <1>1, <1>2
  <2> QED
    BY <2>1
<1> HIDE DEF w
<1>11. SplitsAlong(w, text, sep)
  BY <1>4, <1>8, <1>9 DEF SplitsAlong
<1>12. Split(text, sep) = w[m + 1 + n]
  BY <1>4, <1>11, SplitIs
<1> QED
  BY <1>5, <1>6, <1>10, <1>12 DEF text, front

\* Flattened texts are a text.
LEMMA FlattenType ==
  ASSUME NEW C, NEW ss \in Seq(Seq(C))
  PROVE  FlattenSeq(ss) \in Seq(C)
<1>1. PICK n \in Nat : n = Len(ss)
  BY LenProperties
<1>2. PICK f \in [0 .. n -> Seq(C)] : FlattenSeq(ss) = f[n]
  BY <1>1, FlattenWalk
<1>3. n \in 0 .. n
  BY <1>1
<1> QED
  BY <1>2, <1>3

\* A single text, flattened, is itself.
LEMMA FlattenOne ==
  ASSUME NEW C, NEW s \in Seq(C)
  PROVE  FlattenSeq(<<s>>) = s
<1>1. <<s>> \in Seq(Seq(C)) /\ Len(<<s>>) = 1 /\ <<s>>[1] = s
  OBVIOUS
<1>2. PICK f \in [0 .. 1 -> Seq(C)] : Flattens(f, <<s>>) /\ FlattenSeq(<<s>>) = f[1]
  BY <1>1, FlattenWalk
<1>3. f[0] = <<>> /\ f[1] = f[0] \o s
  <2>1. 1 \in 1 .. 1 /\ 1 - 1 = 0
    OBVIOUS
  <2> QED
    BY <1>1, <1>2, <2>1 DEF Flattens
<1> QED
  BY <1>2, <1>3, ConcatEmptySeq

\* What is joined is split into what it was joined of.
LEMMA SplitJoin ==
  ASSUME NEW D, NEW pieces \in Seq(Seq(D)), pieces # <<>>, NEW sep, sep \notin D
  PROVE  Join(pieces, sep) \in Seq(D \union {sep}) /\ Split(Join(pieces, sep), sep) = pieces
<1> DEFINE C == D \union {sep}
<1>1. PICK n \in Nat : n = Len(pieces)
  BY LenProperties
<1>2. n # 0
  BY <1>1, EmptySeq
<1>3. \A k \in 1 .. n : pieces[k] \in Seq(D) /\ pieces[k] \in Seq(C)
  <2>1. \A k \in 1 .. n : pieces[k] \in Seq(D)
    BY <1>1, ElementOfSeq
  <2>2. \A A, B : A \subseteq B => Seq(A) \subseteq Seq(B)
    OBVIOUS
  <2>3. Seq(D) \subseteq Seq(C)
    BY <2>2
  <2> QED
    BY <2>1, <2>3
<1> DEFINE parts == [k \in 1 .. n |-> IF k = 1 THEN pieces[k] ELSE <<sep>> \o pieces[k]]
<1>4. <<sep>> \in Seq(C) /\ sep \in C
  OBVIOUS
<1>5. parts \in Seq(Seq(C)) /\ Len(parts) = n /\ \A k \in 1 .. n : parts[k] = IF k = 1 THEN pieces[k] ELSE <<sep>> \o pieces[k]
  <2> HIDE DEF C
  <2>1. \A k \in 1 .. n : (IF k = 1 THEN pieces[k] ELSE <<sep>> \o pieces[k]) \in Seq(C)
    BY <1>3, <1>4, ConcatProperties
  <2> QED
    BY <1>1, <2>1
<1>6. Join(pieces, sep) = FlattenSeq(parts)
  BY <1>1 DEF Join
<1> HIDE DEF C, parts
<1>7. PICK f \in [0 .. n -> Seq(C)] : Flattens(f, parts) /\ FlattenSeq(parts) = f[n]
  BY <1>5, FlattenWalk
<1>8. f[0] = <<>> /\ (\A k \in 1 .. n : f[k] = f[k - 1] \o parts[k]) /\ \A k \in 0 .. n : f[k] \in Seq(C)
  BY <1>5, <1>7 DEF Flattens
<1>9. f[1] = pieces[1]
  <2>1. 1 \in 1 .. n /\ 1 - 1 = 0
    BY <1>1, <1>2
  <2>2. f[1] = <<>> \o pieces[1]
    BY <1>5, <1>8, <2>1
  <2> QED
    BY <1>3, <2>1, <2>2, ConcatEmptySeq
<1> DEFINE P(k) == k + 1 <= n => Split(f[k + 1], sep) = Beginning(pieces, k + 1)
           S == {k \in Nat : P(k)}
<1>10. /\ Beginning(pieces, 0) = <<>> /\ Beginning(pieces, n) = pieces
       /\ \A k \in 0 .. n : Beginning(pieces, k) \in Seq(Seq(D))
       /\ \A k \in 1 .. n : Beginning(pieces, k) = Append(Beginning(pieces, k - 1), pieces[k])
  BY <1>1, BeginningIs
<1>11. \A k \in 1 .. n : Split(pieces[k], sep) = <<pieces[k]>>
  BY <1>3, SplitWhole
<1>12. P(0)
  <2>1. 1 \in 1 .. n /\ 1 - 1 = 0
    BY <1>1, <1>2
  <2>2. Beginning(pieces, 1) = Append(<<>>, pieces[1])
    BY <1>10, <2>1
  <2>3. \A e : Append(<<>>, e) = <<e>>
    OBVIOUS
  <2>4. Split(f[1], sep) = Beginning(pieces, 1)
    BY <1>9, <1>11, <2>1, <2>2, <2>3
  <2> QED
    BY <2>4
<1>13. ASSUME NEW k \in Nat, P(k) PROVE P(k + 1)
  <2> SUFFICES ASSUME (k + 1) + 1 <= n PROVE Split(f[k + 2], sep) = Beginning(pieces, k + 2)
    OBVIOUS
  <2>1. k + 1 <= n /\ k + 2 \in 1 .. n /\ k + 2 # 1 /\ (k + 2) - 1 = k + 1 /\ k + 1 \in 0 .. n
    BY <1>1
  <2>2. f[k + 2] = f[k + 1] \o (<<sep>> \o pieces[k + 2]) /\ f[k + 1] \in Seq(C) /\ pieces[k + 2] \in Seq(C)
    BY <1>3, <1>5, <1>8, <2>1
  <2>3. f[k + 2] = f[k + 1] \o <<sep>> \o pieces[k + 2]
    <3>1. Associates(C)
      BY ConcatAssociates
    <3> QED
      BY <1>4, <2>2, <3>1 DEF Associates
  <2>4. Split(f[k + 2], sep) = Split(f[k + 1], sep) \o Split(pieces[k + 2], sep)
    <3>1. SplitsBetween(C, sep)
      BY <1>4, SplitThen
    <3> QED
      BY <2>2, <2>3, <3>1 DEF SplitsBetween
  <2>5. Split(f[k + 2], sep) = Beginning(pieces, k + 1) \o <<pieces[k + 2]>>
    BY <1>11, <1>13, <2>1, <2>4
  <2>6. Beginning(pieces, k + 1) \in Seq(Seq(D)) /\ pieces[k + 2] \in Seq(D)
    BY <1>3, <1>10, <2>1
  <2> QED
    BY <1>10, <2>1, <2>5, <2>6, AppendIsConcat
<1> HIDE DEF P
<1>14. 0 \in S /\ \A k \in Nat : k \in S => k + 1 \in S
  BY <1>12, <1>13
<1>15. n - 1 \in S
  <2>1. n - 1 \in Nat
    BY <1>1, <1>2
  <2> HIDE DEF S
  <2> QED
    BY <1>14, SetInduction, <2>1
<1>16. Split(f[n], sep) = pieces
  <2>1. (n - 1) + 1 = n /\ n <= n
    BY <1>1
  <2> QED
    BY <1>10, <1>15, <2>1 DEF P
<1>17. n \in 0 .. n
  BY <1>1
<1> QED
  BY <1>6, <1>7, <1>8, <1>16, <1>17 DEF C

-----------------------------------------------------------------------------
(* Parameters. *)

Parameters(D) == Seq([name : Seq(D), value : Seq(D)])

\* What is read of a query has neither "&" nor "=".
LEMMA ParseParamsType ==
  ASSUME NEW C, NEW query \in Seq(C)
  PROVE  ParseParams(query) \in Parameters(C \ {"&", "="})
<1> DEFINE D == C \ {"&"}
           E == C \ {"&", "="}
           pieces == Split(query, "&")
           kept == IF Last(pieces) = <<>> THEN Front(pieces) ELSE pieces
           Parameter(piece) == [name |-> Before(piece, "="), value |-> FlattenSeq(Tail(Split(piece, "=")))]
<1>1. pieces \in Seq(Seq(D)) /\ pieces # <<>>
  BY SplitType DEF Pieces
<1>2. kept \in Seq(Seq(D))
  <2>1. PICK n \in Nat : n = Len(pieces)
    BY <1>1, LenProperties
  <2>2. \A i \in 1 .. n - 1 : pieces[i] \in Seq(D)
    <3>1. \A i \in 1 .. n - 1 : i \in 1 .. n
      BY <2>1
    <3> HIDE DEF pieces, D
    <3> QED
      BY <1>1, <2>1, <3>1, ElementOfSeq
  <2> HIDE DEF pieces, D
  <2>3. Front(pieces) \in Seq(Seq(D))
    BY <2>1, <2>2, SubSeqProperties DEF Front
  <2> QED
    BY <1>1, <2>3
<1>3. D \ {"="} = E
  OBVIOUS
<1>4. ASSUME NEW piece \in Seq(D) PROVE Parameter(piece) \in [name : Seq(E), value : Seq(E)]
  <2> DEFINE halves == Split(piece, "=")
  <2>1. halves \in Seq(Seq(E)) /\ halves # <<>>
    <3>1. halves \in Pieces(D, "=")
      BY SplitType
    <3> QED
      BY <1>3, <3>1 DEF Pieces
  <2> HIDE DEF halves, E
  <2>2. Head(halves) \in Seq(E) /\ Tail(halves) \in Seq(Seq(E))
    BY <2>1, HeadTailProperties
  <2>3. FlattenSeq(Tail(halves)) \in Seq(E)
    BY <2>2, FlattenType
  <2> QED
    BY <2>2, <2>3 DEF halves, Before
<1>5. ParseParams(query) = Map(Parameter, kept)
  BY DEF ParseParams
<1> HIDE DEF kept, Parameter, D, E
<1>6. PICK m \in Nat : m = Len(kept)
  BY <1>2, LenProperties
<1>7. \A k \in 1 .. m : Parameter(kept[k]) \in [name : Seq(E), value : Seq(E)]
  BY <1>2, <1>4, <1>6, ElementOfSeq
<1>8. Map(Parameter, kept) \in Seq([name : Seq(E), value : Seq(E)])
  BY <1>6, <1>7 DEF Map
<1> QED
  BY <1>5, <1>8 DEF Parameters, E

PairsSplit(D, sep) ==
    \A a \in Seq(D), b \in Seq(D) :
        /\ a \o <<sep>> \o b \in Seq(D \union {sep}) /\ a \o <<sep>> \o b # <<>>
        /\ Split(a \o <<sep>> \o b, sep) = <<a, b>>

\* A name and a value that lack the mark are what is split at the mark between them.
LEMMA PairSplits ==
  ASSUME NEW D, NEW sep, sep \notin D
  PROVE  PairsSplit(D, sep)
<1> SUFFICES ASSUME NEW a \in Seq(D), NEW b \in Seq(D)
             PROVE  /\ a \o <<sep>> \o b \in Seq(D \union {sep}) /\ a \o <<sep>> \o b # <<>>
                    /\ Split(a \o <<sep>> \o b, sep) = <<a, b>>
  BY DEF PairsSplit
<1> DEFINE C == D \union {sep}
<1>1. a \in Seq(C) /\ b \in Seq(C) /\ <<sep>> \in Seq(C) /\ sep \in C
  <2>1. \A A, B : A \subseteq B => Seq(A) \subseteq Seq(B)
    OBVIOUS
  <2>2. Seq(D) \subseteq Seq(C)
    BY <2>1
  <2>3. \A S : \A e \in S : <<e>> \in Seq(S)
    OBVIOUS
  <2> QED
    BY <2>2, <2>3, Zenon
<1> HIDE DEF C
<1>2. a \o <<sep>> \in Seq(C) /\ a \o <<sep>> # <<>>
  <2>1. Append(a, sep) \in Seq(C) /\ Append(a, sep) # <<>> /\ Append(a, sep) = a \o <<sep>>
    BY <1>1, AppendProperties, AppendIsConcat
  <2> QED
    BY <2>1
<1>3. a \o <<sep>> \o b \in Seq(C) /\ a \o <<sep>> \o b # <<>>
  <2> DEFINE front == a \o <<sep>>
  <2> HIDE DEF front
  <2>1. front \in Seq(C) /\ front # <<>>
    BY <1>2 DEF front
  <2>2. front \o b \in Seq(C) /\ front \o b # <<>>
    <3> DEFINE whole == front \o b
    <3>1. PICK l \in Nat : l = Len(front) /\ l # 0
      BY <2>1, LenProperties, EmptySeq
    <3>2. PICK m \in Nat : m = Len(b)
      BY <1>1, LenProperties
    <3>3. whole \in Seq(C) /\ Len(whole) = l + m
      BY <1>1, <2>1, <3>1, <3>2, ConcatProperties
    <3> HIDE DEF whole
    <3>4. Len(whole) # 0
      BY <3>1, <3>2, <3>3, SMTT(30)
    <3>5. whole # <<>>
      BY <3>4, EmptySeq
    <3> QED
      BY <3>3, <3>5 DEF whole
  <2> QED
    BY <2>2 DEF front
<1>4. SplitsBetween(C, sep)
  BY <1>1, SplitThen
<1>5. Split(a \o <<sep>> \o b, sep) = Split(a, sep) \o Split(b, sep)
  BY <1>1, <1>4 DEF SplitsBetween
<1>6. Split(a, sep) = <<a>> /\ Split(b, sep) = <<b>>
  BY SplitWhole
<1>7. <<a>> \o <<b>> = <<a, b>>
  BY PairIs
<1> QED
  BY <1>3, <1>5, <1>6, <1>7 DEF C

\* The parameters that are written are read.
LEMMA QueryReadsBack ==
  ASSUME NEW D, "=" \notin D, "&" \notin D, NEW u, u.params \in Parameters(D), u.params # <<>>
  PROVE  /\ QueryText(u) \in Seq(D \union {"=", "&"}) /\ QueryText(u) # <<>>
         /\ ParseParams(QueryText(u)) = u.params
<1> DEFINE params == u.params
           E == D \union {"="}
           Pair(p) == p.name \o <<"=">> \o p.value
           Parameter(piece) == [name |-> Before(piece, "="), value |-> FlattenSeq(Tail(Split(piece, "=")))]
           pairs == [k \in 1 .. Len(params) |-> Pair(params[k])]
<1>1. PICK n \in Nat : n = Len(params)
  BY LenProperties DEF Parameters
<1>2. n # 0
  BY <1>1, EmptySeq DEF Parameters
<1>3. \A k \in 1 .. n : params[k] \in [name : Seq(D), value : Seq(D)]
  BY <1>1, ElementOfSeq DEF Parameters
<1>4. ASSUME NEW k \in 1 .. n
      PROVE  Pair(params[k]) \in Seq(E) /\ Pair(params[k]) # <<>> /\ Parameter(Pair(params[k])) = params[k]
  <2>1. params[k].name \in Seq(D) /\ params[k].value \in Seq(D) /\ params[k] = [name |-> params[k].name, value |-> params[k].value]
    BY <1>3
  <2> HIDE DEF params
  <2>2. Pair(params[k]) \in Seq(E) /\ Pair(params[k]) # <<>> /\ Split(Pair(params[k]), "=") = <<params[k].name, params[k].value>>
    <3>1. PairsSplit(D, "=")
      BY PairSplits
    <3> QED
      BY <2>1, <3>1 DEF PairsSplit
  <2>3. \A a, b : Head(<<a, b>>) = a /\ Tail(<<a, b>>) = <<b>>
    OBVIOUS
  <2>4. FlattenSeq(<<params[k].value>>) = params[k].value
    BY <2>1, FlattenOne
  <2> HIDE DEF Pair
  <2> QED
    BY <2>1, <2>2, <2>3, <2>4 DEF Before
<1> HIDE DEF params, Pair, Parameter, E
<1>5. pairs \in Seq(Seq(E)) /\ Len(pairs) = n /\ pairs # <<>> /\ \A k \in 1 .. n : pairs[k] = Pair(params[k])
  BY <1>1, <1>2, <1>4
<1>6. QueryText(u) = Join(pairs, "&")
  BY DEF QueryText, Map, params, Pair
<1> HIDE DEF pairs
<1>7. "&" \notin E
  BY DEF E
<1>8. Join(pairs, "&") \in Seq(E \union {"&"}) /\ Split(Join(pairs, "&"), "&") = pairs
  BY <1>5, <1>7, SplitJoin
<1>9. Last(pairs) # <<>>
  BY <1>1, <1>2, <1>4, <1>5 DEF Last
<1>10. ParseParams(QueryText(u)) = Map(Parameter, pairs)
  BY <1>6, <1>8, <1>9 DEF ParseParams, Parameter
<1>11. Map(Parameter, pairs) = params
  <2>1. Map(Parameter, pairs) = [k \in 1 .. n |-> Parameter(pairs[k])]
    BY <1>5 DEF Map
  <2>2. \A k \in 1 .. n : Parameter(pairs[k]) = params[k]
    BY <1>4, <1>5
  <2>3. params = [k \in 1 .. n |-> params[k]]
    BY <1>1 DEF params, Parameters
  <2> QED
    BY <2>1, <2>2, <2>3
<1>12. QueryText(u) # <<>>
  <2>1. Split(<<>>, "&") = << <<>> >>
    <3>1. <<>> \in Seq(E) /\ "&" \notin E
      BY <1>7, EmptySeq
    <3> QED
      BY <3>1, SplitWhole
  <2>2. Last(<< <<>> >>) = <<>>
    BY DEF Last
  <2> QED
    BY <1>6, <1>8, <1>9, <2>1, <2>2
<1>13. E \union {"&"} = D \union {"=", "&"}
  BY DEF E
<1> QED
  BY <1>6, <1>8, <1>10, <1>11, <1>12, <1>13 DEF params

-----------------------------------------------------------------------------
(* Reading a Url. *)

\* The reader of a text, character by character.
ReadsAlong(f, text) ==
    f[0] = StartReading(text) /\ \A k \in 1 .. Len(text) : f[k] = ReadNext(text, f[k - 1], k)
FoldsReading(h, text, n) ==
    h = [s \in SUBSET (1 .. n) |-> IF s = {} THEN StartReading(text) ELSE ReadNext(text, h[s \ {Max(s)}], Max(s))]

\* There is a function that reads a Url along each set of places, from its greatest.
LEMMA ReadingFolds ==
  ASSUME NEW text, NEW n \in Nat
  PROVE  \E h : FoldsReading(h, text, n)
<1> DEFINE b == StartReading(text)
           P(k) == \E h : FoldsReading(h, text, k)
           S == {k \in Nat : P(k)}
<1>1. P(0)
  <2> DEFINE h == [s \in SUBSET (1 .. 0) |-> b]
  <2>1. \A s \in SUBSET (1 .. 0) : s = {}
    <3>1. 1 .. 0 = {}
      OBVIOUS
    <3> QED
      BY <3>1
  <2>2. h = [s \in SUBSET (1 .. 0) |-> IF s = {} THEN b ELSE ReadNext(text, h[s \ {Max(s)}], Max(s))]
    BY <2>1
  <2> HIDE DEF h
  <2> QED
    BY <2>2 DEF FoldsReading
<1>2. ASSUME NEW k \in Nat, P(k) PROVE P(k + 1)
  <2>1. PICK f : FoldsReading(f, text, k)
    BY <1>2
  <2> DEFINE Next1(s, v) == IF s = {} THEN b ELSE ReadNext(text, v, Max(s))
  <2>2. \A s \in SUBSET (1 .. k) : f[s] = Next1(s, f[s \ {Max(s)}])
    BY <2>1 DEF FoldsReading
  <2> DEFINE h == [s \in SUBSET (1 .. (k + 1)) |-> IF k + 1 \in s THEN Next1(s, f[s \ {k + 1}]) ELSE f[s]]
  <2> HIDE DEF Next1
  <2>3. ASSUME NEW s \in SUBSET (1 .. (k + 1)) PROVE h[s] = Next1(s, h[s \ {Max(s)}])
    <3>1. CASE k + 1 \in s
      <4>1. Max(s) = k + 1
        BY <3>1, MaxIs
      <4>2. s \ {k + 1} \in SUBSET (1 .. (k + 1)) /\ k + 1 \notin s \ {k + 1}
        OBVIOUS
      <4>3. h[s \ {k + 1}] = f[s \ {k + 1}]
        BY <4>2
      <4>4. h[s] = Next1(s, f[s \ {k + 1}])
        BY <3>1
      <4> QED
        BY <4>1, <4>3, <4>4
    <3>2. CASE k + 1 \notin s
      <4>1. s \in SUBSET (1 .. k)
        BY <3>2
      <4>2. \A m : s \ {m} \in SUBSET (1 .. (k + 1)) /\ k + 1 \notin s \ {m}
        <5>1. \A m : s \ {m} \subseteq s
          OBVIOUS
        <5> QED
          BY <3>2, <5>1, Zenon
      <4>3. h[s \ {Max(s)}] = f[s \ {Max(s)}] /\ h[s] = f[s]
        BY <3>2, <4>2
      <4> QED
        BY <2>2, <4>1, <4>3
    <3> QED
      BY <3>1, <3>2
  <2>4. h = [s \in SUBSET (1 .. (k + 1)) |-> h[s]]
    OBVIOUS
  <2> HIDE DEF h
  <2>5. h = [s \in SUBSET (1 .. (k + 1)) |-> Next1(s, h[s \ {Max(s)}])]
    BY <2>3, <2>4
  <2> QED
    BY <2>5 DEF FoldsReading, Next1
<1> HIDE DEF P
<1>3. n \in S
  <2>1. 0 \in S /\ \A k \in Nat : k \in S => k + 1 \in S
    BY <1>1, <1>2
  <2> HIDE DEF S
  <2> QED
    BY <2>1, SetInduction
<1> QED
  BY <1>3 DEF P

\* ReadUrl reads one character after the other.
LEMMA UrlWalk ==
  ASSUME NEW C, NEW text \in Seq(C)
  PROVE  \E f : ReadsAlong(f, text) /\ ReadUrl(text) = f[Len(text)].url
<1>1. PICK n \in Nat : n = Len(text)
  BY LenProperties
<1> DEFINE numbers == [k \in 1 .. n |-> k]
<1>2. Len(numbers) = n /\ DOMAIN numbers = 1 .. n
  BY <1>1
<1> DEFINE b == StartReading(text)
           Eq(h) == h = [s \in SUBSET (1 .. n) |-> IF s = {} THEN b ELSE ReadNext(text, h[s \ {Max(s)}], numbers[Max(s)])]
           it == CHOOSE h : Eq(h)
<1>3. ReadUrl(text) = it[1 .. n].url
  <2> HIDE DEF b, numbers
  <2> QED
    BY <1>1, <1>2 DEF ReadUrl, FoldLeft, MapThenFoldSet, numbers, b
<1>4. Eq(it)
  <2>1. PICK h : FoldsReading(h, text, n)
    BY <1>1, ReadingFolds
  <2>2. ASSUME NEW s \in SUBSET (1 .. n) PROVE s # {} => numbers[Max(s)] = Max(s)
    BY <1>1, MaxBelongs
  <2>3. Eq(h)
    <3> HIDE DEF numbers
    <3> QED
      BY <2>1, <2>2 DEF FoldsReading
  <2> HIDE DEF Eq
  <2> QED
    BY <2>3
<1>5. it[{}] = b /\ \A s \in SUBSET (1 .. n) : s # {} => it[s] = ReadNext(text, it[s \ {Max(s)}], Max(s))
  <2>1. {} \in SUBSET (1 .. n)
    OBVIOUS
  <2>2. ASSUME NEW s \in SUBSET (1 .. n) PROVE s # {} => numbers[Max(s)] = Max(s)
    BY <1>1, MaxBelongs
  <2> HIDE DEF numbers, it
  <2> QED
    BY <1>4, <2>1, <2>2
<1> HIDE DEF it
<1> DEFINE f == [k \in 0 .. n |-> it[1 .. k]]
<1>6. f[0] = b
  <2>1. 1 .. 0 = {}
    OBVIOUS
  <2> QED
    BY <1>1, <1>5, <2>1
<1>7. ASSUME NEW k \in 1 .. n PROVE f[k] = ReadNext(text, f[k - 1], k)
  <2>1. Max(1 .. k) = k /\ 1 .. k \in SUBSET (1 .. n) /\ 1 .. k # {} /\ (1 .. k) \ {k} = 1 .. (k - 1)
    BY <1>1, InitialSegment
  <2>2. f[k] = it[1 .. k] /\ f[k - 1] = it[1 .. (k - 1)]
    BY <1>1
  <2> QED
    BY <1>5, <2>1, <2>2
<1>8. ReadUrl(text) = f[n].url
  BY <1>1, <1>3
<1> HIDE DEF f
<1> QED
  BY <1>1, <1>6, <1>7, <1>8 DEF ReadsAlong

\* A Url of which a part is being read, with no character to skip.
UrlParts == {"scheme", "user", "password", "host", "path"}
IsUrl(u) == u = [part \in UrlParts \union {"port", "params", "fragment"} |-> u[part]]
Reading(part, u) == [part |-> part, skip |-> 0, url |-> u]
\* The characters that end a part.
Ends(part) ==
    CASE part = "scheme" -> {":"} [] part = "user" -> {":", "@"} [] part = "password" -> {"@"}
      [] part = "host" -> {":", "/"} [] part = "port" -> {"/"} [] part = "path" -> {"?"}

\* A Url with another part.
With(u, part, w) == [u EXCEPT ![part] = w]

\* A Url whose part is longer by a character.
Longer(u, part, ch) == [u EXCEPT ![part] = Append(@, ch)]

\* A character that does not end a part leads to no other part.
LEMMA TurnsNowhere ==
  ASSUME NEW u, NEW part \in UrlParts \union {"port"}, NEW ch, ch \notin Ends(part)
  PROVE  Turn(Reading(part, u), ch) = {}
BY DEF Turn, Turns, Reading, Ends, UrlParts

\* Such a character is appended to the part.
LEMMA ReadingPart ==
  ASSUME NEW text, NEW u, IsUrl(u), NEW part \in UrlParts, NEW k, text[k] \notin Ends(part)
  PROVE  ReadNext(text, Reading(part, u), k) = Reading(part, Longer(u, part, text[k]))
<1> DEFINE r == Reading(part, u)
           ch == text[k]
           rest == SubSeq(text, k, Len(text))
<1>1. r.part = part /\ r.skip = 0 /\ r.url = u
  BY DEF Reading
<1>2. Turn(r, ch) = {}
  BY TurnsNowhere
<1>3. ~(r.part = "scheme" /\ ch = ":")
  BY <1>1 DEF Ends
<1>4. part \notin {"port", "query", "fragment", "over"}
  BY DEF UrlParts
<1>5. [r EXCEPT !.url = Longer(u, part, ch)] = Reading(part, Longer(u, part, ch))
  BY DEF Reading
<1> HIDE DEF r, ch
<1>6. ReadPart(r, ch, rest) = [r EXCEPT !.url = Longer(u, part, ch)]
  BY <1>1, <1>4 DEF ReadPart, Longer
<1>7. ~(r.skip > 0)
  BY <1>1
<1>8. ReadNext(text, r, k) = ReadPart(r, ch, rest)
  <2> HIDE DEF rest
  <2> QED
    BY <1>2, <1>3, <1>7 DEF ReadNext, ch, rest
<1> QED
  BY <1>5, <1>6, <1>8 DEF r, ch

\* What leads from one part to the next.
LEMMA ReadingOn ==
  ASSUME NEW text, NEW u, NEW k, NEW part \in UrlParts \union {"port"}, NEW to,
         [part |-> part, at |-> text[k], to |-> to] \in Turns
  PROVE  ReadNext(text, Reading(part, u), k) = Reading(to, u)
<1> DEFINE r == Reading(part, u)
           t == [part |-> part, at |-> text[k], to |-> to]
<1>1. r.part = part /\ r.skip = 0 /\ r.url = u
  BY DEF Reading
<1>2. \A s \in Turns : s.part = part /\ s.at = text[k] => s.to = to
  BY DEF Turns
<1>3. t \in Turn(r, text[k]) /\ \A s \in Turn(r, text[k]) : s.to = to
  BY <1>1, <1>2 DEF Turn
<1>4. Turn(r, text[k]) # {} /\ (CHOOSE s \in Turn(r, text[k]) : TRUE).to = to
  BY <1>3
<1>5. part # "scheme"
  BY DEF Turns
<1>6. [r EXCEPT !.part = to] = Reading(to, u)
  BY DEF Reading
<1> HIDE DEF r
<1>7. ~(r.skip > 0) /\ ~(r.part = "scheme" /\ text[k] = ":")
  BY <1>1, <1>5
<1>8. ReadNext(text, r, k) = [r EXCEPT !.part = (CHOOSE s \in Turn(r, text[k]) : TRUE).to]
  BY <1>4, <1>7 DEF ReadNext
<1> QED
  BY <1>4, <1>6, <1>8 DEF r

\* A Url whose port is greater by what a character counts.
Wrapped(x) == x % 65536
PortAdding(u, ch) == [u EXCEPT !["port"] = Wrapped(@ + CharCode(ch))]

\* In a port it is added, in 16 bits.
LEMMA ReadingPort ==
  ASSUME NEW text, NEW u, IsUrl(u), NEW k, text[k] # "/"
  PROVE  ReadNext(text, Reading("port", u), k) = Reading("port", PortAdding(u, text[k]))
<1> DEFINE r == Reading("port", u)
           ch == text[k]
           rest == SubSeq(text, k, Len(text))
           v == PortAdding(u, ch)
<1>1. r.part = "port" /\ r.skip = 0 /\ r.url = u
  BY DEF Reading
<1>2. Turn(r, ch) = {}
  BY TurnsNowhere DEF Ends
<1>5. [r EXCEPT !.url = v] = Reading("port", v)
  BY DEF Reading
<1> HIDE DEF r, ch
<1>6. ReadPart(r, ch, rest) = [r EXCEPT !.url = v]
  BY <1>1 DEF ReadPart, PortAdding, Wrapped
<1>7. ~(r.skip > 0) /\ ~(r.part = "scheme" /\ ch = ":")
  BY <1>1
<1>8. ReadNext(text, r, k) = ReadPart(r, ch, rest)
  <2> HIDE DEF rest
  <2> QED
    BY <1>2, <1>7 DEF ReadNext, ch, rest
<1> QED
  BY <1>5, <1>6, <1>8 DEF r, ch

\* What is skipped behind a scheme.
LEMMA ReadingSchemeEnd ==
  ASSUME NEW text, NEW f, ReadsAlong(f, text), NEW u, NEW a \in Nat, a + 3 <= Len(text), Len(text) \in Nat,
         f[a] = Reading("scheme", u), text[a + 1] = ":"
  PROVE  f[a + 3] = Reading(IF HasUser(text) THEN "user" ELSE "host", u)
<1> DEFINE to == IF HasUser(text) THEN "user" ELSE "host"
           Skipping(k) == [part |-> to, skip |-> k, url |-> u]
<1>1. /\ f[a + 1] = ReadNext(text, f[a], a + 1)
      /\ f[a + 2] = ReadNext(text, f[a + 1], a + 2)
      /\ f[a + 3] = ReadNext(text, f[a + 2], a + 3)
  <2>1. a + 1 \in 1 .. Len(text) /\ a + 2 \in 1 .. Len(text) /\ a + 3 \in 1 .. Len(text)
    OBVIOUS
  <2>2. (a + 1) - 1 = a /\ (a + 2) - 1 = a + 1 /\ (a + 3) - 1 = a + 2
    OBVIOUS
  <2> QED
    BY <2>1, <2>2 DEF ReadsAlong
<1>2. f[a + 1] = Skipping(2)
  <2> DEFINE r == Reading("scheme", u)
  <2>1. r.skip = 0 /\ r.part = "scheme" /\ ~(r.skip > 0) /\ Turn(r, ":") = {}
    BY DEF Reading, Turn, Turns
  <2>2. [[r EXCEPT !.part = to] EXCEPT !.skip = 2] = Skipping(2)
    <3> DEFINE q == [part |-> to, skip |-> 0, url |-> u]
    <3> HIDE DEF to
    <3>1. [r EXCEPT !.part = to] = q
      BY DEF Reading, r
    <3>2. [q EXCEPT !.skip = 2] = Skipping(2)
      OBVIOUS
    <3> QED
      BY <3>1, <3>2
  <2> HIDE DEF r
  <2>3. ReadNext(text, r, a + 1) = [[r EXCEPT !.part = to] EXCEPT !.skip = 2]
    <3>1. CASE HasUser(text)
      BY <2>1, <3>1 DEF ReadNext
    <3>2. CASE ~HasUser(text)
      BY <2>1, <3>2 DEF ReadNext
    <3> QED
      BY <3>1, <3>2
  <2> QED
    BY <1>1, <2>2, <2>3 DEF r
<1>3. \A k \in 1 .. 2 : \A j : ReadNext(text, Skipping(k), j) = Skipping(k - 1)
  <2> SUFFICES ASSUME NEW k \in 1 .. 2, NEW j PROVE ReadNext(text, Skipping(k), j) = Skipping(k - 1)
    OBVIOUS
  <2> DEFINE r == Skipping(k)
  <2>1. r.skip > 0 /\ [r EXCEPT !.skip = r.skip - 1] = Skipping(k - 1)
    OBVIOUS
  <2> HIDE DEF r
  <2>2. ReadNext(text, r, j) = [r EXCEPT !.skip = r.skip - 1]
    BY <2>1 DEF ReadNext
  <2> QED
    BY <2>1, <2>2 DEF r
<1>4. f[a + 2] = Skipping(1) /\ f[a + 3] = Skipping(0)
  <2>1. 2 \in 1 .. 2 /\ 1 \in 1 .. 2 /\ 2 - 1 = 1 /\ 1 - 1 = 0
    OBVIOUS
  <2> HIDE DEF Skipping
  <2> QED
    BY <1>1, <1>2, <1>3, <2>1
<1> QED
  BY <1>4 DEF Reading

\* w is in the text, behind its first a characters.
Has(text, a, w) == \A j \in 1 .. Len(w) : text[a + j] = w[j]

\* A part of which nothing was read is what is in the text up to its end.
WordAt(text, a, w, e) == Len(text) \in Nat /\ e <= Len(text) /\ e = a + Len(w) /\ Has(text, a, w)

\* A word without the characters that end the part is read as the part.
LEMMA ReadingWord ==
  ASSUME NEW C, NEW text, NEW f, ReadsAlong(f, text), NEW part \in UrlParts, NEW u, IsUrl(u), u[part] = <<>>,
         NEW a \in Nat, NEW w \in Seq(C), C \intersect Ends(part) = {}, NEW e, WordAt(text, a, w, e), f[a] = Reading(part, u)
  PROVE  f[e] = Reading(part, With(u, part, w))
<1>0. PICK n \in Nat, m \in Nat : n = Len(text) /\ m = Len(w) /\ e = a + m /\ a + m <= n /\ Has(text, a, w)
  BY LenProperties DEF WordAt
<1> DEFINE v(k) == [u EXCEPT ![part] = Beginning(w, k)]
<1>1. \A k : IsUrl(v(k)) /\ v(k)[part] = Beginning(w, k)
  BY DEF IsUrl
<1>2. \A k, ch : [v(k) EXCEPT ![part] = Append(@, ch)] = [u EXCEPT ![part] = Append(Beginning(w, k), ch)]
  BY DEF IsUrl
<1>3. v(0) = u
  <2>1. Beginning(w, 0) = <<>>
    BY <1>0, BeginningIs
  <2> QED
    BY <2>1 DEF IsUrl
<1> DEFINE S == {k \in Nat : k <= m => f[a + k] = Reading(part, v(k))}
<1>4. 0 \in S
  <2>1. a + 0 = a
    OBVIOUS
  <2> QED
    BY <1>3, <2>1
<1> HIDE DEF v
<1>5. ASSUME NEW k \in Nat, k \in S PROVE k + 1 \in S
  <2> SUFFICES ASSUME k + 1 <= m PROVE f[a + (k + 1)] = Reading(part, v(k + 1))
    OBVIOUS
  <2>1. f[a + k] = Reading(part, v(k))
    BY <1>5
  <2>2. a + (k + 1) \in 1 .. n /\ (a + (k + 1)) - 1 = a + k /\ k + 1 \in 1 .. m /\ (k + 1) - 1 = k
    BY <1>0, SMTT(30)
  <2>3. text[a + (k + 1)] = w[k + 1] /\ w[k + 1] \in C
    BY <1>0, <2>2, ElementOfSeq DEF Has
  <2>4. text[a + (k + 1)] \notin Ends(part)
    BY <2>3
  <2>5. ReadNext(text, Reading(part, v(k)), a + (k + 1)) = Reading(part, Longer(v(k), part, text[a + (k + 1)]))
    BY <1>1, <2>4, ReadingPart
  <2>6. f[a + (k + 1)] = ReadNext(text, f[a + k], a + (k + 1))
    BY <1>0, <2>2 DEF ReadsAlong
  <2>7. Beginning(w, k + 1) = Append(Beginning(w, k), w[k + 1])
    BY <1>0, <2>2, BeginningIs
  <2>8. Longer(v(k), part, w[k + 1]) = v(k + 1)
    BY <1>2, <2>7 DEF v, Longer
  <2> QED
    BY <2>1, <2>3, <2>5, <2>6, <2>8
<1>6. m \in S
  <2> HIDE DEF S
  <2> QED
    BY <1>0, <1>4, <1>5, SetInduction
<1>7. v(m) = With(u, part, w)
  BY <1>0, BeginningIs DEF v, With
<1>8. f[e] = Reading(part, v(m))
  BY <1>0, <1>6
<1> QED
  BY <1>7, <1>8

\* The code of a digit is one of ten.
LEMMA CharCodeType ==
  ASSUME NEW ch \in {Digits[k] : k \in 0 .. 9}
  PROVE  CharCode(ch) \in 48 .. 57
<1> DEFINE Is(code) == (\E k \in 0 .. 9 : ch = Digits[k]) => \E k \in 0 .. 9 : ch = Digits[k] /\ code = 48 + k
<1>1. PICK k \in 0 .. 9 : ch = Digits[k]
  OBVIOUS
<1>2. 48 + k \in 0 .. 255 /\ Is(48 + k)
  BY <1>1
<1>3. CharCode(ch) = CHOOSE code \in 0 .. 255 : Is(code)
  BY DEF CharCode
<1>4. Is(CharCode(ch))
  <2> HIDE DEF Is
  <2> QED
    BY <1>2, <1>3
<1>5. PICK j \in 0 .. 9 : CharCode(ch) = 48 + j
  BY <1>1, <1>4
<1> QED
  BY <1>5

DigitCharacters == {"0", "1", "2", "3", "4", "5", "6", "7", "8", "9"}

\* The digits are those characters.
LEMMA DigitsAre ==
  \A k \in 0 .. 9 : Digits[k] \in DigitCharacters
<1> DEFINE all == <<"0", "1", "2", "3", "4", "5", "6", "7", "8", "9">>
<1>1. \A j \in 1 .. 10 : all[j] \in DigitCharacters
  BY DEF DigitCharacters
<1>2. \A k \in 0 .. 9 : k + 1 \in 1 .. 10 /\ Digits[k] = all[k + 1]
  BY DEF Digits
<1> HIDE DEF all
<1> QED
  BY <1>1, <1>2

\* The sums of m digits.
Sums(m) == 48 * m .. 57 * m
DigitCodes == 48 .. 57
Short == 0 .. 4

\* One more digit adds its code to a sum of at most four, without leaving 16 bits.
LEMMA OneMoreDigit ==
  \A k \in Short, code \in DigitCodes : \A x \in Sums(k) : x + code \in Sums(k + 1) /\ Wrapped(x + code) = x + code
<1> SUFFICES ASSUME NEW k \in 0 .. 4, NEW code \in 48 .. 57, NEW x \in Sums(k)
             PROVE  x + code \in Sums(k + 1) /\ Wrapped(x + code) = x + code
  BY DEF Short, DigitCodes
<1>1. x + code \in Sums(k + 1)
  BY DEF Sums
<1>2. x + code \in 0 .. 285
  BY DEF Sums
<1>3. \A z \in 0 .. 285 : Wrapped(z) = z
  BY DEF Wrapped
<1> QED
  BY <1>1, <1>2, <1>3

DigitText == Seq({Digits[k] : k \in 0 .. 9})

\* A port is between the sums of as many zeros and nines.
ReadsPort(f, e, u, m) == \E x \in Sums(m) : f[e] = Reading("port", With(u, "port", x))

\* Digits in the place of the port add up to one of their sums.
LEMMA ReadingDigits ==
  ASSUME NEW text, NEW f, ReadsAlong(f, text), NEW u, IsUrl(u), u["port"] = 0,
         NEW a \in Nat, NEW w \in DigitText, Has(text, a, w), NEW n \in Nat, n = Len(text),
         NEW m \in 0 .. 5, m = Len(w), NEW e \in Nat, e = a + m, e <= n, f[a] = Reading("port", u)
  PROVE  ReadsPort(f, e, u, m)
<1> DEFINE v(x) == [u EXCEPT !["port"] = x]
           P(k) == \E x \in Sums(k) : f[a + k] = Reading("port", v(x))
<1>1. \A x : IsUrl(v(x)) /\ v(x)["port"] = x
  BY DEF IsUrl
<1>2. \A x, y : [v(x) EXCEPT !["port"] = y] = v(y)
  BY DEF IsUrl
<1>3. v(0) = u
  BY DEF IsUrl
<1> DEFINE S == {k \in Nat : k <= m => P(k)}
<1> HIDE DEF v
<1>4. 0 \in S
  <2>1. a + 0 = a /\ 0 \in Sums(0)
    BY DEF Sums
  <2> QED
    BY <1>3, <2>1
<1>5. ASSUME NEW k \in Nat, k \in S PROVE k + 1 \in S
  <2> SUFFICES ASSUME k + 1 <= m PROVE P(k + 1)
    OBVIOUS
  <2>1. PICK x \in Sums(k) : f[a + k] = Reading("port", v(x))
    BY <1>5
  <2> DEFINE i == a + (k + 1)
  <2>2. i \in 1 .. n /\ i - 1 = a + k /\ k + 1 \in 1 .. m
    OBVIOUS
  <2>3. text[i] = w[k + 1] /\ w[k + 1] \in {Digits[j] : j \in 0 .. 9}
    BY <2>2, ElementOfSeq DEF Has, DigitText
  <2>4. text[i] # "/"
    <3>1. "/" \notin DigitCharacters
      BY DEF DigitCharacters
    <3> QED
      BY <2>3, <3>1, DigitsAre
  <2> DEFINE y == x + CharCode(text[i])
  <2>5. y \in Sums(k + 1) /\ Wrapped(y) = y
    <3>1. CharCode(text[i]) \in DigitCodes
      BY <2>3, CharCodeType DEF DigitCodes
    <3>2. k \in Short
      BY DEF Short
    <3> HIDE DEF i
    <3> QED
      BY <2>1, <3>1, <3>2, OneMoreDigit, Zenon
  <2>6. ReadNext(text, Reading("port", v(x)), i) = Reading("port", v(y))
    <3>1. ReadNext(text, Reading("port", v(x)), i) = Reading("port", PortAdding(v(x), text[i]))
      BY <1>1, <2>4, ReadingPort
    <3>2. PortAdding(v(x), text[i]) = [v(x) EXCEPT !["port"] = Wrapped(y)]
      <4>1. v(x)["port"] = x
        BY <1>1
      <4>2. PortAdding(v(x), text[i]) = [v(x) EXCEPT !["port"] = Wrapped(v(x)["port"] + CharCode(text[i]))]
        BY Zenon DEF PortAdding
      <4> QED
        BY <4>1, <4>2, Zenon
    <3>3. PortAdding(v(x), text[i]) = v(y)
      <4> HIDE DEF y
      <4> QED
        BY <1>2, <2>5, <3>2
    <3> QED
      BY <3>1, <3>3, Zenon
  <2>7. f[i] = ReadNext(text, f[i - 1], i)
    BY <2>2 DEF ReadsAlong
  <2> HIDE DEF y, i
  <2>8. f[i] = Reading("port", v(y))
    <3>1. f[i - 1] = Reading("port", v(x))
      BY <2>1, <2>2
    <3> QED
      BY <2>6, <2>7, <3>1, Zenon
  <2>9. f[a + (k + 1)] = Reading("port", v(y))
    BY <2>8 DEF i
  <2> HIDE DEF S
  <2> QED
    BY <2>5, <2>9
<1> HIDE DEF P
<1>6. m \in S
  <2> HIDE DEF S
  <2> QED
    BY <1>4, <1>5, SetInduction
<1>7. P(m)
  BY <1>6
<1> QED
  BY <1>7 DEF P, v, With, ReadsPort

\* A query takes all the rest, unless it begins a fragment.
EndsWith(text, a, n, w) == n = Len(text) /\ Len(w) # 0 /\ n = a + Len(w) /\ Has(text, a, w)

\* A query up to the end of the text, without a fragment, is read as its parameters.
LEMMA ReadingQuery ==
  ASSUME NEW C, NEW text \in Seq(C), NEW f, ReadsAlong(f, text), NEW u, IsUrl(u), NEW n \in Nat, NEW a \in Nat,
         NEW w \in Seq(C \ {"#"}), EndsWith(text, a, n, w), f[a] = Reading("query", u)
  PROVE  f[n] = Reading("over", With(u, "params", ParseParams(w)))
<1> DEFINE over == Reading("over", [u EXCEPT !["params"] = ParseParams(w)])
<1>1. a + 1 \in 1 .. n /\ (a + 1) - 1 = a /\ 1 \in 1 .. Len(w) /\ Len(w) \in Nat /\ Len(w) = n - a
  BY LenProperties DEF EndsWith
<1>0. n = Len(text) /\ Has(text, a, w)
  BY DEF EndsWith
<1>2. SubSeq(text, a + 1, n) = w
  <2> DEFINE rest == SubSeq(text, a + 1, n)
  <2>1. \A i \in (a + 1) .. n : text[i] \in C
    <3>1. \A i \in 1 .. n : text[i] \in C
      BY <1>0, ElementOfSeq
    <3>2. (a + 1) .. n \subseteq 1 .. n
      OBVIOUS
    <3> QED
      BY <3>1, <3>2, Zenon
  <2>2. rest \in Seq(C) /\ Len(rest) = n - a /\ \A j \in 1 .. (n - a) : rest[j] = text[a + j]
    <3>1. rest \in Seq(C) /\ Len(rest) = (IF a + 1 <= n THEN n - (a + 1) + 1 ELSE 0) /\ \A i \in 1 .. n - (a + 1) + 1 : rest[i] = text[(a + 1) + i - 1]
      BY <2>1, SubSeqProperties
    <3>2. a + 1 <= n /\ n - (a + 1) + 1 = n - a /\ \A j \in 1 .. (n - a) : (a + 1) + j - 1 = a + j
      BY <1>1
    <3> HIDE DEF rest
    <3> QED
      BY <3>1, <3>2
  <2>3. w \in Seq(C)
    <3>1. \A i \in 1 .. Len(w) : w[i] \in C \ {"#"}
      BY ElementOfSeq
    <3> QED
      BY <3>1
  <2> HIDE DEF rest
  <2>4. \A j \in 1 .. Len(rest) : rest[j] = w[j]
    BY <1>0, <1>1, <2>2 DEF Has
  <2> QED
    BY <1>1, <2>2, <2>3, <2>4, SeqEqual DEF rest
<1>3. text[a + 1] # "#"
  <2>1. w[1] \in C \ {"#"}
    BY <1>1, ElementOfSeq
  <2> QED
    BY <1>0, <1>1, <2>1 DEF Has
<1>4. f[a + 1] = over
  <2> DEFINE r == Reading("query", u)
             ch == text[a + 1]
  <2>1. r.part = "query" /\ r.skip = 0 /\ r.url = u /\ ~(r.skip > 0) /\ Turn(r, ch) = {}
    BY DEF Reading, Turn, Turns
  <2>2. f[a + 1] = ReadNext(text, r, a + 1)
    BY <1>0, <1>1 DEF ReadsAlong
  <2> DEFINE v == [u EXCEPT !["params"] = ParseParams(w)]
             q == [part |-> "over", skip |-> 0, url |-> u]
  <2>3. [r EXCEPT !.part = "over"] = q
    BY DEF Reading
  <2>4. [q EXCEPT !.url = v] = over
    BY SMTT(30) DEF Reading, With
  <2> HIDE DEF r, ch
  <2>5. ReadNext(text, r, a + 1) = ReadPart(r, ch, w)
    BY <1>0, <1>2, <2>1 DEF ReadNext, ch
  <2>6. ReadPart(r, ch, w) = [q EXCEPT !.url = v]
    <3>1. ch # "#" /\ q.url = u
      BY <1>3 DEF ch
    <3>2. (IF ch = "#" THEN "fragment" ELSE "over") = "over"
      BY <3>1
    <3>3. ReadPart(r, ch, w) =
            [[r EXCEPT !.part = IF ch = "#" THEN "fragment" ELSE "over"] EXCEPT
                !.url = [[r EXCEPT !.part = IF ch = "#" THEN "fragment" ELSE "over"].url EXCEPT !.params = Query(w)]]
      BY <2>1, SMT DEF ReadPart
    <3>4. ReadPart(r, ch, w) = [q EXCEPT !.url = [q.url EXCEPT !.params = Query(w)]]
      <4> HIDE DEF q
      <4> QED
        BY <2>3, <3>2, <3>3, Zenon
    <3>5. [q.url EXCEPT !.params = Query(w)] = v
      <4> HIDE DEF q
      <4> QED
        BY <3>1 DEF Query
    <3> HIDE DEF q, v
    <3> QED
      BY <3>4, <3>5, Zenon
  <2> QED
    BY <2>2, <2>3, <2>4, <2>5, <2>6
<1>5. \A k : ReadNext(text, over, k) = over
  <2> SUFFICES ASSUME NEW k PROVE ReadNext(text, over, k) = over
    OBVIOUS
  <2>1. \A ch : Turn(over, ch) = {}
    BY DEF Turn, Turns, Reading
  <2>2. over.part = "over" /\ over.skip = 0 /\ ~(over.skip > 0)
    BY DEF Reading
  <2> HIDE DEF over
  <2> QED
    BY <2>1, <2>2 DEF ReadNext, ReadPart
<1> HIDE DEF over
<1> DEFINE S == {k \in Nat : (a + 1) + k <= n => f[(a + 1) + k] = over}
<1>6. 0 \in S
  BY <1>4
<1>7. ASSUME NEW k \in Nat, k \in S PROVE k + 1 \in S
  <2> SUFFICES ASSUME (a + 1) + (k + 1) <= n PROVE f[(a + 1) + (k + 1)] = over
    OBVIOUS
  <2>1. f[(a + 1) + k] = over
    BY <1>7
  <2>2. (a + 1) + (k + 1) \in 1 .. n /\ ((a + 1) + (k + 1)) - 1 = (a + 1) + k
    OBVIOUS
  <2>3. f[(a + 1) + (k + 1)] = ReadNext(text, f[(a + 1) + k], (a + 1) + (k + 1))
    BY <1>0, <2>2 DEF ReadsAlong
  <2> QED
    BY <1>5, <2>1, <2>3
<1>8. n - (a + 1) \in S
  <2>1. n - (a + 1) \in Nat
    BY <1>1
  <2> HIDE DEF S
  <2> QED
    BY <1>6, <1>7, <2>1, SetInduction
<1>9. f[n] = over
  BY <1>8
<1> QED
  BY <1>9 DEF over, With

\* The Url of what was read of each part.
UrlOf(scheme, user, password, host, port, path, params) ==
    [scheme |-> scheme, user |-> user, password |-> password, host |-> host, port |-> port, path |-> path,
     params |-> params, fragment |-> <<>>]

\* To replace a part of a Url is to make it of the other parts and this one.
LEMMA UrlOfIs ==
  ASSUME NEW s, NEW us, NEW pw, NEW h, NEW p, NEW x, NEW ps, NEW v
  PROVE  /\ IsUrl(UrlOf(s, us, pw, h, p, x, ps))
         /\ With(UrlOf(s, us, pw, h, p, x, ps), "scheme", v) = UrlOf(v, us, pw, h, p, x, ps)
         /\ With(UrlOf(s, us, pw, h, p, x, ps), "user", v) = UrlOf(s, v, pw, h, p, x, ps)
         /\ With(UrlOf(s, us, pw, h, p, x, ps), "password", v) = UrlOf(s, us, v, h, p, x, ps)
         /\ With(UrlOf(s, us, pw, h, p, x, ps), "host", v) = UrlOf(s, us, pw, v, p, x, ps)
         /\ With(UrlOf(s, us, pw, h, p, x, ps), "port", v) = UrlOf(s, us, pw, h, v, x, ps)
         /\ With(UrlOf(s, us, pw, h, p, x, ps), "path", v) = UrlOf(s, us, pw, h, p, v, ps)
         /\ With(UrlOf(s, us, pw, h, p, x, ps), "params", v) = UrlOf(s, us, pw, h, p, x, v)
<1> DEFINE u == UrlOf(s, us, pw, h, p, x, ps)
<1>1. IsUrl(u)
  BY DEF UrlOf, IsUrl, UrlParts
<1>2. With(u, "scheme", v) = UrlOf(v, us, pw, h, p, x, ps)
  BY DEF UrlOf, With
<1>3. With(u, "user", v) = UrlOf(s, v, pw, h, p, x, ps)
  BY DEF UrlOf, With
<1>4. With(u, "password", v) = UrlOf(s, us, v, h, p, x, ps)
  BY DEF UrlOf, With
<1>5. With(u, "host", v) = UrlOf(s, us, pw, v, p, x, ps)
  BY DEF UrlOf, With
<1>6. With(u, "port", v) = UrlOf(s, us, pw, h, v, x, ps)
  BY DEF UrlOf, With
<1>7. With(u, "path", v) = UrlOf(s, us, pw, h, p, v, ps)
  BY DEF UrlOf, With
<1>8. With(u, "params", v) = UrlOf(s, us, pw, h, p, x, v)
  BY DEF UrlOf, With
<1> QED
  BY <1>1, <1>2, <1>3, <1>4, <1>5, <1>6, <1>7, <1>8

\* A Url has the parts it is made of.
LEMMA UrlOfParts ==
  ASSUME NEW s, NEW us, NEW pw, NEW h, NEW p, NEW x, NEW ps
  PROVE  LET u == UrlOf(s, us, pw, h, p, x, ps)
         IN /\ u["scheme"] = s /\ u["user"] = us /\ u["password"] = pw /\ u["host"] = h
            /\ u["port"] = p /\ u["path"] = x /\ u["params"] = ps /\ u["fragment"] = <<>>
BY DEF UrlOf

\* The scheme.
BeginsAt(text, a) == text[a + 1] = ":" /\ text[a + 2] = "/" /\ text[a + 3] = "/"
SchemeRead(text, f, a, s) ==
    f[a + 3] = Reading(IF HasUser(text) THEN "user" ELSE "host", UrlOf(s, <<>>, <<>>, <<>>, 0, <<>>, <<>>))

\* What is in front of "://" is read as the scheme; then follows the user, or the host.
LEMMA ReadingScheme ==
  ASSUME NEW C, NEW text, NEW f, ReadsAlong(f, text), Len(text) \in Nat,
         NEW s \in Seq(C \ {":"}), NEW a \in Nat, a = Len(s), a + 3 <= Len(text), Has(text, 0, s),
         BeginsAt(text, a), HasScheme(text)
  PROVE  SchemeRead(text, f, a, s)
<1> DEFINE u == UrlOf(<<>>, <<>>, <<>>, <<>>, 0, <<>>, <<>>)
           v == UrlOf(s, <<>>, <<>>, <<>>, 0, <<>>, <<>>)
<1>1. f[0] = Reading("scheme", u)
  BY DEF ReadsAlong, StartReading, Reading, NewUrl, UrlOf
<1>2. IsUrl(u) /\ u["scheme"] = <<>> /\ With(u, "scheme", s) = v
  BY UrlOfIs, UrlOfParts
<1> HIDE DEF u, v
<1>3. f[a] = Reading("scheme", With(u, "scheme", s))
  <2>1. "scheme" \in UrlParts /\ (C \ {":"}) \intersect Ends("scheme") = {} /\ 0 \in Nat
    BY DEF UrlParts, Ends
  <2>2. WordAt(text, 0, s, a)
    BY DEF WordAt
  <2> QED
    BY <1>1, <1>2, <2>1, <2>2, ReadingWord
<1>4. f[a] = Reading("scheme", v)
  BY <1>2, <1>3
<1>5. f[a + 3] = Reading(IF HasUser(text) THEN "user" ELSE "host", v)
  <2>1. text[a + 1] = ":"
    BY DEF BeginsAt
  <2> QED
    BY <1>4, <2>1, ReadingSchemeEnd
<1> QED
  BY <1>5 DEF v, SchemeRead

\* The user and the password.
LaidLogin(text, a, us, pw, e) ==
    IF us = <<>> THEN e = a /\ pw = <<>>
    ELSE /\ e = a + Len(us) + 1 + Len(pw) + 1
         /\ Has(text, a, us) /\ text[a + Len(us) + 1] = ":"
         /\ Has(text, a + Len(us) + 1, pw) /\ text[e] = "@"
UserReached(f, a, s) == f[a] = Reading("user", UrlOf(s, <<>>, <<>>, <<>>, 0, <<>>, <<>>))
HostReached(f, e, s, us, pw) == f[e] = Reading("host", UrlOf(s, us, pw, <<>>, 0, <<>>, <<>>))

\* The user and the password are read up to the "@".
LEMMA ReadingLogin ==
  ASSUME NEW C, NEW text, Len(text) \in Nat, NEW f, ReadsAlong(f, text), NEW s,
         NEW us \in Seq(C \ {":", "@"}), NEW pw \in Seq(C \ {"@"}), us # <<>>, NEW a \in Nat, NEW e, e <= Len(text),
         LaidLogin(text, a, us, pw, e),
         UserReached(f, a, s)
  PROVE  HostReached(f, e, s, us, pw)
<1>0. PICK b \in Nat, c \in Nat : b = a + Len(us) /\ c = b + 1 + Len(pw) /\ e = c + 1
  <2>1. Len(us) \in Nat /\ Len(pw) \in Nat
    BY LenProperties
  <2>2. a + Len(us) \in Nat /\ a + Len(us) + 1 + Len(pw) \in Nat
    BY <2>1
  <2> QED
    BY <2>1, <2>2 DEF LaidLogin
<1> DEFINE u0 == UrlOf(s, <<>>, <<>>, <<>>, 0, <<>>, <<>>)
           u1 == UrlOf(s, us, <<>>, <<>>, 0, <<>>, <<>>)
           u2 == UrlOf(s, us, pw, <<>>, 0, <<>>, <<>>)
<1>1. /\ IsUrl(u0) /\ u0["user"] = <<>> /\ With(u0, "user", us) = u1
      /\ IsUrl(u1) /\ u1["password"] = <<>> /\ With(u1, "password", pw) = u2
  BY UrlOfIs, UrlOfParts
<1>2. f[a] = Reading("user", u0)
  BY DEF UserReached
<1> HIDE DEF u0, u1, u2
<1>3. WordAt(text, a, us, b) /\ text[b + 1] = ":" /\ WordAt(text, b + 1, pw, c) /\ text[c + 1] = "@"
  <2>1. Len(us) \in Nat /\ Len(pw) \in Nat
    BY LenProperties
  <2> QED
    BY <1>0, <2>1 DEF LaidLogin, WordAt
<1>4. f[b] = Reading("user", u1)
  <2>1. "user" \in UrlParts /\ (C \ {":", "@"}) \intersect Ends("user") = {}
    BY DEF UrlParts, Ends
  <2>2. f[b] = Reading("user", With(u0, "user", us))
    BY <1>1, <1>2, <1>3, <2>1, ReadingWord
  <2> QED
    BY <1>1, <1>3, <2>2
<1>5. f[b + 1] = Reading("password", u1)
  <2>1. [part |-> "user", at |-> ":", to |-> "password"] \in Turns /\ "user" \in UrlParts \union {"port"}
    BY DEF Turns, UrlParts
  <2>2. ReadNext(text, Reading("user", u1), b + 1) = Reading("password", u1)
    BY <1>3, <2>1, ReadingOn
  <2>3. b + 1 \in 1 .. Len(text) /\ (b + 1) - 1 = b
    <3>1. Len(pw) \in Nat
      BY LenProperties
    <3> QED
      BY <1>0, <3>1
  <2> QED
    BY <1>4, <2>2, <2>3 DEF ReadsAlong
<1>6. f[c] = Reading("password", u2)
  <2>1. "password" \in UrlParts /\ (C \ {"@"}) \intersect Ends("password") = {} /\ b + 1 \in Nat
    BY DEF UrlParts, Ends
  <2>2. f[c] = Reading("password", With(u1, "password", pw))
    BY <1>1, <1>3, <1>5, <2>1, ReadingWord
  <2> QED
    BY <1>1, <1>3, <2>2
<1>7. f[c + 1] = Reading("host", u2)
  <2>1. [part |-> "password", at |-> "@", to |-> "host"] \in Turns /\ "password" \in UrlParts \union {"port"}
    BY DEF Turns, UrlParts
  <2>2. ReadNext(text, Reading("password", u2), c + 1) = Reading("host", u2)
    BY <1>3, <2>1, ReadingOn
  <2>3. c + 1 \in 1 .. Len(text) /\ (c + 1) - 1 = c
    BY <1>0
  <2> QED
    BY <1>6, <2>2, <2>3 DEF ReadsAlong
<1> QED
  BY <1>0, <1>7 DEF u2, HostReached

\* The host, and the port if there is one, up to the slash behind them.
HostRead(text, f, b, u) ==
    /\ text[b + 1] = "/" => f[b + 1] = Reading("path", u)
    /\ text[b + 1] = ":" => f[b + 1] = Reading("port", u)

\* The host is read up to the port or the path.
LEMMA ReadingHost ==
  ASSUME NEW C, NEW text, NEW f, ReadsAlong(f, text), NEW n \in Nat, n = Len(text), NEW s, NEW us, NEW pw,
         NEW h \in Seq(C \ {":", "/"}), NEW a \in Nat, NEW b \in Nat, b = a + Len(h), b + 1 <= n, Has(text, a, h),
         f[a] = Reading("host", UrlOf(s, us, pw, <<>>, 0, <<>>, <<>>))
  PROVE  HostRead(text, f, b, UrlOf(s, us, pw, h, 0, <<>>, <<>>))
<1> DEFINE u0 == UrlOf(s, us, pw, <<>>, 0, <<>>, <<>>)
           u1 == UrlOf(s, us, pw, h, 0, <<>>, <<>>)
<1>1. IsUrl(u0) /\ u0["host"] = <<>> /\ With(u0, "host", h) = u1
  BY UrlOfIs, UrlOfParts
<1>2. f[a] = Reading("host", u0)
  OBVIOUS
<1> HIDE DEF u0, u1
<1>3. WordAt(text, a, h, b)
  BY DEF WordAt
<1>4. f[b] = Reading("host", u1)
  <2>1. "host" \in UrlParts /\ (C \ {":", "/"}) \intersect Ends("host") = {}
    BY DEF UrlParts, Ends
  <2>2. f[b] = Reading("host", With(u0, "host", h))
    BY <1>1, <1>2, <1>3, <2>1, ReadingWord
  <2> QED
    BY <1>1, <2>2
<1>5. b + 1 \in 1 .. n /\ (b + 1) - 1 = b
  OBVIOUS
<1>6. f[b + 1] = ReadNext(text, Reading("host", u1), b + 1)
  BY <1>4, <1>5 DEF ReadsAlong
<1>7. ASSUME text[b + 1] = "/" PROVE f[b + 1] = Reading("path", u1)
  <2>1. [part |-> "host", at |-> "/", to |-> "path"] \in Turns /\ "host" \in UrlParts \union {"port"}
    BY DEF Turns, UrlParts
  <2>2. ReadNext(text, Reading("host", u1), b + 1) = Reading("path", u1)
    BY <1>7, <2>1, ReadingOn
  <2> QED
    BY <1>6, <2>2
<1>8. ASSUME text[b + 1] = ":" PROVE f[b + 1] = Reading("port", u1)
  <2>1. [part |-> "host", at |-> ":", to |-> "port"] \in Turns /\ "host" \in UrlParts \union {"port"}
    BY DEF Turns, UrlParts
  <2>2. ReadNext(text, Reading("host", u1), b + 1) = Reading("port", u1)
    BY <1>8, <2>1, ReadingOn
  <2> QED
    BY <1>6, <2>2
<1> QED
  BY <1>7, <1>8 DEF u1, HostRead

PathReached(f, e, s, us, pw, h, m) ==
    \E port \in Sums(m) : f[e] = Reading("path", UrlOf(s, us, pw, h, port, <<>>, <<>>))

\* The digits are read up to the path.
LEMMA ReadingPortAndSlash ==
  ASSUME NEW text, NEW f, ReadsAlong(f, text), NEW n \in Nat, n = Len(text), NEW s, NEW us, NEW pw, NEW h,
         NEW p \in DigitText, NEW m \in 0 .. 5, m = Len(p), NEW a \in Nat, NEW b \in Nat, b = a + m, NEW e \in Nat, e = b + 1, e <= n,
         Has(text, a, p), text[e] = "/",
         f[a] = Reading("port", UrlOf(s, us, pw, h, 0, <<>>, <<>>))
  PROVE  PathReached(f, e, s, us, pw, h, m)
<1> DEFINE u0 == UrlOf(s, us, pw, h, 0, <<>>, <<>>)
           u1(port) == UrlOf(s, us, pw, h, port, <<>>, <<>>)
<1>1. IsUrl(u0) /\ u0["port"] = 0 /\ \A port : With(u0, "port", port) = u1(port)
  BY UrlOfIs, UrlOfParts
<1>2. f[a] = Reading("port", u0)
  OBVIOUS
<1> HIDE DEF u0, u1
<1>3. PICK port \in Sums(m) : f[b] = Reading("port", With(u0, "port", port))
  <2>1. b <= n
    OBVIOUS
  <2>2. ReadsPort(f, b, u0, m)
    BY <1>1, <1>2, <2>1, ReadingDigits
  <2> QED
    BY <2>2 DEF ReadsPort
<1>4. f[b] = Reading("port", u1(port))
  BY <1>1, <1>3
<1>5. b + 1 \in 1 .. n /\ (b + 1) - 1 = b
  OBVIOUS
<1>6. f[b + 1] = ReadNext(text, Reading("port", u1(port)), b + 1)
  BY <1>4, <1>5 DEF ReadsAlong
<1>7. [part |-> "port", at |-> "/", to |-> "path"] \in Turns /\ "port" \in UrlParts \union {"port"}
  BY DEF Turns
<1>8. ReadNext(text, Reading("port", u1(port)), b + 1) = Reading("path", u1(port))
  BY <1>7, ReadingOn
<1>9. f[b + 1] = Reading("path", u1(port))
  BY <1>6, <1>8
<1> QED
  BY <1>3, <1>9 DEF u1, PathReached

\* The path.
PathRead(f, b, s, us, pw, h, port, x) == f[b] = Reading("path", UrlOf(s, us, pw, h, port, x, <<>>))

\* The path is read up to the query.
LEMMA ReadingPathWord ==
  ASSUME NEW C, NEW text, NEW f, ReadsAlong(f, text), NEW s, NEW us, NEW pw, NEW h, NEW port,
         NEW x \in Seq(C \ {"?"}), NEW a \in Nat, NEW b \in Nat, WordAt(text, a, x, b),
         PathRead(f, a, s, us, pw, h, port, <<>>)
  PROVE  PathRead(f, b, s, us, pw, h, port, x)
<1> DEFINE u0 == UrlOf(s, us, pw, h, port, <<>>, <<>>)
           u1 == UrlOf(s, us, pw, h, port, x, <<>>)
<1>1. IsUrl(u0) /\ u0["path"] = <<>> /\ With(u0, "path", x) = u1
  BY UrlOfIs, UrlOfParts
<1>2. f[a] = Reading("path", u0)
  BY DEF PathRead
<1> HIDE DEF u0, u1
<1>4. "path" \in UrlParts /\ (C \ {"?"}) \intersect Ends("path") = {}
  BY DEF UrlParts, Ends
<1>5. f[b] = Reading("path", With(u0, "path", x))
  BY <1>1, <1>2, <1>4, ReadingWord
<1>6. f[b] = Reading("path", u1)
  BY <1>1, <1>5
<1> QED
  BY <1>6 DEF u1, PathRead

\* The query if there is one, up to the end.
Closes(text, b, n, q) ==
    /\ q = <<>> => n = b
    /\ q # <<>> => n = b + 1 + Len(q) /\ text[b + 1] = "?" /\ Has(text, b + 1, q)
UrlRead(f, n, s, us, pw, h, port, x, q) ==
    f[n].url = UrlOf(s, us, pw, h, port, x, IF q = <<>> THEN <<>> ELSE ParseParams(q))

\* The query is read, if there is one, and that is all.
LEMMA ReadingEnd ==
  ASSUME NEW C, NEW text \in Seq(C), NEW f, ReadsAlong(f, text), NEW n \in Nat, n = Len(text),
         NEW s, NEW us, NEW pw, NEW h, NEW port, NEW x, NEW q \in Seq(C \ {"#"}), NEW b \in Nat,
         PathRead(f, b, s, us, pw, h, port, x), Closes(text, b, n, q)
  PROVE  UrlRead(f, n, s, us, pw, h, port, x, q)
<1> DEFINE u1 == UrlOf(s, us, pw, h, port, x, <<>>)
           u2 == UrlOf(s, us, pw, h, port, x, ParseParams(q))
<1>1. IsUrl(u1) /\ With(u1, "params", ParseParams(q)) = u2
  BY UrlOfIs
<1>2. f[b] = Reading("path", u1)
  BY DEF PathRead
<1> HIDE DEF u1, u2
<1>3. CASE q = <<>>
  <2>1. f[n] = Reading("path", u1)
    BY <1>2, <1>3 DEF Closes
  <2> QED
    BY <1>3, <2>1 DEF Reading, u1, UrlRead
<1>4. CASE q # <<>>
  <2>1. PICK m \in Nat : m = Len(q)
    BY LenProperties
  <2>2. m # 0 /\ n = (b + 1) + m /\ b + 1 \in 1 .. n /\ b + 1 \in Nat /\ (b + 1) - 1 = b
    <3>1. m # 0
      BY <1>4, <2>1, EmptySeq
    <3> QED
      BY <1>4, <2>1, <3>1 DEF Closes
  <2>3. f[b + 1] = ReadNext(text, Reading("path", u1), b + 1)
    BY <1>2, <2>2 DEF ReadsAlong
  <2>4. [part |-> "path", at |-> "?", to |-> "query"] \in Turns /\ "path" \in UrlParts \union {"port"}
    BY DEF Turns, UrlParts
  <2>5. text[b + 1] = "?" /\ Has(text, b + 1, q)
    BY <1>4 DEF Closes
  <2>6. ReadNext(text, Reading("path", u1), b + 1) = Reading("query", u1)
    BY <2>4, <2>5, ReadingOn
  <2>7. f[b + 1] = Reading("query", u1)
    BY <2>3, <2>6
  <2>8. f[n] = Reading("over", With(u1, "params", ParseParams(q)))
    <3>1. EndsWith(text, b + 1, n, q)
      BY <2>1, <2>2, <2>5 DEF EndsWith
    <3>2. PICK c \in Nat : c = b + 1
      OBVIOUS
    <3> QED
      BY <1>1, <2>7, <3>1, <3>2, ReadingQuery
  <2>9. f[n] = Reading("over", u2)
    BY <1>1, <2>8
  <2> QED
    BY <1>4, <2>9 DEF Reading, u2, UrlRead
<1> QED
  BY <1>3, <1>4

\* A text of some characters is a text of more.
LEMMA SeqWider ==
  ASSUME NEW S, NEW T, S \subseteq T
  PROVE  Seq(S) \subseteq Seq(T)
<1> SUFFICES ASSUME NEW s \in Seq(S) PROVE s \in Seq(T)
  OBVIOUS
<1>1. \A i \in 1 .. Len(s) : s[i] \in T
  BY ElementOfSeq
<1> QED
  BY <1>1, LenProperties

\* Where the authority begins, its end of the user, the host and the path are.
LEMMA SchemeEndIs ==
  ASSUME NEW C, NEW text \in Seq(C), NEW a \in Nat, a + 3 <= Len(text), BeginsAt(text, a)
  PROVE  /\ a + 1 \in 1 .. Len(text) - 2
         /\ SubSeq(text, a + 1, (a + 1) + 2) = SchemeEnd
<1>1. PICK n \in Nat : n = Len(text)
  BY LenProperties
<1> DEFINE end == SubSeq(text, a + 1, (a + 1) + 2)
<1>2. a + 1 \in 1 .. n - 2 /\ (a + 1) + 2 = a + 3 /\ a + 3 <= n
  BY <1>1
<1>3. \A i \in (a + 1) .. ((a + 1) + 2) : text[i] \in C
  <2>1. \A i \in 1 .. n : text[i] \in C
    BY <1>1, ElementOfSeq
  <2>2. (a + 1) .. ((a + 1) + 2) \subseteq 1 .. n
    BY <1>2
  <2> QED
    BY <2>1, <2>2, Zenon
<1>4. /\ end \in Seq(C) /\ Len(end) = (IF a + 1 <= (a + 1) + 2 THEN (a + 1) + 2 - (a + 1) + 1 ELSE 0)
      /\ \A i \in 1 .. (a + 1) + 2 - (a + 1) + 1 : end[i] = text[(a + 1) + i - 1]
  <2>1. a + 1 \in Int /\ (a + 1) + 2 \in Int
    OBVIOUS
  <2> QED
    BY <1>3, <2>1, SubSeqProperties
<1> HIDE DEF end
<1>5. Len(end) = 3 /\ end[1] = ":" /\ end[2] = "/" /\ end[3] = "/"
  <2>1. (a + 1) + 2 - (a + 1) + 1 = 3 /\ (a + 1) + 1 - 1 = a + 1 /\ (a + 1) + 2 - 1 = a + 2 /\ (a + 1) + 3 - 1 = a + 3
    OBVIOUS
  <2>2. 1 \in 1 .. 3 /\ 2 \in 1 .. 3 /\ 3 \in 1 .. 3 /\ a + 1 <= (a + 1) + 2
    OBVIOUS
  <2> QED
    BY <1>4, <2>1, <2>2 DEF BeginsAt
<1>6. end = SchemeEnd
  <2> DEFINE D == C \union {":", "/"}
  <2>1. end \in Seq(D) /\ SchemeEnd \in Seq(D)
    <3>1. C \subseteq D
      OBVIOUS
    <3>2. SchemeEnd \in Seq(D)
      BY DEF SchemeEnd
    <3> QED
      BY <1>4, <3>1, <3>2, SeqWider
  <2>2. Len(SchemeEnd) = 3 /\ SchemeEnd[1] = ":" /\ SchemeEnd[2] = "/" /\ SchemeEnd[3] = "/"
    BY DEF SchemeEnd
  <2>3. \A i \in 1 .. Len(end) : i = 1 \/ i = 2 \/ i = 3
    BY <1>5
  <2>4. \A i \in 1 .. Len(end) : end[i] = SchemeEnd[i]
    BY <1>5, <2>2, <2>3, Zenon
  <2> HIDE DEF D
  <2> QED
    BY <1>5, <2>1, <2>2, <2>4, SeqEqual
<1> QED
  BY <1>1, <1>2, <1>6 DEF end

\* What is behind a scheme.
LEMMA SchemeIsSeen ==
  ASSUME NEW C, NEW text \in Seq(C), NEW a \in Nat, a + 3 <= Len(text), BeginsAt(text, a)
  PROVE  HasScheme(text)
<1>1. a + 1 \in 1 .. Len(text) - 2 /\ SubSeq(text, a + 1, (a + 1) + 2) = SchemeEnd
  BY SchemeEndIs
<1> QED
  BY <1>1 DEF HasScheme

\* A colon, an "@" and a slash in the right places behind "://" make HasUser find a user.
LEMMA UserIsSeen ==
  ASSUME NEW C, NEW text \in Seq(C), NEW a \in Nat, a + 3 <= Len(text), BeginsAt(text, a),
         NEW n \in Nat, n = Len(text), NEW colon \in 1 .. n, NEW at \in 1 .. n, NEW slash \in 1 .. n,
         text[colon] = ":", text[at] = "@", text[slash] = "/", a + 4 < colon, colon < at, at + 1 < slash
  PROVE  HasUser(text)
<1>1. a + 1 \in 1 .. Len(text) - 2 /\ SubSeq(text, a + 1, (a + 1) + 2) = SchemeEnd
  BY SchemeEndIs
<1>2. colon \in Positions(text, ":") /\ at \in Positions(text, "@") /\ slash \in Positions(text, "/")
  BY DEF Positions
<1>3. (a + 1) + 3 < colon
  OBVIOUS
<1> QED
  BY <1>1, <1>2, <1>3, Zenon DEF HasUser

\* Without an "@" HasUser finds none.
LEMMA UserIsMissed ==
  ASSUME NEW C, "@" \notin C, NEW text \in Seq(C)
  PROVE  ~HasUser(text)
<1>1. \A k \in 1 .. Len(text) : text[k] \in C
  BY ElementOfSeq
<1>2. Positions(text, "@") = {}
  BY <1>1 DEF Positions
<1> QED
  BY <1>2, Zenon DEF HasUser

\* How a text is laid out: the user and the password are between a and c, the host
\* and the port between c and e, the path and the query between e and n.
LaidHost(text, c, h, p, e) ==
    /\ Has(text, c, h) /\ text[e] = "/"
    /\ IF p = <<>> THEN e = c + Len(h) + 1
       ELSE /\ e = c + Len(h) + 1 + Len(p) + 1
            /\ text[c + Len(h) + 1] = ":" /\ Has(text, c + Len(h) + 1, p)
LaidPath(text, e, x, q, n) == Has(text, e, x) /\ Closes(text, e + Len(x), n, q)

\* With a user or without, the host comes next.
LEMMA ReadingToHost ==
  ASSUME NEW C, NEW text, NEW f, ReadsAlong(f, text), Len(text) \in Nat, NEW s,
         NEW us \in Seq(C \ {":", "@"}), NEW pw \in Seq(C \ {"@"}), NEW a \in Nat, NEW c, c <= Len(text),
         LaidLogin(text, a, us, pw, c),
         us # <<>> => UserReached(f, a, s), us = <<>> => HostReached(f, a, s, us, pw)
  PROVE  HostReached(f, c, s, us, pw)
<1>1. CASE us = <<>>
  BY <1>1 DEF LaidLogin
<1>2. CASE us # <<>>
  BY <1>2, ReadingLogin
<1> QED
  BY <1>1, <1>2

\* With a port or without, the path comes next, and the port is a sum.
LEMMA ReadingToPath ==
  ASSUME NEW C, NEW text, NEW f, ReadsAlong(f, text), NEW n \in Nat, n = Len(text), NEW s, NEW us, NEW pw,
         NEW h \in Seq(C \ {":", "/"}), NEW p \in DigitText, Len(p) <= 5, NEW c \in Nat, NEW e \in Nat, e <= n,
         LaidHost(text, c, h, p, e),
         HostReached(f, c, s, us, pw)
  PROVE  PathReached(f, e, s, us, pw, h, Len(p))
<1>1. PICK k \in Nat, m \in 0 .. 5 : k = Len(h) /\ m = Len(p)
  <2>1. Len(h) \in Nat /\ Len(p) \in Nat
    BY LenProperties DEF DigitText
  <2>2. \A j \in Nat : j <= 5 => j \in 0 .. 5
    OBVIOUS
  <2> QED
    BY <2>1, <2>2
<1>2. PICK d \in Nat : d = c + k
  OBVIOUS
<1>3. d = c + Len(h) /\ d + 1 <= n /\ Has(text, c, h)
  BY <1>1, <1>2 DEF LaidHost
<1>4. HostRead(text, f, d, UrlOf(s, us, pw, h, 0, <<>>, <<>>))
  BY <1>3, ReadingHost DEF HostReached
<1>5. CASE p = <<>>
  <2>1. e = d + 1 /\ text[d + 1] = "/"
    BY <1>1, <1>2, <1>5 DEF LaidHost
  <2>2. f[e] = Reading("path", UrlOf(s, us, pw, h, 0, <<>>, <<>>))
    BY <1>4, <2>1 DEF HostRead
  <2>3. 0 \in Sums(Len(p))
    <3>1. Len(p) = 0
      BY <1>5
    <3> QED
      BY <3>1 DEF Sums
  <2> QED
    BY <2>2, <2>3 DEF PathReached
<1>6. CASE p # <<>>
  <2>1. PICK i \in Nat, b \in Nat : i = d + 1 /\ b = i + m /\ e = b + 1
    <3>1. d + 1 \in Nat /\ d + 1 + m \in Nat
      OBVIOUS
    <3> QED
      BY <1>1, <1>2, <1>6, <3>1 DEF LaidHost
  <2>2. text[i] = ":" /\ Has(text, i, p) /\ text[e] = "/" /\ e = b + 1 /\ e <= n
    BY <1>1, <1>2, <1>6, <2>1 DEF LaidHost
  <2>3. f[i] = Reading("port", UrlOf(s, us, pw, h, 0, <<>>, <<>>))
    BY <1>4, <2>1, <2>2 DEF HostRead
  <2>4. PathReached(f, e, s, us, pw, h, m)
    BY <1>1, <2>1, <2>2, <2>3, ReadingPortAndSlash
  <2> QED
    BY <1>1, <2>4
<1> QED
  BY <1>5, <1>6

ReadableParts(C, s, us, pw, h, p, x, q) ==
    /\ "@" \notin C
    /\ s \in Seq(C \ {":"}) /\ us \in Seq(C \ {":"}) /\ pw \in Seq(C) /\ h \in Seq(C \ {":", "/"}) /\ h # <<>>
    /\ p \in DigitText /\ Len(p) <= 5
    /\ x \in Seq(C \ {"?"}) /\ q \in Seq(C \ {"#"})
LaidFrom(text, a, us, pw, h, p, x, q, c, e) ==
    LaidLogin(text, a, us, pw, c) /\ LaidHost(text, c, h, p, e) /\ LaidPath(text, e, x, q, Len(text))
LaidUrl(text, s, us, pw, h, p, x, q) ==
    /\ Has(text, 0, s) /\ BeginsAt(text, Len(s))
    /\ \E c \in Nat, e \in Nat : LaidFrom(text, Len(s) + 3, us, pw, h, p, x, q, c, e)

\* The places in a text that is laid out so.
LEMMA Places ==
  ASSUME NEW C, NEW text, Len(text) \in Nat, NEW s, NEW us, NEW pw, NEW h, NEW p, NEW x, NEW q,
         ReadableParts(C, s, us, pw, h, p, x, q), NEW a \in Nat, NEW c \in Nat, NEW e \in Nat,
         LaidFrom(text, a, us, pw, h, p, x, q, c, e)
  PROVE  /\ a <= c /\ c + 1 < e /\ e + Len(x) <= Len(text) /\ e <= Len(text) /\ c <= Len(text)
         /\ us # <<>> => /\ a + Len(us) + 1 < c /\ a + 1 < a + Len(us) + 1
                         /\ text[a + Len(us) + 1] = ":" /\ text[c] = "@" /\ text[e] = "/"
<1>1. Len(us) \in Nat /\ Len(pw) \in Nat /\ Len(h) \in Nat /\ Len(p) \in Nat /\ Len(x) \in Nat /\ Len(q) \in Nat
  BY LenProperties DEF ReadableParts, DigitText
<1>2. Len(h) # 0 /\ (us # <<>> => Len(us) # 0)
  BY EmptySeq DEF ReadableParts
<1>3. a <= c /\ (us # <<>> => a + Len(us) + 1 < c /\ text[a + Len(us) + 1] = ":" /\ text[c] = "@")
  <2>1. LaidLogin(text, a, us, pw, c)
    BY DEF LaidFrom
  <2> QED
    BY <1>1, <2>1 DEF LaidLogin
<1>4. c + 1 < e /\ text[e] = "/"
  <2>1. LaidHost(text, c, h, p, e)
    BY DEF LaidFrom
  <2> QED
    BY <1>1, <1>2, <2>1 DEF LaidHost
<1>5. e + Len(x) <= Len(text)
  <2>1. Closes(text, e + Len(x), Len(text), q)
    BY DEF LaidFrom, LaidPath
  <2> QED
    BY <1>1, <2>1 DEF Closes
<1>6. e <= Len(text) /\ c <= Len(text)
  BY <1>1, <1>4, <1>5
<1>7. us # <<>> => a + 1 < a + Len(us) + 1
  BY <1>1, <1>2
<1> QED
  BY <1>3, <1>4, <1>5, <1>6, <1>7

\* Of a text that is laid out in readable parts, HasUser finds a user if there is one.
LEMMA UserSeenOrMissed ==
  ASSUME NEW C, NEW text \in Seq(C \union {"@"}), NEW s, NEW us, NEW pw, NEW h, NEW p, NEW x, NEW q,
         ReadableParts(C, s, us, pw, h, p, x, q), us = <<>> => text \in Seq(C), NEW a \in Nat, BeginsAt(text, a),
         NEW c \in Nat, NEW e \in Nat, LaidFrom(text, a + 3, us, pw, h, p, x, q, c, e)
  PROVE  HasUser(text) <=> us # <<>>
<1>1. CASE us = <<>>
  <2>1. "@" \notin C
    BY DEF ReadableParts
  <2> QED
    BY <1>1, <2>1, UserIsMissed
<1>2. CASE us # <<>>
  <2>1. PICK n \in Nat : n = Len(text)
    BY LenProperties
  <2>2. PICK b \in Nat : b = a + 3
    OBVIOUS
  <2>3. /\ b <= c /\ c + 1 < e /\ e <= n /\ c <= n
        /\ b + Len(us) + 1 < c /\ b + 1 < b + Len(us) + 1
        /\ text[b + Len(us) + 1] = ":" /\ text[c] = "@" /\ text[e] = "/"
    BY <1>2, <2>1, <2>2, Places
  <2>4. Len(us) \in Nat
    BY LenProperties DEF ReadableParts
  <2>5. PICK colon \in Nat : colon = b + Len(us) + 1
    BY <2>4
  <2>6. colon \in 1 .. n /\ c \in 1 .. n /\ e \in 1 .. n /\ a + 4 < colon /\ colon < c /\ c + 1 < e /\ a + 3 <= n
    BY <2>2, <2>3, <2>4, <2>5
  <2>7. text[colon] = ":" /\ text[c] = "@" /\ text[e] = "/"
    BY <2>3, <2>5
  <2>8. HasUser(text)
    BY <2>1, <2>6, <2>7, UserIsSeen
  <2> QED
    BY <1>2, <2>8
<1> QED
  BY <1>1, <1>2

UrlIsRead(text, s, us, pw, h, p, x, q) ==
    \E port \in Sums(Len(p)) :
        ReadUrl(text) = UrlOf(s, us, pw, h, port, x, IF q = <<>> THEN <<>> ELSE ParseParams(q))

\* A text that is laid out in readable parts is read as a Url of these parts.
LEMMA ReadingUrl ==
  ASSUME NEW C, NEW text \in Seq(C \union {"@"}), NEW s, NEW us, NEW pw, NEW h, NEW p, NEW x, NEW q,
         ReadableParts(C, s, us, pw, h, p, x, q), us = <<>> => text \in Seq(C), LaidUrl(text, s, us, pw, h, p, x, q)
  PROVE  UrlIsRead(text, s, us, pw, h, p, x, q)
<1>1. PICK n \in Nat : n = Len(text)
  BY LenProperties
<1>2. PICK f : ReadsAlong(f, text) /\ ReadUrl(text) = f[n].url
  BY <1>1, UrlWalk
<1>3. PICK a \in Nat : a = Len(s)
  BY LenProperties DEF ReadableParts
<1>4. PICK c \in Nat, e \in Nat : LaidFrom(text, a + 3, us, pw, h, p, x, q, c, e)
  BY <1>3 DEF LaidUrl
<1>5. BeginsAt(text, a) /\ Has(text, 0, s)
  BY <1>3 DEF LaidUrl
<1>6. a + 3 <= c /\ c <= n /\ e <= n /\ e + Len(x) <= n /\ a + 3 <= n
  <2>1. a + 3 \in Nat
    OBVIOUS
  <2>2. a + 3 <= c /\ c <= n /\ e <= n /\ e + Len(x) <= n
    BY <1>1, <1>4, <2>1, Places
  <2> QED
    BY <2>2
<1>7. HasScheme(text)
  BY <1>1, <1>5, <1>6, SchemeIsSeen
<1>8. HasUser(text) <=> us # <<>>
  BY <1>4, <1>5, UserSeenOrMissed
<1>9. HostReached(f, c, s, us, pw)
  <2>1. SchemeRead(text, f, a, s)
    <3>1. s \in Seq(C \ {":"}) /\ Len(text) \in Nat /\ a + 3 <= Len(text)
      BY <1>1, <1>6 DEF ReadableParts
    <3> QED
      BY <1>1, <1>2, <1>3, <1>5, <1>7, <3>1, ReadingScheme
  <2>2. LaidLogin(text, a + 3, us, pw, c)
    BY <1>4 DEF LaidFrom
  <2>3. us # <<>> => UserReached(f, a + 3, s)
    BY <1>8, <2>1 DEF UserReached, SchemeRead
  <2>4. us = <<>> => HostReached(f, a + 3, s, us, pw)
    BY <1>8, <2>1, <2>2 DEF HostReached, LaidLogin, SchemeRead
  <2>5. us \in Seq(C \ {":", "@"}) /\ pw \in Seq(C \ {"@"})
    <3>1. C \ {":", "@"} = C \ {":"} /\ C \ {"@"} = C
      BY DEF ReadableParts
    <3> QED
      BY <3>1 DEF ReadableParts
  <2>6. PICK b \in Nat : b = a + 3
    OBVIOUS
  <2> QED
    BY <1>1, <1>2, <1>6, <2>2, <2>3, <2>4, <2>5, <2>6, ReadingToHost
<1>10. PICK port \in Sums(Len(p)) : f[e] = Reading("path", UrlOf(s, us, pw, h, port, <<>>, <<>>))
  <2>1. LaidHost(text, c, h, p, e)
    BY <1>4 DEF LaidFrom
  <2>2. h \in Seq(C \ {":", "/"}) /\ p \in DigitText /\ Len(p) <= 5
    BY DEF ReadableParts
  <2>3. PathReached(f, e, s, us, pw, h, Len(p))
    BY <1>1, <1>2, <1>6, <1>9, <2>1, <2>2, ReadingToPath
  <2> QED
    BY <2>3 DEF PathReached
<1>11. PICK b \in Nat : b = e + Len(x)
  <2>1. Len(x) \in Nat
    BY LenProperties DEF ReadableParts
  <2> QED
    BY <2>1
<1>12. Has(text, e, x) /\ Closes(text, b, n, q)
  BY <1>1, <1>4, <1>11 DEF LaidFrom, LaidPath
<1>13. PathRead(f, b, s, us, pw, h, port, x)
  <2>1. x \in Seq(C \ {"?"}) /\ PathRead(f, e, s, us, pw, h, port, <<>>) /\ WordAt(text, e, x, b)
    BY <1>1, <1>6, <1>10, <1>11, <1>12 DEF ReadableParts, PathRead, WordAt
  <2> QED
    BY <1>2, <2>1, ReadingPathWord
<1>14. UrlRead(f, n, s, us, pw, h, port, x, q)
  <2> DEFINE D == C \union {"@"}
  <2>1. q \in Seq(D \ {"#"}) /\ text \in Seq(D)
    <3>1. C \ {"#"} \subseteq D \ {"#"}
      OBVIOUS
    <3> HIDE DEF D
    <3> QED
      BY <3>1, SeqWider DEF ReadableParts, D
  <2> HIDE DEF D
  <2> QED
    BY <1>1, <1>2, <1>12, <1>13, <2>1, ReadingEnd
<1> QED
  BY <1>2, <1>10, <1>14 DEF UrlRead, UrlIsRead

-----------------------------------------------------------------------------
(* Texts that are sent: pieces behind each other, and parts of lists. *)

\* The text is some pieces, each with a separator behind it: what follows is split by
\* itself.
Divides(C, sep, text, pieces) ==
    /\ text \in Seq(C) /\ pieces \in Seq(Seq(C \ {sep}))
    /\ \A rest \in Seq(C) : Split(text \o rest, sep) = pieces \o Split(rest, sep)

\* A word and the separator are a piece.
LEMMA DividesWord ==
  ASSUME NEW C, NEW sep \in C, NEW w \in Seq(C \ {sep})
  PROVE  Divides(C, sep, w \o <<sep>>, <<w>>)
<1>1. w \in Seq(C) /\ <<sep>> \in Seq(C)
  <2>1. \A A, B : A \subseteq B => Seq(A) \subseteq Seq(B)
    OBVIOUS
  <2>2. Seq(C \ {sep}) \subseteq Seq(C)
    BY <2>1
  <2> QED
    BY <2>2
<1>2. w \o <<sep>> \in Seq(C)
  BY <1>1, ConcatProperties
<1>3. Split(w, sep) = <<w>>
  BY SplitWhole
<1>4. \A rest \in Seq(C) : Split(w \o <<sep>> \o rest, sep) = <<w>> \o Split(rest, sep)
  <2>1. SplitsBetween(C, sep)
    BY SplitThen
  <2> QED
    BY <1>1, <1>3, <2>1 DEF SplitsBetween
<1>5. <<w>> \in Seq(Seq(C \ {sep}))
  <2>1. \A S : \A e \in S : <<e>> \in Seq(S)
    OBVIOUS
  <2> QED
    BY <2>1, Zenon
<1> QED
  BY <1>2, <1>4, <1>5 DEF Divides

\* Three texts behind each other are the same either way.
Moves(a, b, c) == (a \o b) \o c = a \o (b \o c)

\* They are sequences, whatever their characters.
LEMMA ConcatMoves ==
  ASSUME NEW C, NEW a \in Seq(C), NEW b \in Seq(C), NEW c \in Seq(C)
  PROVE  Moves(a, b, c)
BY ConcatAssociative DEF Moves

\* Of two such texts one behind the other, the pieces are behind each other.
LEMMA DividesThen ==
  ASSUME NEW C, NEW sep, NEW a, NEW p, NEW b, NEW q, Divides(C, sep, a, p), Divides(C, sep, b, q)
  PROVE  Divides(C, sep, a \o b, p \o q)
<1> DEFINE T == Seq(C \ {sep})
<1>1. a \in Seq(C) /\ b \in Seq(C) /\ p \in Seq(T) /\ q \in Seq(T)
  BY DEF Divides
<1>2. ASSUME NEW rest \in Seq(C) PROVE Split(a \o b \o rest, sep) = p \o q \o Split(rest, sep)
  <2>1. b \o rest \in Seq(C) /\ (a \o b) \o rest = a \o (b \o rest)
    <3>1. b \o rest \in Seq(C)
      BY <1>1, ConcatProperties
    <3>2. Moves(a, b, rest)
      BY <1>1, ConcatMoves, Zenon
    <3> QED
      BY <3>1, <3>2, Zenon DEF Moves
  <2>2. Split(a \o (b \o rest), sep) = p \o Split(b \o rest, sep) /\ Split(b \o rest, sep) = q \o Split(rest, sep)
    BY <2>1 DEF Divides
  <2>3. Split(rest, sep) \in Seq(T)
    BY SplitType DEF Pieces
  <2> HIDE DEF T
  <2>4. (p \o q) \o Split(rest, sep) = p \o (q \o Split(rest, sep))
    <3>1. Moves(p, q, Split(rest, sep))
      BY <1>1, <2>3, ConcatMoves, Zenon
    <3> QED
      BY <3>1, Zenon DEF Moves
  <2> QED
    BY <2>1, <2>2, <2>4
<1>3. a \o b \in Seq(C)
  BY <1>1, ConcatProperties
<1>4. p \o q \in Seq(T)
  <2> HIDE DEF T
  <2> QED
    BY <1>1, ConcatProperties
<1> QED
  BY <1>2, <1>3, <1>4 DEF Divides

\* Lines that are flattened are divided into the lines.
LEMMA DividesFlat ==
  ASSUME NEW C, NEW sep, NEW ss \in Seq(Seq(C)), NEW ps \in Seq(Seq(C \ {sep})), Len(ps) = Len(ss),
         \A k \in 1 .. Len(ss) : Divides(C, sep, ss[k], <<ps[k]>>)
  PROVE  Divides(C, sep, FlattenSeq(ss), ps)
<1> DEFINE T == Seq(C \ {sep})
<1>1. PICK n \in Nat : n = Len(ss)
  BY LenProperties
<1>2. PICK f \in [0 .. n -> Seq(C)] : Flattens(f, ss) /\ FlattenSeq(ss) = f[n]
  BY <1>1, FlattenWalk
<1>3. /\ Beginning(ps, 0) = <<>> /\ Beginning(ps, n) = ps
      /\ \A k \in 1 .. n : Beginning(ps, k) = Append(Beginning(ps, k - 1), ps[k])
      /\ \A k \in 0 .. n : Beginning(ps, k) \in Seq(T)
  <2> HIDE DEF T
  <2> QED
    BY <1>1, BeginningIs DEF T
<1>4. \A k \in 1 .. n : ps[k] \in T
  <2> HIDE DEF T
  <2> QED
    BY <1>1, ElementOfSeq DEF T
<1> DEFINE P(k) == k <= n => Divides(C, sep, f[k], Beginning(ps, k))
           S == {k \in Nat : P(k)}
<1>5. P(0)
  <2>1. f[0] = <<>>
    BY <1>2 DEF Flattens
  <2>2. <<>> \in Seq(C) /\ <<>> \in Seq(T)
    BY EmptySeq
  <2>3. ASSUME NEW rest \in Seq(C) PROVE Split(<<>> \o rest, sep) = <<>> \o Split(rest, sep)
    <3>1. Split(rest, sep) \in Seq(T)
      BY SplitType DEF Pieces
    <3> HIDE DEF T
    <3> QED
      BY <3>1, ConcatEmptySeq
  <2> QED
    BY <1>3, <2>1, <2>2, <2>3 DEF Divides
<1>6. ASSUME NEW k \in Nat, P(k) PROVE P(k + 1)
  <2> SUFFICES ASSUME k + 1 <= n PROVE Divides(C, sep, f[k + 1], Beginning(ps, k + 1))
    OBVIOUS
  <2>1. k <= n /\ k + 1 \in 1 .. n /\ (k + 1) - 1 = k /\ k \in 0 .. n
    BY <1>1
  <2>2. f[k + 1] = f[k] \o ss[k + 1]
    BY <1>1, <1>2, <2>1 DEF Flattens
  <2>3. Beginning(ps, k + 1) = Beginning(ps, k) \o <<ps[k + 1]>>
    <3> HIDE DEF T
    <3> QED
      BY <1>3, <1>4, <2>1, AppendIsConcat
  <2>4. Divides(C, sep, f[k], Beginning(ps, k)) /\ Divides(C, sep, ss[k + 1], <<ps[k + 1]>>)
    BY <1>1, <1>6, <2>1
  <2> QED
    BY <2>2, <2>3, <2>4, DividesThen
<1> HIDE DEF P
<1>7. 0 \in S /\ \A k \in Nat : k \in S => k + 1 \in S
  BY <1>5, <1>6
<1>8. n \in S
  <2> HIDE DEF S
  <2> QED
    BY <1>7, SetInduction
<1>9. Divides(C, sep, f[n], ps)
  <2>1. n <= n
    OBVIOUS
  <2> QED
    BY <1>3, <1>8, <2>1 DEF P
<1> QED
  BY <1>2, <1>9

\* What a text has in front of its first separator, if it has one.
LEMMA FirstPiece ==
  ASSUME NEW C, NEW text \in Seq(C), NEW sep
  PROVE  \/ text \in Seq(C \ {sep})
         \/ \E x \in Seq(C \ {sep}), y \in Seq(C) : text = x \o <<sep>> \o y
<1>1. PICK n \in Nat : n = Len(text) /\ DOMAIN text = 1 .. n
  BY LenProperties
<1>2. \A k \in 1 .. n : text[k] \in C
  BY <1>1, ElementOfSeq
<1> DEFINE Apart(k) == \E x \in Seq(C \ {sep}), y \in Seq(C) : Beginning(text, k) = x \o <<sep>> \o y
           P(k) == k <= n => Beginning(text, k) \in Seq(C \ {sep}) \/ Apart(k)
           S == {k \in Nat : P(k)}
<1>3. /\ Beginning(text, 0) = <<>> /\ Beginning(text, n) = text
      /\ \A k \in 1 .. n : Beginning(text, k) = Append(Beginning(text, k - 1), text[k])
  BY <1>1, BeginningIs
<1>4. P(0)
  BY <1>3, EmptySeq
<1>5. ASSUME NEW k \in Nat, P(k) PROVE P(k + 1)
  <2> SUFFICES ASSUME k + 1 <= n PROVE Beginning(text, k + 1) \in Seq(C \ {sep}) \/ Apart(k + 1)
    OBVIOUS
  <2>1. k <= n /\ k + 1 \in 1 .. n /\ (k + 1) - 1 = k
    BY <1>1
  <2> DEFINE ch == text[k + 1]
             t == Beginning(text, k)
  <2>2. ch \in C /\ Beginning(text, k + 1) = Append(t, ch)
    BY <1>2, <1>3, <2>1
  <2> HIDE DEF ch
  <2>3. CASE t \in Seq(C \ {sep}) /\ ch # sep
    <3>1. Append(t, ch) \in Seq(C \ {sep})
      BY <2>2, <2>3, AppendProperties
    <3> QED
      BY <2>2, <3>1
  <2>4. CASE t \in Seq(C \ {sep}) /\ ch = sep
    <3>1. Append(t, ch) = t \o <<sep>>
      BY <2>4, <2>2, AppendIsConcat
    <3>2. t \o <<sep>> = t \o <<sep>> \o <<>> /\ <<>> \in Seq(C)
      <4>1. t \in Seq(C) /\ sep \in C
        <5>1. \A A, B : A \subseteq B => Seq(A) \subseteq Seq(B)
          OBVIOUS
        <5> QED
          BY <2>2, <2>4, <5>1
      <4> HIDE DEF t
      <4>2. t \o <<sep>> \in Seq(C)
        <5>1. <<sep>> \in Seq(C)
          BY <4>1
        <5> QED
          BY <4>1, <5>1, ConcatProperties
      <4> QED
        BY <4>2, ConcatEmptySeq, EmptySeq
    <3> QED
      BY <2>2, <2>4, <3>1, <3>2
  <2>5. CASE Apart(k)
    <3>1. PICK x \in Seq(C \ {sep}), y \in Seq(C) : t = x \o <<sep>> \o y
      BY <2>5
    <3> HIDE DEF t
    <3>2. Append(y, ch) \in Seq(C)
      BY <2>2, AppendProperties
    <3>3. Append(t, ch) = x \o <<sep>> \o Append(y, ch)
      <4> DEFINE D == C \union {sep}
                 z == x \o <<sep>>
      <4>1. x \in Seq(D) /\ y \in Seq(D) /\ <<sep>> \in Seq(D) /\ ch \in D
        <5>1. \A A, B : A \subseteq B => Seq(A) \subseteq Seq(B)
          OBVIOUS
        <5>2. Seq(C \ {sep}) \subseteq Seq(D) /\ Seq(C) \subseteq Seq(D)
          BY <5>1
        <5>3. sep \in D /\ \A A : \A e \in A : <<e>> \in Seq(A)
          OBVIOUS
        <5> HIDE DEF D
        <5> QED
          BY <2>2, <5>2, <5>3, Zenon DEF D
      <4> HIDE DEF D
      <4>2. z \in Seq(D)
        BY <4>1, ConcatProperties
      <4> HIDE DEF z
      <4>3. Append(z \o y, ch) = z \o Append(y, ch)
        <5>1. AppendsBehind(D)
          BY AppendBehind
        <5> QED
          BY <4>1, <4>2, <5>1 DEF AppendsBehind
      <4> QED
        BY <3>1, <4>3 DEF z
    <3> QED
      BY <2>2, <3>2, <3>3 DEF t
  <2> QED
    BY <1>5, <2>1, <2>3, <2>4, <2>5
<1> HIDE DEF P
<1>6. 0 \in S /\ \A k \in Nat : k \in S => k + 1 \in S
  BY <1>4, <1>5
<1>7. n \in S
  <2> HIDE DEF S
  <2> QED
    BY <1>6, SetInduction
<1>8. Beginning(text, n) \in Seq(C \ {sep}) \/ Apart(n)
  <2>1. n <= n
    OBVIOUS
  <2> HIDE DEF Apart
  <2> QED
    BY <1>7, <2>1 DEF P
<1> QED
  BY <1>3, <1>8

\* A sequence, whatever is in it.
IsList(s, n) == n \in Nat /\ s = [k \in 1 .. n |-> s[k]]

\* A sequence is a list, and a list one of what is in it.
LEMMA ListIs ==
  /\ \A S : \A s \in Seq(S) : IsList(s, Len(s))
  /\ \A s, n : IsList(s, n) => Len(s) = n /\ s \in Seq({s[k] : k \in 1 .. n})
<1>1. ASSUME NEW S, NEW s \in Seq(S) PROVE IsList(s, Len(s))
  BY LenProperties DEF IsList
<1>2. ASSUME NEW s, NEW n, IsList(s, n) PROVE Len(s) = n /\ s \in Seq({s[k] : k \in 1 .. n})
  <2> DEFINE S == {s[k] : k \in 1 .. n}
  <2>1. n \in Nat /\ s = [k \in 1 .. n |-> s[k]]
    BY <1>2 DEF IsList
  <2>2. [k \in 1 .. n |-> s[k]] \in Seq(S)
    BY <2>1
  <2>3. Len([k \in 1 .. n |-> s[k]]) = n
    BY <2>1
  <2> QED
    BY <2>1, <2>2, <2>3
<1> QED
  BY <1>1, <1>2

\* The list s is the list b behind the list a.
Behind(s, a, m, b, n) ==
    /\ IsList(s, m + n) /\ Len(s) = m + n
    /\ \A k \in 1 .. m : s[k] = a[k]
    /\ \A k \in 1 .. n : s[m + k] = b[k]

\* So are lists that are concatenated.
LEMMA ConcatBehind ==
  ASSUME NEW a, NEW m, IsList(a, m), NEW b, NEW n, IsList(b, n)
  PROVE  Behind(a \o b, a, m, b, n)
<1> DEFINE S == {a[k] : k \in 1 .. m} \union {b[k] : k \in 1 .. n}
<1>1. m \in Nat /\ n \in Nat /\ Len(a) = m /\ Len(b) = n
  BY ListIs DEF IsList
<1>2. a \in Seq(S) /\ b \in Seq(S)
  <2>1. a \in Seq({a[k] : k \in 1 .. m}) /\ b \in Seq({b[k] : k \in 1 .. n})
    BY ListIs
  <2> QED
    BY <2>1, SeqWider
<1> HIDE DEF S
<1>3. /\ a \o b \in Seq(S) /\ Len(a \o b) = m + n
      /\ \A k \in 1 .. m + n : (a \o b)[k] = IF k <= m THEN a[k] ELSE b[k - m]
  BY <1>1, <1>2, ConcatProperties
<1>4. IsList(a \o b, m + n)
  BY <1>3, ListIs
<1>5. ASSUME NEW k \in 1 .. n PROVE (a \o b)[m + k] = b[k]
  <2>1. m + k \in 1 .. m + n /\ ~(m + k <= m) /\ (m + k) - m = k
    BY <1>1
  <2> QED
    BY <1>3, <2>1
<1>6. ASSUME NEW k \in 1 .. m PROVE (a \o b)[k] = a[k]
  <2>1. k \in 1 .. m + n /\ k <= m
    BY <1>1
  <2> QED
    BY <1>3, <2>1
<1> DEFINE s == a \o b
<1>7. IsList(s, m + n) /\ Len(s) = m + n /\ (\A k \in 1 .. m : s[k] = a[k]) /\ \A k \in 1 .. n : s[m + k] = b[k]
  BY <1>3, <1>4, <1>5, <1>6
<1> HIDE DEF s
<1> QED
  BY <1>7, Zenon DEF s, Behind

\* At most one text, joined or flattened, is the same.
LEMMA JoinShort ==
  ASSUME NEW S, NEW s \in Seq(S), Len(s) <= 1, NEW sep
  PROVE  Join(s, sep) = FlattenSeq(s)
<1>1. PICK n \in Nat : n = Len(s) /\ s = [k \in 1 .. n |-> s[k]] /\ n <= 1
  BY LenProperties
<1>2. \A k \in 1 .. n : k = 1
  BY <1>1
<1>3. [k \in 1 .. n |-> IF k = 1 THEN s[k] ELSE <<sep>> \o s[k]] = [k \in 1 .. n |-> s[k]]
  BY <1>2
<1> QED
  BY <1>1, <1>3 DEF Join

\* Joined texts are a text.
LEMMA JoinType ==
  ASSUME NEW C, NEW pieces \in Seq(Seq(C)), NEW sep \in C
  PROVE  Join(pieces, sep) \in Seq(C)
<1>1. PICK n \in Nat : n = Len(pieces)
  BY LenProperties
<1>2. \A k \in 1 .. n : pieces[k] \in Seq(C)
  BY <1>1, ElementOfSeq
<1>3. <<sep>> \in Seq(C)
  OBVIOUS
<1>4. \A k \in 1 .. n : (IF k = 1 THEN pieces[k] ELSE <<sep>> \o pieces[k]) \in Seq(C)
  BY <1>2, <1>3, ConcatProperties
<1>5. [k \in 1 .. n |-> IF k = 1 THEN pieces[k] ELSE <<sep>> \o pieces[k]] \in Seq(Seq(C))
  BY <1>4
<1> QED
  BY <1>1, <1>5, FlattenType DEF Join

\* A word, a mark, another word, maybe another mark and more of it, and the end: the
\* marks in front of the end and of what is behind the other word.
EndMoves(fore, x, s, h, g) == fore \o (x \o g) \o (s \o h) = fore \o ((x \o g) \o s) \o h
RestMoves(fore, x, s, h, y, z) ==
    fore \o (x \o (y \o s \o z)) \o (s \o h) = fore \o ((x \o y) \o s) \o (z \o (s \o h))

\* Both hold of texts of one kind.
LEMMA LineRegroups ==
  ASSUME NEW C, NEW fore \in Seq(C), NEW x \in Seq(C), NEW s \in Seq(C), NEW h \in Seq(C)
  PROVE  /\ \A g \in Seq(C) : EndMoves(fore, x, s, h, g)
         /\ \A y \in Seq(C), z \in Seq(C) : RestMoves(fore, x, s, h, y, z)
<1>1. \A a \in Seq(C), b \in Seq(C) : a \o b \in Seq(C)
  <2> TAKE a \in Seq(C), b \in Seq(C)
  <2> QED
    BY ConcatProperties, Zenon
<1>2. \A a \in Seq(C), b \in Seq(C), c \in Seq(C) : Moves(a, b, c)
  BY ConcatMoves, Zenon
<1>3. ASSUME NEW g \in Seq(C) PROVE EndMoves(fore, x, s, h, g)
  <2> DEFINE w == x \o g
             e == s \o h
             v == w \o s
  <2>1. w \in Seq(C) /\ e \in Seq(C) /\ v \in Seq(C)
    BY <1>1, Zenon
  <2> HIDE DEF w, e, v
  <2>2. Moves(fore, w, e)
    BY <1>2, <2>1, Zenon
  <2>3. Moves(w, s, h)
    BY <1>2, <2>1, Zenon
  <2>4. Moves(fore, v, h)
    BY <1>2, <2>1, Zenon
  <2>5. fore \o w \o e = fore \o (w \o e)
    BY <2>2, Zenon DEF Moves
  <2>6. w \o e = v \o h
    BY <2>3, Zenon DEF Moves, e, v
  <2>7. fore \o (v \o h) = fore \o v \o h
    BY <2>4, Zenon DEF Moves
  <2>8. fore \o w \o e = fore \o v \o h
    BY <2>5, <2>6, <2>7, Zenon
  <2> QED
    BY <2>8, Zenon DEF EndMoves, w, e, v
<1>4. ASSUME NEW y \in Seq(C), NEW z \in Seq(C) PROVE RestMoves(fore, x, s, h, y, z)
  <2> DEFINE ys == y \o s
             xy == x \o y
             w == xy \o s
             e == s \o h
             k == fore \o w
  <2>1. ys \in Seq(C) /\ xy \in Seq(C) /\ w \in Seq(C) /\ e \in Seq(C) /\ k \in Seq(C)
    BY <1>1, Zenon
  <2> HIDE DEF ys, xy, w, e, k
  <2>2. Moves(x, ys, z) /\ Moves(x, y, s) /\ Moves(fore, w, z) /\ Moves(k, z, e)
    BY <1>2, <2>1, Zenon
  <2>3. x \o (ys \o z) = (x \o ys) \o z
    BY <2>2, Zenon DEF Moves
  <2>4. x \o ys = w
    BY <2>2, Zenon DEF Moves, ys, xy, w
  <2>5. fore \o (w \o z) = k \o z
    BY <2>2, Zenon DEF Moves, k
  <2>6. k \o z \o e = k \o (z \o e)
    BY <2>2, Zenon DEF Moves
  <2>7. fore \o (x \o (ys \o z)) \o e = k \o (z \o e)
    BY <2>3, <2>4, <2>5, <2>6, Zenon
  <2> QED
    BY <2>7, Zenon DEF RestMoves, ys, xy, w, e, k
<1> QED
  BY <1>3, <1>4, Zenon

\* The first two words of a text.
Words(text, sep, a, b) == Split(text, sep)[1] = a /\ Split(text, sep)[2] = b

\* The words of a text up to the second mark.
LEMMA TwoWords ==
  ASSUME NEW C, NEW sep \in C, NEW m \in Seq(C \ {sep}), NEW t \in Seq(C \ {sep}), NEW rest \in Seq(C)
  PROVE  Words((m \o <<sep>>) \o (t \o <<sep>>) \o rest, sep, m, t)
<1> DEFINE T == Seq(C \ {sep})
           a == m \o <<sep>>
           b == t \o <<sep>>
           text == a \o b \o rest
           behind == Split(rest, sep)
<1>1. Divides(C, sep, a, <<m>>) /\ Divides(C, sep, b, <<t>>)
  BY DividesWord
<1> HIDE DEF a, b
<1>2. Divides(C, sep, a \o b, <<m>> \o <<t>>)
  BY <1>1, DividesThen
<1>3. Split(text, sep) = (<<m>> \o <<t>>) \o behind
  BY <1>2 DEF Divides
<1>4. IsList(behind, Len(behind))
  <2>1. behind \in Seq(T)
    BY SplitType DEF Pieces
  <2> HIDE DEF behind, T
  <2> QED
    BY <2>1, ListIs, Zenon
<1> DEFINE front == <<m>> \o <<t>>
<1>5. IsList(front, 2) /\ front[1] = m /\ front[2] = t
  <2>1. \A p, q : IsList(<<p, q>>, 2) /\ <<p, q>>[1] = p /\ <<p, q>>[2] = q
    BY DEF IsList
  <2>2. front = <<m, t>>
    BY PairIs, Zenon
  <2> HIDE DEF front
  <2> QED
    BY <2>1, <2>2, Zenon
<1> HIDE DEF front, behind, text, T
<1>6. (front \o behind)[1] = front[1] /\ (front \o behind)[2] = front[2]
  <2>1. 1 \in 1 .. 2 /\ 2 \in 1 .. 2
    OBVIOUS
  <2>2. Behind(front \o behind, front, 2, behind, Len(behind))
    BY <1>4, <1>5, ConcatBehind, Zenon
  <2> QED
    BY <2>1, <2>2 DEF Behind
<1> QED
  BY <1>3, <1>5, <1>6, Zenon DEF front, text, a, b, Words

\* The list p is what the list s has from one place to another.
PartOf(p, s, i, j) == p = [k \in 1 .. (j + 1) - i |-> s[(i + k) - 1]]

\* So is what SubSeq gives.
LEMMA PartIs ==
  ASSUME NEW s, NEW n, IsList(s, n), NEW i \in Nat, NEW j \in Nat, i # 0, j <= n
  PROVE  PartOf(SubSeq(s, i, j), s, i, j)
<1> DEFINE S == {s[k] : k \in 1 .. n}
<1>1. s \in Seq(S) /\ Len(s) = n /\ n \in Nat
  BY ListIs DEF IsList
<1> HIDE DEF S
<1>2. SubSeq(s, i, j) \in Seq(S) /\ \A k \in 1 .. Len(SubSeq(s, i, j)) : SubSeq(s, i, j)[k] = s[(i + k) - 1]
  BY <1>1, SubSeqProperties
<1>3. Len(SubSeq(s, i, j)) = IF i <= j THEN (j - i) + 1 ELSE 0
  BY <1>1, SubSeqProperties
<1>4. 1 .. Len(SubSeq(s, i, j)) = 1 .. (j + 1) - i
  BY <1>3
<1> DEFINE p == SubSeq(s, i, j)
<1>5. p = [k \in 1 .. Len(p) |-> p[k]]
  BY <1>2, LenProperties
<1> HIDE DEF p
<1> QED
  BY <1>2, <1>4, <1>5 DEF p, PartOf

\* A list is equal to one of the same length with the same elements.
LEMMA SameLists ==
  ASSUME NEW a, NEW b, NEW n, IsList(a, n), IsList(b, n), \A k \in 1 .. n : a[k] = b[k]
  PROVE  a = b
<1>1. a = [k \in 1 .. n |-> a[k]] /\ b = [k \in 1 .. n |-> b[k]]
  BY DEF IsList
<1>2. [k \in 1 .. n |-> a[k]] = [k \in 1 .. n |-> b[k]]
  OBVIOUS
<1> QED
  BY <1>1, <1>2, Zenon

\* A list of one or two.
LEMMA ShortLists ==
  ASSUME NEW p, NEW q
  PROVE  /\ IsList(<<p>>, 1) /\ <<p>>[1] = p /\ Tail(<<p>>) = <<>> /\ Len(<<p>>) = 1
         /\ IsList(<<p, q>>, 2) /\ <<p, q>>[1] = p /\ <<p, q>>[2] = q /\ Tail(<<p, q>>) = <<q>>
         /\ <<p>> \o <<q>> = <<p, q>>
<1>1. <<p>> \o <<q>> = <<p, q>>
  <2>1. p \in {p, q} /\ q \in {p, q}
    OBVIOUS
  <2> QED
    BY <2>1, PairIs, Zenon
<1>2. /\ IsList(<<p>>, 1) /\ <<p>>[1] = p /\ Tail(<<p>>) = <<>> /\ Len(<<p>>) = 1
      /\ IsList(<<p, q>>, 2) /\ <<p, q>>[1] = p /\ <<p, q>>[2] = q /\ Tail(<<p, q>>) = <<q>>
  BY DEF IsList
<1> QED
  BY <1>1, <1>2, Zenon

\* What is in front of the last one.
LEMMA FrontIs ==
  ASSUME NEW C, NEW t \in Seq(C), NEW e \in C
  PROVE  /\ Front(t \o <<e>>) = t /\ Last(t \o <<e>>) = e /\ t \o <<e>> \in Seq(C)
         /\ Len(t \o <<e>>) = Len(t) + 1
<1> DEFINE s == t \o <<e>>
<1>1. PICK n \in Nat : n = Len(t)
  BY LenProperties
<1>2. IsList(t, n) /\ IsList(<<e>>, 1) /\ <<e>>[1] = e
  BY <1>1, ListIs, ShortLists, Zenon
<1>3. Behind(s, t, n, <<e>>, 1)
  BY <1>2, ConcatBehind, Zenon
<1>4. s \in Seq(C)
  <2>1. <<e>> \in Seq(C)
    OBVIOUS
  <2> QED
    BY <2>1, ConcatProperties
<1> HIDE DEF s
<1>5. /\ IsList(s, n + 1) /\ Len(s) = n + 1 /\ s[n + 1] = e
      /\ \A k \in 1 .. n : s[k] = t[k]
  <2>1. 1 \in 1 .. 1
    OBVIOUS
  <2> QED
    BY <1>2, <1>3, <2>1 DEF Behind
<1>6. SubSeq(s, 1, n) = t
  <2>1. 1 \in Nat /\ 1 # 0 /\ n <= n + 1
    BY <1>1
  <2>2. SubSeq(s, 1, n) = [k \in 1 .. (n + 1) - 1 |-> s[(1 + k) - 1]]
    <3>1. PartOf(SubSeq(s, 1, n), s, 1, n)
      BY <1>1, <1>5, <2>1, PartIs, Zenon
    <3> QED
      BY <3>1, Zenon DEF PartOf
  <2>3. (n + 1) - 1 = n /\ \A k \in 1 .. n : (1 + k) - 1 = k
    BY <1>1
  <2>4. [k \in 1 .. n |-> s[k]] = [k \in 1 .. n |-> t[k]]
    BY <1>5
  <2>5. t = [k \in 1 .. n |-> t[k]]
    BY <1>2 DEF IsList
  <2>6. [k \in 1 .. (n + 1) - 1 |-> s[(1 + k) - 1]] = [k \in 1 .. n |-> s[k]]
    BY <2>3
  <2> QED
    BY <2>2, <2>4, <2>5, <2>6, Zenon
<1>7. Len(s) - 1 = n
  BY <1>1, <1>5
<1> QED
  BY <1>1, <1>4, <1>5, <1>6, <1>7 DEF s, Front, Last

\* What is behind the first two and in front of the last one.
LEMMA MiddleIs ==
  ASSUME NEW C, NEW p \in C, NEW q \in C, NEW t \in Seq(C), NEW e \in C, NEW line, line = <<p, q>> \o t \o <<e>>
  PROVE  line \in Seq(C) /\ Len(line) = Len(t) + 3 /\ line[1] = p /\ SubSeq(line, 3, Len(line) - 1) = t
<1> DEFINE s == <<p, q>> \o t
<1>1. PICK n \in Nat : n = Len(t)
  BY LenProperties
<1>2. IsList(t, n) /\ IsList(<<p, q>>, 2) /\ <<p, q>>[1] = p
  BY <1>1, ListIs, ShortLists, Zenon
<1>3. Behind(s, <<p, q>>, 2, t, n)
  BY <1>2, ConcatBehind, Zenon
<1>4. s \in Seq(C)
  <2>1. <<p, q>> \in Seq(C)
    OBVIOUS
  <2> QED
    BY <2>1, ConcatProperties
<1> HIDE DEF s
<1>5. line = s \o <<e>>
  BY DEF s
<1>6. Len(s) = n + 2 /\ s[1] = p /\ \A k \in 1 .. n : s[2 + k] = t[k]
  <2>1. 1 \in 1 .. 2 /\ 2 + n = n + 2
    BY <1>1
  <2> QED
    BY <1>2, <1>3, <2>1 DEF Behind
<1>7. Front(line) = s /\ line \in Seq(C) /\ Len(line) = n + 3
  <2>1. Front(s \o <<e>>) = s /\ s \o <<e>> \in Seq(C) /\ Len(s \o <<e>>) = Len(s) + 1
    BY <1>4, FrontIs
  <2>2. Front(line) = s /\ line \in Seq(C) /\ Len(line) = Len(s) + 1
    BY <1>5, <2>1, Zenon
  <2>3. (n + 2) + 1 = n + 3
    BY <1>1
  <2> QED
    BY <1>6, <2>2, <2>3, Zenon
<1>8. IsList(line, n + 3)
  BY <1>7, ListIs, Zenon
<1>9. IsList(s, n + 2) /\ Behind(line, s, n + 2, <<e>>, 1)
  <2>1. IsList(s, n + 2) /\ IsList(<<e>>, 1)
    BY <1>4, <1>6, ListIs, ShortLists, Zenon
  <2> QED
    BY <1>5, <2>1, ConcatBehind, Zenon
<1>10. \A k \in 1 .. n + 2 : line[k] = s[k]
  BY <1>9, Zenon DEF Behind
<1>11. line[1] = p
  <2>1. 1 \in 1 .. n + 2
    BY <1>1
  <2> QED
    BY <1>6, <1>10, <2>1
<1>12. SubSeq(line, 3, n + 2) = t
  <2>1. 3 \in Nat /\ n + 2 \in Nat /\ 3 # 0 /\ n + 2 <= n + 3
    BY <1>1
  <2>2. SubSeq(line, 3, n + 2) = [k \in 1 .. ((n + 2) + 1) - 3 |-> line[(3 + k) - 1]]
    <3>1. PartOf(SubSeq(line, 3, n + 2), line, 3, n + 2)
      BY <1>8, <2>1, PartIs, Zenon
    <3> QED
      BY <3>1, Zenon DEF PartOf
  <2>3. ((n + 2) + 1) - 3 = n /\ \A k \in 1 .. n : (3 + k) - 1 = 2 + k /\ 2 + k \in 1 .. n + 2
    BY <1>1
  <2>4. \A k \in 1 .. n : line[(3 + k) - 1] = t[k]
    BY <1>6, <1>10, <2>3
  <2>5. [k \in 1 .. n |-> line[(3 + k) - 1]] = [k \in 1 .. n |-> t[k]]
    BY <2>4
  <2>6. t = [k \in 1 .. n |-> t[k]]
    BY <1>2 DEF IsList
  <2> QED
    BY <2>2, <2>3, <2>5, <2>6, Zenon
<1>13. Len(line) - 1 = n + 2
  BY <1>1, <1>7
<1> QED
  BY <1>1, <1>7, <1>11, <1>12, <1>13

\* A text of what is in two sets.
LEMMA InBoth ==
  ASSUME NEW A, NEW B, NEW C, NEW text \in Seq(A), text \in Seq(B), A \cap B \subseteq C
  PROVE  text \in Seq(C)
<1>1. \A k \in 1 .. Len(text) : text[k] \in C
  BY ElementOfSeq
<1> QED
  BY <1>1, LenProperties

\* What is behind the first one.
LEMMA TailBehind ==
  ASSUME NEW C, NEW e \in C, NEW x \in Seq(C)
  PROVE  Tail(<<e>> \o x) = x
<1> DEFINE s == <<e>> \o x
<1>1. PICK n \in Nat : n = Len(x)
  BY LenProperties
<1>2. s \in Seq(C) /\ Len(s) = n + 1 /\ \A k \in 1 .. n : s[k + 1] = x[k]
  BY <1>1, ConcatProperties
<1> HIDE DEF s
<1>3. s # <<>>
  BY <1>1, <1>2, EmptySeq
<1>4. Tail(s) \in Seq(C) /\ Len(Tail(s)) = n /\ \A k \in 1 .. n : Tail(s)[k] = s[k + 1]
  BY <1>1, <1>2, <1>3, HeadTailProperties
<1>5. IsList(Tail(s), n) /\ IsList(x, n)
  BY <1>1, <1>4, ListIs
<1> QED
  BY <1>2, <1>4, <1>5, SameLists DEF s
==============================================================================
