-------------------------- MODULE SanitizerProofs --------------------------
(***************************************************************************)
(* What SanitizePII returns shows no card, social security or phone        *)
(* number, whatever the text.                                              *)
(***************************************************************************)
EXTENDS Sanitizer, SequenceTheorems, WellFoundedInduction, TLAPS

\* Every set of numbers that is not empty has a least one.
LEMMA LeastNatural ==
    ASSUME NEW T, T \subseteq Nat, T # {}
    PROVE  \E n \in T : \A m \in T : n <= m
  <1> DEFINE LT == {p \in Nat \X Nat : p[1] < p[2]}
  <1>1. IsWellFoundedOn(LT, Nat)
    BY NatLessThanWellFounded DEF OpToRel
  <1>2. PICK n \in T : \A m \in T : <<m, n>> \notin LT
    <2> HIDE DEF LT
    <2> QED BY <1>1, WFMin
  <1>3. ASSUME NEW m \in T PROVE n <= m
    <2>1. n \in Nat /\ m \in Nat
      OBVIOUS
    <2>2. <<m, n>> \in Nat \X Nat /\ ~ (<<m, n>>[1] < <<m, n>>[2])
      BY <1>2, <2>1
    <2> QED BY <2>1, <2>2
  <1> QED BY <1>3

---------------------------------------------------------------------------
(* The function that ReplaceAll computes from the end of the text.         *)

\* One step of a regular expression's scan: what follows from i on.
ScanStep(pattern, text, tag, f, i) ==
    IF i > Len(text) THEN <<>>
    ELSE IF ShapesAt(pattern, text, i) = {} THEN <<text[i]>> \o f[i + 1]
    ELSE LET shape == CHOOSE s \in ShapesAt(pattern, text, i) : TRUE
         IN  <<tag>> \o f[i + Len(shape)]

\* f is the scan of the text from k on.
ScansFrom(pattern, text, tag, f, k) ==
    f = [i \in k .. Len(text) + 1 |-> ScanStep(pattern, text, tag, f, i)]

\* No shape is empty.
NonEmptyShapes(pattern) == \A s \in pattern : Len(s) \in Nat \ {0}

\* A match begins and ends within the text.
LEMMA ChosenShape ==
    ASSUME NEW pattern, NEW text, NonEmptyShapes(pattern), Len(text) \in Nat,
           NEW i \in 1 .. Len(text), ShapesAt(pattern, text, i) # {}
    PROVE  LET shape == CHOOSE s \in ShapesAt(pattern, text, i) : TRUE
           IN  /\ shape \in ShapesAt(pattern, text, i)
               /\ i + Len(shape) \in i + 1 .. Len(text) + 1
  <1> DEFINE shape == CHOOSE s \in ShapesAt(pattern, text, i) : TRUE
  <1>1. shape \in ShapesAt(pattern, text, i)
    OBVIOUS
  <1>2. Len(shape) \in Nat \ {0} /\ i + Len(shape) <= Len(text) + 1
    BY <1>1 DEF ShapesAt, MatchesAt, NonEmptyShapes
  <1> QED BY <1>1, <1>2

\* A scan from k + 1 on extends to one from k on: it looks only ahead.
LEMMA ScanExtends ==
    ASSUME NEW pattern, NEW text, NEW tag, NonEmptyShapes(pattern), Len(text) \in Nat,
           NEW k \in 1 .. Len(text), NEW f, ScansFrom(pattern, text, tag, f, k + 1)
    PROVE  \E g : ScansFrom(pattern, text, tag, g, k)
  <1> DEFINE g == [i \in k .. Len(text) + 1 |->
                      IF i = k THEN ScanStep(pattern, text, tag, f, k) ELSE f[i]]
  <1>1. ASSUME NEW i \in k .. Len(text) + 1
        PROVE  ScanStep(pattern, text, tag, g, i) = ScanStep(pattern, text, tag, f, i)
    <2> DEFINE shape == CHOOSE s \in ShapesAt(pattern, text, i) : TRUE
    <2>1. CASE i > Len(text)
      BY <2>1 DEF ScanStep
    <2>2. CASE i <= Len(text) /\ ShapesAt(pattern, text, i) = {}
      <3>1. g[i + 1] = f[i + 1]
        BY <2>2
      <3> HIDE DEF g
      <3> QED BY <2>2, <3>1 DEF ScanStep
    <2>3. CASE i <= Len(text) /\ ShapesAt(pattern, text, i) # {}
      <3>1. i + Len(shape) \in i + 1 .. Len(text) + 1
        BY <2>3, ChosenShape
      <3> DEFINE n == i + Len(shape)
      <3>2. g[n] = f[n]
        <4> HIDE DEF n
        <4> QED BY <3>1 DEF n
      <3> HIDE DEF g
      <3> QED BY <2>3, <3>2 DEF ScanStep
    <2> QED BY <2>1, <2>2, <2>3
  <1>2. ASSUME NEW i \in k .. Len(text) + 1
        PROVE  g[i] = ScanStep(pattern, text, tag, f, i)
    <2>1. CASE i = k
      BY <2>1
    <2>2. CASE i # k
      BY <2>2 DEF ScansFrom
    <2> QED BY <2>1, <2>2
  <1>3. g = [i \in k .. Len(text) + 1 |-> ScanStep(pattern, text, tag, g, i)]
    <2>1. g = [i \in k .. Len(text) + 1 |-> g[i]]
      OBVIOUS
    <2> HIDE DEF g
    <2> QED BY <1>1, <1>2, <2>1
  <1> QED BY <1>3 DEF ScansFrom

\* Hence there is a scan of the whole text.
LEMMA ScanExists ==
    ASSUME NEW pattern, NEW text, NEW tag, NonEmptyShapes(pattern), Len(text) \in Nat
    PROVE  \E f : ScansFrom(pattern, text, tag, f, 1)
  <1> DEFINE N == Len(text)
             T == {n \in 0 .. N : ~ \E f : ScansFrom(pattern, text, tag, f, N + 1 - n)}
  <1>1. \E f : ScansFrom(pattern, text, tag, f, N + 1)
    <2> DEFINE f == [i \in N + 1 .. N + 1 |-> <<>>]
    <2>1. f = [i \in N + 1 .. Len(text) + 1 |-> ScanStep(pattern, text, tag, f, i)]
      BY DEF ScanStep
    <2> QED BY <2>1 DEF ScansFrom
  <1>2. ASSUME T # {} PROVE FALSE
    <2>1. PICK n \in T : \A m \in T : n <= m
      <3>1. T \subseteq Nat
        OBVIOUS
      <3> HIDE DEF T
      <3> QED BY <1>2, <3>1, LeastNatural
    <2>2. n \in 1 .. N
      BY <1>1
    <2>3. n - 1 \notin T
      BY <2>1, <2>2
    <2>4. \E f : ScansFrom(pattern, text, tag, f, (N + 1 - n) + 1)
      BY <2>2, <2>3
    <2>5. N + 1 - n \in 1 .. Len(text)
      BY <2>2
    <2>6. \E f : ScansFrom(pattern, text, tag, f, N + 1 - n)
      BY <2>4, <2>5, ScanExtends
    <2> QED BY <2>1, <2>6
  <1>3. N \notin T
    BY <1>2
  <1> QED BY <1>3

\* ReplaceAll returns what such a scan says of the first place.
LEMMA ReplaceAllScans ==
    ASSUME NEW pattern, NEW text, NEW tag, NonEmptyShapes(pattern), Len(text) \in Nat
    PROVE  \E f : /\ ScansFrom(pattern, text, tag, f, 1)
                  /\ ReplaceAll(pattern, text, tag) = f[1]
  <1> DEFINE F == CHOOSE f : f = [i \in 1 .. Len(text) + 1 |->
                                    ScanStep(pattern, text, tag, f, i)]
  <1>1. ReplaceAll(pattern, text, tag) = F[1]
    BY DEF ReplaceAll, ScanStep
  <1>2. F = [i \in 1 .. Len(text) + 1 |-> ScanStep(pattern, text, tag, F, i)]
    BY ScanExists DEF ScansFrom
  <1> QED BY <1>1, <1>2 DEF ScansFrom

---------------------------------------------------------------------------
(* What a replacement leaves of a text.                                    *)

\* The n symbols of s from p on hold no tag.
TagFree(s, p, n, tag) == \A j \in 1 .. n : s[p + j - 1] # tag

\* The n symbols of s from p on are those of the text from q on.
SameSymbols(s, p, text, q, n) ==
    /\ q + n <= Len(text) + 1
    /\ \A j \in 1 .. n : s[p + j - 1] = text[q + j - 1]

\* Stretches of s between tags come from places of the text, at i or after it,
\* where the pattern does not match; one at the start of s comes from i itself.
LeavesText(pattern, text, tag, s, i) ==
    /\ \A n \in 1 .. Len(s) :
          TagFree(s, 1, n, tag) =>
             /\ i <= Len(text) /\ ShapesAt(pattern, text, i) = {}
             /\ SameSymbols(s, 1, text, i, n)
    /\ \A p \in 1 .. Len(s), n \in 1 .. Len(s) :
          p + n <= Len(s) + 1 /\ TagFree(s, p, n, tag) =>
             \E q \in i .. Len(text) :
                /\ ShapesAt(pattern, text, q) = {}
                /\ SameSymbols(s, p, text, q, n)

\* A symbol put in front of a sequence.
LEMMA Cons ==
    ASSUME NEW S, NEW x \in S, NEW s \in Seq(S)
    PROVE  /\ <<x>> \o s \in Seq(S)
           /\ Len(s) \in Nat /\ Len(<<x>> \o s) = Len(s) + 1
           /\ (<<x>> \o s)[1] = x
           /\ \A j \in 1 .. Len(s) : (<<x>> \o s)[j + 1] = s[j]
  <1>1. <<x>> \in Seq(S) /\ Len(<<x>>) = 1 /\ <<x>>[1] = x
    OBVIOUS
  <1>2. Len(s) \in Nat
    BY LenProperties
  <1>3. /\ <<x>> \o s \in Seq(S)
        /\ Len(<<x>> \o s) = 1 + Len(s)
        /\ \A i \in 1 .. 1 + Len(s) :
              (<<x>> \o s)[i] = IF i <= 1 THEN <<x>>[i] ELSE s[i - 1]
    BY <1>1, ConcatProperties
  <1>4. ASSUME NEW j \in 1 .. Len(s) PROVE (<<x>> \o s)[j + 1] = s[j]
    <2>1. j + 1 \in 1 .. 1 + Len(s) /\ ~ (j + 1 <= 1) /\ (j + 1) - 1 = j
      BY <1>2
    <2> QED BY <1>3, <2>1
  <1> QED BY <1>1, <1>2, <1>3, <1>4

\* A symbol the scan keeps.
LEMMA KeepLeavesText ==
    ASSUME NEW S, NEW text \in Seq(S), NEW tag, NEW pattern, NEW i \in 1 .. Len(text),
           ShapesAt(pattern, text, i) = {},
           NEW s \in Seq(S \cup {tag}), LeavesText(pattern, text, tag, s, i + 1)
    PROVE  LeavesText(pattern, text, tag, <<text[i]>> \o s, i)
  <1> DEFINE u == <<text[i]>> \o s
  <1>0. Len(text) \in Nat /\ text[i] \in S \cup {tag}
    BY LenProperties, ElementOfSeq
  <1>1. /\ Len(s) \in Nat /\ Len(u) = Len(s) + 1 /\ u[1] = text[i]
        /\ \A j \in 1 .. Len(s) : u[j + 1] = s[j]
    BY <1>0, Cons
  <1> HIDE DEF u
  <1>2. ASSUME NEW n \in 1 .. Len(u), TagFree(u, 1, n, tag)
        PROVE  SameSymbols(u, 1, text, i, n)
    <2>1. CASE n = 1
      BY <1>0, <1>1, <2>1 DEF SameSymbols
    <2>2. CASE n > 1
      <3> DEFINE m == n - 1
      <3>1. m \in 1 .. Len(s) /\ n = m + 1
        BY <1>1, <2>2
      <3>2. ASSUME NEW j \in 1 .. m PROVE s[1 + j - 1] # tag
        <4>1. j \in 1 .. Len(s) /\ j + 1 \in 1 .. n /\ 1 + j - 1 = j /\ 1 + (j + 1) - 1 = j + 1
          BY <1>1, <3>1
        <4>2. u[1 + (j + 1) - 1] # tag
          BY <1>2, <4>1 DEF TagFree
        <4> QED BY <1>1, <4>1, <4>2
      <3>3. SameSymbols(s, 1, text, i + 1, m)
        BY <3>1, <3>2 DEF TagFree, LeavesText
      <3>4. ASSUME NEW j \in 1 .. n PROVE u[1 + j - 1] = text[i + j - 1]
        <4>1. CASE j = 1
          BY <1>1, <4>1
        <4>2. CASE j > 1
          <5>1. /\ j - 1 \in 1 .. m /\ j - 1 \in 1 .. Len(s) /\ (j - 1) + 1 = j
                /\ 1 + (j - 1) - 1 = j - 1 /\ (i + 1) + (j - 1) - 1 = i + j - 1
                /\ 1 + j - 1 = j
            BY <1>1, <3>1, <4>2
          <5>2. s[1 + (j - 1) - 1] = text[(i + 1) + (j - 1) - 1]
            BY <3>3, <5>1 DEF SameSymbols
          <5>3. u[(j - 1) + 1] = s[j - 1]
            BY <1>1, <5>1
          <5> QED BY <5>1, <5>2, <5>3
        <4> QED BY <4>1, <4>2
      <3>5. i + n <= Len(text) + 1
        BY <1>0, <3>1, <3>3 DEF SameSymbols
      <3> QED BY <3>4, <3>5 DEF SameSymbols
    <2> QED BY <2>1, <2>2
  <1>3. ASSUME NEW p \in 1 .. Len(u), NEW n \in 1 .. Len(u),
               p + n <= Len(u) + 1, TagFree(u, p, n, tag)
        PROVE  \E q \in i .. Len(text) :
                  /\ ShapesAt(pattern, text, q) = {}
                  /\ SameSymbols(u, p, text, q, n)
    <2>1. CASE p = 1
      BY <1>2, <1>3, <2>1
    <2>2. CASE p > 1
      <3> DEFINE r == p - 1
      <3>1. r \in 1 .. Len(s) /\ n \in 1 .. Len(s) /\ r + n <= Len(s) + 1
        BY <1>1, <1>3, <2>2
      <3>2. ASSUME NEW j \in 1 .. n PROVE u[p + j - 1] = s[r + j - 1]
        <4>1. r + j - 1 \in 1 .. Len(s) /\ (r + j - 1) + 1 = p + j - 1
          BY <1>1, <3>1
        <4> QED BY <1>1, <4>1
      <3>3. TagFree(s, r, n, tag)
        BY <1>3, <3>2 DEF TagFree
      <3>4. PICK q \in i + 1 .. Len(text) : /\ ShapesAt(pattern, text, q) = {}
                                            /\ SameSymbols(s, r, text, q, n)
        BY <3>1, <3>3 DEF LeavesText
      <3>5. SameSymbols(u, p, text, q, n)
        BY <3>2, <3>4 DEF SameSymbols
      <3>6. q \in i .. Len(text)
        BY <1>0
      <3> QED BY <3>4, <3>5, <3>6
    <2> QED BY <2>1, <2>2
  <1>4. LeavesText(pattern, text, tag, u, i)
    <2>1. \A n \in 1 .. Len(u) :
             TagFree(u, 1, n, tag) =>
                /\ i <= Len(text) /\ ShapesAt(pattern, text, i) = {}
                /\ SameSymbols(u, 1, text, i, n)
      BY <1>0, <1>2
    <2> QED BY <1>3, <2>1 DEF LeavesText
  <1> QED BY <1>4 DEF u

\* A tag the scan puts in the place of a match.
LEMMA TagLeavesText ==
    ASSUME NEW S, NEW text \in Seq(S), NEW tag, NEW pattern, NEW i \in 1 .. Len(text),
           NEW k \in i + 1 .. Len(text) + 1,
           NEW s \in Seq(S \cup {tag}), LeavesText(pattern, text, tag, s, k)
    PROVE  LeavesText(pattern, text, tag, <<tag>> \o s, i)
  <1> DEFINE u == <<tag>> \o s
  <1>0. Len(text) \in Nat
    BY LenProperties
  <1>1. /\ Len(s) \in Nat /\ Len(u) = Len(s) + 1 /\ u[1] = tag
        /\ \A j \in 1 .. Len(s) : u[j + 1] = s[j]
    BY Cons
  <1> HIDE DEF u
  <1>2. ASSUME NEW n \in 1 .. Len(u), TagFree(u, 1, n, tag) PROVE FALSE
    BY <1>1, <1>2 DEF TagFree
  <1>3. ASSUME NEW p \in 1 .. Len(u), NEW n \in 1 .. Len(u),
               p + n <= Len(u) + 1, TagFree(u, p, n, tag)
        PROVE  \E q \in i .. Len(text) :
                  /\ ShapesAt(pattern, text, q) = {}
                  /\ SameSymbols(u, p, text, q, n)
    <2> DEFINE r == p - 1
    <2>1. r \in 1 .. Len(s) /\ n \in 1 .. Len(s) /\ r + n <= Len(s) + 1
      BY <1>1, <1>2, <1>3
    <2>2. ASSUME NEW j \in 1 .. n PROVE u[p + j - 1] = s[r + j - 1]
      <3>1. r + j - 1 \in 1 .. Len(s) /\ (r + j - 1) + 1 = p + j - 1
        BY <1>1, <2>1
      <3> QED BY <1>1, <3>1
    <2>3. TagFree(s, r, n, tag)
      BY <1>3, <2>2 DEF TagFree
    <2>4. PICK q \in k .. Len(text) : /\ ShapesAt(pattern, text, q) = {}
                                      /\ SameSymbols(s, r, text, q, n)
      BY <2>1, <2>3 DEF LeavesText
    <2>5. SameSymbols(u, p, text, q, n)
      BY <2>2, <2>4 DEF SameSymbols
    <2>6. q \in i .. Len(text)
      BY <1>0
    <2> QED BY <2>4, <2>5, <2>6
  <1>4. LeavesText(pattern, text, tag, u, i)
    BY <1>0, <1>2, <1>3 DEF LeavesText
  <1> QED BY <1>4 DEF u

\* All that ReplaceAll returns are tags and such stretches.
LEMMA ReplaceAllLeavesText ==
    ASSUME NEW S, NEW text \in Seq(S), NEW tag, NEW pattern, NonEmptyShapes(pattern)
    PROVE  /\ ReplaceAll(pattern, text, tag) \in Seq(S \cup {tag})
           /\ LeavesText(pattern, text, tag, ReplaceAll(pattern, text, tag), 1)
  <1> DEFINE N == Len(text)
  <1>0. N \in Nat
    BY LenProperties
  <1>1. PICK f : /\ ScansFrom(pattern, text, tag, f, 1)
                 /\ ReplaceAll(pattern, text, tag) = f[1]
    BY <1>0, ReplaceAllScans
  <1> DEFINE Good(i) == /\ f[i] \in Seq(S \cup {tag})
                        /\ LeavesText(pattern, text, tag, f[i], i)
  <1>2. \A i \in 1 .. N + 1 : f[i] = ScanStep(pattern, text, tag, f, i)
    BY <1>1 DEF ScansFrom
  <1>3. Good(N + 1)
    <2>1. f[N + 1] = ScanStep(pattern, text, tag, f, N + 1)
      BY <1>0, <1>2
    <2>2. ScanStep(pattern, text, tag, f, N + 1) = <<>>
      BY <1>0 DEF ScanStep
    <2>3. LeavesText(pattern, text, tag, <<>>, N + 1)
      BY EmptySeq DEF LeavesText
    <2> QED BY <2>1, <2>2, <2>3, EmptySeq
  <1>4. ASSUME NEW i \in 1 .. N, \A k \in i + 1 .. N + 1 : Good(k)
        PROVE  Good(i)
    <2>0. f[i] = ScanStep(pattern, text, tag, f, i)
      BY <1>0, <1>2
    <2>1. CASE ShapesAt(pattern, text, i) = {}
      <3>1. f[i] = <<text[i]>> \o f[i + 1]
        BY <1>0, <2>0, <2>1 DEF ScanStep
      <3>2. i + 1 \in i + 1 .. N + 1 /\ text[i] \in S \cup {tag}
        BY <1>0, ElementOfSeq
      <3>3. Good(i + 1)
        BY <1>4, <3>2
      <3>4. f[i] \in Seq(S \cup {tag})
        BY <3>1, <3>2, <3>3, Cons
      <3>5. LeavesText(pattern, text, tag, f[i], i)
        BY <2>1, <3>1, <3>3, KeepLeavesText
      <3> QED BY <3>4, <3>5
    <2>2. CASE ShapesAt(pattern, text, i) # {}
      <3> DEFINE shape == CHOOSE s \in ShapesAt(pattern, text, i) : TRUE
                 k == i + Len(shape)
      <3>1. k \in i + 1 .. N + 1
        BY <1>0, <2>2, ChosenShape
      <3>2. f[i] = <<tag>> \o f[k]
        BY <1>0, <2>0, <2>2 DEF ScanStep
      <3> HIDE DEF k
      <3>3. Good(k)
        BY <1>4, <3>1
      <3>4. f[i] \in Seq(S \cup {tag})
        BY <3>2, <3>3, Cons
      <3>5. LeavesText(pattern, text, tag, f[i], i)
        BY <3>1, <3>2, <3>3, TagLeavesText
      <3> QED BY <3>4, <3>5
    <2> QED BY <2>1, <2>2
  <1> HIDE DEF Good
  <1>5. \A i \in 1 .. N + 1 : Good(i)
    <2> DEFINE T == {n \in 0 .. N : ~ Good(N + 1 - n)}
    <2>1. ASSUME T # {} PROVE FALSE
      <3>1. PICK n \in T : \A m \in T : n <= m
        <4>1. T \subseteq Nat
          BY <1>0
        <4> HIDE DEF T
        <4> QED BY <2>1, <4>1, LeastNatural
      <3>2. n \in 1 .. N
        BY <1>0, <1>3
      <3>3. ASSUME NEW k \in (N + 1 - n) + 1 .. N + 1 PROVE Good(k)
        <4>1. N + 1 - k \in 0 .. N /\ N + 1 - k < n /\ N + 1 - (N + 1 - k) = k
          BY <1>0, <3>2
        <4>2. N + 1 - k \notin T
          BY <1>0, <3>1, <3>2, <4>1
        <4> QED BY <4>1, <4>2
      <3>4. N + 1 - n \in 1 .. N
        BY <1>0, <3>2
      <3>5. Good(N + 1 - n)
        BY <1>4, <3>3, <3>4
      <3> QED BY <3>1, <3>5
    <2>2. ASSUME NEW i \in 1 .. N + 1 PROVE Good(i)
      <3>1. N + 1 - i \in 0 .. N /\ N + 1 - (N + 1 - i) = i
        BY <1>0
      <3>2. N + 1 - i \notin T
        BY <2>1
      <3> QED BY <3>1, <3>2
    <2> QED BY <2>2
  <1>6. Good(1)
    BY <1>0, <1>5
  <1> QED BY <1>1, <1>6 DEF Good

---------------------------------------------------------------------------
(* What a replacement makes of the matches.                                *)

\* The pattern matches somewhere in the text.
Occurs(pattern, text) == \E i \in 1 .. Len(text) : ShapesAt(pattern, text, i) # {}

\* No symbol of a shape is the tag.
ExcludesTag(pattern, tag) == \A s \in pattern : \A j \in 1 .. Len(s) : tag \notin s[j]

\* The other pattern matches at a place of the text where the first does not.
OccursBeside(pattern, text, other) ==
    \E q \in 1 .. Len(text) : /\ ShapesAt(pattern, text, q) = {}
                              /\ ShapesAt(other, text, q) # {}

\* A match in what is left was a match of the text, where the pattern had none.
LEMMA MatchWasInText ==
    ASSUME NEW pattern, NEW text, NEW tag, NEW out, Len(text) \in Nat, Len(out) \in Nat,
           LeavesText(pattern, text, tag, out, 1),
           NEW other, NonEmptyShapes(other), ExcludesTag(other, tag), Occurs(other, out)
    PROVE  OccursBeside(pattern, text, other)
  <1> PICK i \in 1 .. Len(out) : ShapesAt(other, out, i) # {}
    BY DEF Occurs
  <1> PICK shape \in ShapesAt(other, out, i) : TRUE
    OBVIOUS
  <1> DEFINE n == Len(shape)
  <1>1. /\ shape \in other /\ n \in Nat \ {0} /\ i + n <= Len(out) + 1
        /\ \A j \in 1 .. n : out[i + j - 1] \in shape[j]
    BY DEF ShapesAt, MatchesAt, NonEmptyShapes
  <1>2. TagFree(out, i, n, tag)
    BY <1>1 DEF TagFree, ExcludesTag
  <1>3. PICK q \in 1 .. Len(text) : /\ ShapesAt(pattern, text, q) = {}
                                    /\ SameSymbols(out, i, text, q, n)
    <2>1. n \in 1 .. Len(out)
      BY <1>1
    <2> QED BY <1>1, <1>2, <2>1 DEF LeavesText
  <1>4. MatchesAt(shape, text, q)
    <2>1. q + n <= Len(text) + 1
      BY <1>3 DEF SameSymbols
    <2>2. ASSUME NEW j \in 1 .. n PROVE text[q + j - 1] \in shape[j]
      BY <1>1, <1>3 DEF SameSymbols
    <2> QED BY <2>1, <2>2 DEF MatchesAt
  <1> QED BY <1>1, <1>3, <1>4 DEF ShapesAt, OccursBeside

\* ReplaceAll leaves no match of its pattern and makes none of another.
LEMMA ReplaceAllClears ==
    ASSUME NEW S, NEW text \in Seq(S), NEW tag, NEW pattern,
           NonEmptyShapes(pattern), ExcludesTag(pattern, tag)
    PROVE  LET out == ReplaceAll(pattern, text, tag)
           IN  /\ out \in Seq(S \cup {tag})
               /\ ~ Occurs(pattern, out)
               /\ \A other : /\ NonEmptyShapes(other) /\ ExcludesTag(other, tag)
                             /\ ~ Occurs(other, text)
                             => ~ Occurs(other, out)
  <1> DEFINE out == ReplaceAll(pattern, text, tag)
  <1>1. out \in Seq(S \cup {tag}) /\ LeavesText(pattern, text, tag, out, 1)
    BY ReplaceAllLeavesText
  <1>2. Len(text) \in Nat /\ Len(out) \in Nat
    BY <1>1, LenProperties
  <1> HIDE DEF out
  <1>3. ASSUME NEW other, NonEmptyShapes(other), ExcludesTag(other, tag),
               Occurs(other, out)
        PROVE  OccursBeside(pattern, text, other)
    BY <1>1, <1>2, <1>3, MatchWasInText
  <1>4. ~ Occurs(pattern, out)
    BY <1>3 DEF OccursBeside
  <1>5. ASSUME NEW other, NonEmptyShapes(other), ExcludesTag(other, tag),
               Occurs(other, out)
        PROVE  Occurs(other, text)
    BY <1>3, <1>5 DEF Occurs, OccursBeside
  <1> QED BY <1>1, <1>4, <1>5 DEF out

---------------------------------------------------------------------------
(* The three patterns.                                                     *)

Plain == Digit \cup Space \cup {"-", ".", "+", "(", ")"}

\* Sequences of sets of symbols none of which is a tag.
Shape == Seq(SUBSET Plain)

LEMMA RepeatShape ==
    ASSUME NEW n \in Nat, NEW symbols \in SUBSET Plain
    PROVE  Repeat(n, symbols) \in Shape /\ Len(Repeat(n, symbols)) = n
  BY DEF Repeat, Shape

LEMMA DigitsShape ==
    ASSUME NEW n \in Nat
    PROVE  Digits(n) \in Shape /\ Len(Digits(n)) = n
  BY RepeatShape DEF Digits, Plain

LEMMA SymbolShape ==
    ASSUME NEW symbols \in SUBSET Plain
    PROVE  <<symbols>> \in Shape /\ Len(<<symbols>>) = 1
  BY DEF Shape

LEMMA ConcatShape ==
    ASSUME NEW s \in Shape, NEW t \in Shape
    PROVE  s \o t \in Shape /\ Len(s \o t) = Len(s) + Len(t) /\ Len(s) \in Nat
  BY ConcatProperties, LenProperties DEF Shape

\* A pattern whose matches are of plain symbols, and at least one.
PlainPattern(pattern) == \A s \in pattern : s \in Shape /\ Len(s) >= 1

LEMMA SsnPlain == PlainPattern(SsnPattern)
  <1>1. {"-"} \in SUBSET Plain
    BY DEF Plain
  <1> DEFINE s2 == Digits(3) \o <<{"-"}>>
             s3 == s2 \o Digits(2)
             s4 == s3 \o <<{"-"}>>
             s5 == s4 \o Digits(4)
  <1>2. s2 \in Shape /\ Len(s2) \in Nat
    BY <1>1, DigitsShape, SymbolShape, ConcatShape
  <1> HIDE DEF s2
  <1>3. s3 \in Shape /\ Len(s3) \in Nat
    BY <1>2, DigitsShape, ConcatShape
  <1> HIDE DEF s3
  <1>4. s4 \in Shape /\ Len(s4) \in Nat
    BY <1>1, <1>3, SymbolShape, ConcatShape
  <1> HIDE DEF s4
  <1>5. s5 \in Shape /\ Len(s5) >= 1
    BY <1>4, DigitsShape, ConcatShape
  <1> HIDE DEF s5
  <1>6. SsnPattern = {s5}
    BY DEF SsnPattern, s5, s4, s3, s2
  <1> QED BY <1>5, <1>6 DEF PlainPattern

LEMMA CcPlain == PlainPattern(CcPattern)
  <1> DEFINE separator == {<<>>, <<Space \cup {"-"}>>}
  <1>1. \A t \in separator : t \in Shape /\ Len(t) \in 0 .. 1
    <2>1. <<>> \in Shape /\ Len(<<>>) = 0
      BY EmptySeq DEF Shape
    <2>2. Space \cup {"-"} \in SUBSET Plain
      BY DEF Plain
    <2> QED BY <2>1, <2>2, SymbolShape
  <1>2. ASSUME NEW t1 \in separator, NEW t2 \in separator, NEW t3 \in separator
        PROVE  LET s == Digits(4) \o t1 \o Digits(4) \o t2 \o Digits(4) \o t3 \o Digits(4)
               IN  s \in Shape /\ Len(s) >= 1
    <2> DEFINE s2 == Digits(4) \o t1
               s3 == s2 \o Digits(4)
               s4 == s3 \o t2
               s5 == s4 \o Digits(4)
               s6 == s5 \o t3
               s7 == s6 \o Digits(4)
    <2>0. /\ t1 \in Shape /\ Len(t1) \in Nat
          /\ t2 \in Shape /\ Len(t2) \in Nat
          /\ t3 \in Shape /\ Len(t3) \in Nat
      BY <1>1
    <2>1. Digits(4) \in Shape /\ Len(Digits(4)) = 4
      BY DigitsShape
    <2>2. s2 \in Shape /\ Len(s2) \in Nat
      BY <2>0, <2>1, ConcatShape
    <2> HIDE DEF s2
    <2>3. s3 \in Shape /\ Len(s3) \in Nat
      BY <2>1, <2>2, ConcatShape
    <2> HIDE DEF s3
    <2>4. s4 \in Shape /\ Len(s4) \in Nat
      BY <2>0, <2>3, ConcatShape
    <2> HIDE DEF s4
    <2>5. s5 \in Shape /\ Len(s5) \in Nat
      BY <2>1, <2>4, ConcatShape
    <2> HIDE DEF s5
    <2>6. s6 \in Shape /\ Len(s6) \in Nat
      BY <2>0, <2>5, ConcatShape
    <2> HIDE DEF s6
    <2>7. s7 \in Shape /\ Len(s7) >= 1
      BY <2>1, <2>6, ConcatShape
    <2> QED BY <2>7 DEF s6, s5, s4, s3, s2
  <1> HIDE DEF separator
  <1>3. ASSUME NEW shape \in CcPattern PROVE shape \in Shape /\ Len(shape) >= 1
    <2>1. PICK s \in [1 .. 3 -> separator] :
             shape = Digits(4) \o s[1] \o Digits(4) \o s[2] \o Digits(4) \o s[3] \o Digits(4)
      BY DEF CcPattern, separator
    <2>2. s[1] \in separator /\ s[2] \in separator /\ s[3] \in separator
      OBVIOUS
    <2> QED BY <1>2, <2>1, <2>2
  <1> QED BY <1>3 DEF PlainPattern

LEMMA PhonePlain == PlainPattern(PhonePattern)
  <1>1. /\ {"+"} \in SUBSET Plain /\ {"1"} \in SUBSET Plain
        /\ {"("} \in SUBSET Plain /\ {")"} \in SUBSET Plain
        /\ {"-"} \in SUBSET Plain /\ {"-", "."} \in SUBSET Plain
        /\ Space \in SUBSET Plain
    BY DEF Plain, Digit
  <1>2. <<{"+"}, {"1"}>> \in Shape /\ Len(<<{"+"}, {"1"}>>) = 2
    BY <1>1 DEF Shape
  <1> DEFINE international == <<{"+"}, {"1"}>> \o Digits(10)
  <1>3. international \in Shape /\ Len(international) >= 1
    BY <1>2, DigitsShape, ConcatShape
  <1> DEFINE plain2 == Digits(3) \o <<{"-", "."}>>
             plain3 == plain2 \o Digits(3)
             plain4 == plain3 \o <<{"-", "."}>>
             plain5 == plain4 \o Digits(4)
  <1>4. plain5 \in Shape /\ Len(plain5) >= 1
    <2>2. plain2 \in Shape /\ Len(plain2) \in Nat
      BY <1>1, DigitsShape, SymbolShape, ConcatShape
    <2> HIDE DEF plain2
    <2>3. plain3 \in Shape /\ Len(plain3) \in Nat
      BY <2>2, DigitsShape, ConcatShape
    <2> HIDE DEF plain3
    <2>4. plain4 \in Shape /\ Len(plain4) \in Nat
      BY <1>1, <2>3, SymbolShape, ConcatShape
    <2> HIDE DEF plain4
    <2> QED BY <2>4, DigitsShape, ConcatShape
  <1> DEFINE bracketed2 == <<{"("}>> \o Digits(3)
             bracketed3 == bracketed2 \o <<{")"}>>
             bracketed4(n) == bracketed3 \o Repeat(n, Space)
             bracketed5(n) == bracketed4(n) \o Digits(3)
             bracketed6(n) == bracketed5(n) \o <<{"-"}>>
             bracketed7(n) == bracketed6(n) \o Digits(4)
  <1>5. ASSUME NEW n \in 0 .. MaxSpaces
        PROVE  bracketed7(n) \in Shape /\ Len(bracketed7(n)) >= 1
    <2>0. n \in Nat
      BY SanitizerAssumption
    <2>2. bracketed2 \in Shape /\ Len(bracketed2) \in Nat
      BY <1>1, DigitsShape, SymbolShape, ConcatShape
    <2> HIDE DEF bracketed2
    <2>3. bracketed3 \in Shape /\ Len(bracketed3) \in Nat
      BY <1>1, <2>2, SymbolShape, ConcatShape
    <2> HIDE DEF bracketed3
    <2>4. bracketed4(n) \in Shape /\ Len(bracketed4(n)) \in Nat
      BY <1>1, <2>0, <2>3, RepeatShape, ConcatShape
    <2> HIDE DEF bracketed4
    <2>5. bracketed5(n) \in Shape /\ Len(bracketed5(n)) \in Nat
      BY <2>4, DigitsShape, ConcatShape
    <2> HIDE DEF bracketed5
    <2>6. bracketed6(n) \in Shape /\ Len(bracketed6(n)) \in Nat
      BY <1>1, <2>5, SymbolShape, ConcatShape
    <2> HIDE DEF bracketed6
    <2> QED BY <2>6, DigitsShape, ConcatShape
  <1> HIDE DEF international
  <1>6. PhonePattern = {international, plain5} \cup {bracketed7(n) : n \in 0 .. MaxSpaces}
    BY DEF PhonePattern, international
  <1> HIDE DEF plain5, bracketed7
  <1> QED BY <1>3, <1>4, <1>5, <1>6 DEF PlainPattern

---------------------------------------------------------------------------
(* SanitizePII.                                                            *)

\* No tag is in a shape, and no shape is empty.
LEMMA PlainExcludes ==
    ASSUME NEW pattern, PlainPattern(pattern), NEW tag, tag \notin Plain
    PROVE  NonEmptyShapes(pattern) /\ ExcludesTag(pattern, tag)
  <1>1. ASSUME NEW s \in pattern
        PROVE  Len(s) \in Nat \ {0} /\ \A j \in 1 .. Len(s) : tag \notin s[j]
    <2>1. s \in Seq(SUBSET Plain) /\ Len(s) >= 1
      BY DEF PlainPattern, Shape
    <2>2. Len(s) \in Nat
      BY <2>1, LenProperties
    <2>3. ASSUME NEW j \in 1 .. Len(s) PROVE s[j] \subseteq Plain
      BY <2>1, ElementOfSeq
    <2> QED BY <2>1, <2>2, <2>3
  <1> QED BY <1>1 DEF NonEmptyShapes, ExcludesTag

\* The text that SanitizePII returns (sanitizer.go:25-31) shows no card, social
\* security or phone number, for every text: each replacement leaves nothing of
\* its own pattern, and puts together nothing of the others'.
THEOREM SanitizedIsClean ==
    ASSUME NEW S, NEW text \in Seq(S)
    PROVE  /\ ~ ShowsPII(SanitizePII(text))
           /\ \E U : SanitizePII(text) \in Seq(U)
  <1> DEFINE cc == "[CC_REDACTED]"
             ssn == "[SSN_REDACTED]"
             phone == "[PHONE_REDACTED]"
             noCards == ReplaceAll(CcPattern, text, cc)
             noSsns == ReplaceAll(SsnPattern, noCards, ssn)
             clean == ReplaceAll(PhonePattern, noSsns, phone)
  <1>1. cc \notin Plain /\ ssn \notin Plain /\ phone \notin Plain
    BY DEF Plain, Digit, Space
  <1> HIDE DEF cc, ssn, phone
  <1>2. \A tag \in {cc, ssn, phone}, pattern \in {CcPattern, SsnPattern, PhonePattern} :
           NonEmptyShapes(pattern) /\ ExcludesTag(pattern, tag)
    BY <1>1, CcPlain, SsnPlain, PhonePlain, PlainExcludes
  <1>3. noCards \in Seq(S \cup {cc}) /\ ~ Occurs(CcPattern, noCards)
    BY <1>2, ReplaceAllClears
  <1> HIDE DEF noCards
  <1>4. /\ noSsns \in Seq(S \cup {cc} \cup {ssn})
        /\ ~ Occurs(SsnPattern, noSsns) /\ ~ Occurs(CcPattern, noSsns)
    BY <1>2, <1>3, ReplaceAllClears
  <1> HIDE DEF noSsns
  <1>5. /\ ~ Occurs(PhonePattern, clean)
        /\ ~ Occurs(SsnPattern, clean) /\ ~ Occurs(CcPattern, clean)
        /\ clean \in Seq(S \cup {cc} \cup {ssn} \cup {phone})
    BY <1>2, <1>4, ReplaceAllClears
  <1> HIDE DEF clean
  <1>6. ~ ShowsPII(clean)
    BY <1>5 DEF ShowsPII, Occurs, ShapesAt
  <1> QED BY <1>5, <1>6 DEF SanitizePII, clean, noSsns, noCards, cc, ssn, phone

\* Where its pattern does not match, ReplaceAll changes nothing.
LEMMA ReplaceAllLeavesAlone ==
    ASSUME NEW S, NEW text \in Seq(S), NEW tag, NEW pattern,
           NonEmptyShapes(pattern), ~ Occurs(pattern, text)
    PROVE  ReplaceAll(pattern, text, tag) = text
  <1> DEFINE N == Len(text)
  <1>0. N \in Nat
    BY LenProperties
  <1>1. PICK f : /\ ScansFrom(pattern, text, tag, f, 1)
                 /\ ReplaceAll(pattern, text, tag) = f[1]
    BY <1>0, ReplaceAllScans
  <1> DEFINE Good(i) == f[i] = SubSeq(text, i, N)
             T == {n \in 0 .. N : ~ Good(N + 1 - n)}
  <1>2. \A i \in 1 .. N + 1 : f[i] = ScanStep(pattern, text, tag, f, i)
    BY <1>1 DEF ScansFrom
  <1>3. Good(N + 1)
    <2>1. f[N + 1] = ScanStep(pattern, text, tag, f, N + 1)
      BY <1>0, <1>2
    <2>2. ScanStep(pattern, text, tag, f, N + 1) = <<>>
      BY <1>0 DEF ScanStep
    <2>3. SubSeq(text, N + 1, N) = <<>>
      BY <1>0, SubSeqEmpty
    <2> QED BY <2>1, <2>2, <2>3
  <1>4. ASSUME NEW i \in 1 .. N, Good(i + 1) PROVE Good(i)
    <2>1. f[i] = ScanStep(pattern, text, tag, f, i)
      BY <1>0, <1>2
    <2>2. ScanStep(pattern, text, tag, f, i) = <<text[i]>> \o f[i + 1]
      BY <1>0 DEF ScanStep, Occurs
    <2>3. SubSeq(text, i, N) = <<text[i]>> \o SubSeq(text, i + 1, N)
      BY <1>0, SubSeqRecursiveFirst
    <2> QED BY <1>4, <2>1, <2>2, <2>3
  <1> HIDE DEF Good
  <1>5. ASSUME T # {} PROVE FALSE
    <2>1. PICK n \in T : \A m \in T : n <= m
      <3>1. T \subseteq Nat
        BY <1>0
      <3> HIDE DEF T
      <3> QED BY <1>5, <3>1, LeastNatural
    <2>2. n \in 1 .. N
      BY <1>0, <1>3
    <2>3. n - 1 \notin T
      BY <1>0, <2>1, <2>2
    <2>4. Good((N + 1 - n) + 1) /\ N + 1 - n \in 1 .. N
      <3>1. N + 1 - (n - 1) = (N + 1 - n) + 1 /\ n - 1 \in 0 .. N
        BY <1>0, <2>2
      <3> QED BY <1>0, <2>2, <2>3, <3>1
    <2>5. Good(N + 1 - n)
      BY <1>4, <2>4
    <2> QED BY <2>1, <2>5
  <1>6. Good(1)
    <2>1. N \in 0 .. N /\ N + 1 - N = 1
      BY <1>0
    <2>2. N \notin T
      BY <1>5
    <2> QED BY <2>1, <2>2
  <1>7. SubSeq(text, 1, N) = text
    BY SubSeqFull
  <1> QED BY <1>1, <1>6, <1>7 DEF Good

\* SanitizePII changes no text that shows no such number, so sanitizing a text a
\* second time changes nothing (sanitizer.go:25-31).
THEOREM SanitizedOnce ==
    ASSUME NEW S, NEW text \in Seq(S)
    PROVE  /\ ~ ShowsPII(text) => SanitizePII(text) = text
           /\ SanitizePII(SanitizePII(text)) = SanitizePII(text)
  <1>1. ASSUME NEW U, NEW t \in Seq(U), ~ ShowsPII(t) PROVE SanitizePII(t) = t
    <2>1. /\ ~ Occurs(CcPattern, t) /\ ~ Occurs(SsnPattern, t)
          /\ ~ Occurs(PhonePattern, t)
      BY <1>1 DEF ShowsPII, Occurs, ShapesAt
    <2>2. /\ NonEmptyShapes(CcPattern) /\ NonEmptyShapes(SsnPattern)
          /\ NonEmptyShapes(PhonePattern)
      <3>1. "[CC_REDACTED]" \notin Plain
        BY DEF Plain, Digit, Space
      <3> QED BY <3>1, CcPlain, SsnPlain, PhonePlain, PlainExcludes
    <2>3. /\ ReplaceAll(CcPattern, t, "[CC_REDACTED]") = t
          /\ ReplaceAll(SsnPattern, t, "[SSN_REDACTED]") = t
          /\ ReplaceAll(PhonePattern, t, "[PHONE_REDACTED]") = t
      BY <2>1, <2>2, ReplaceAllLeavesAlone
    <2> QED BY <2>3 DEF SanitizePII
  <1> QED BY <1>1, SanitizedIsClean

=============================================================================
