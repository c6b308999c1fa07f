----------------------------- MODULE TextWrapProofs -----------------------------
(***************************************************************************)
(* Theorems about the two wrapping algorithms, for every text, every width  *)
(* of the characters and every size of a line, of the screen and of the     *)
(* line arrays.                                                            *)
(***************************************************************************)
EXTENDS TextWrap, Recursion, SequenceTheorems

Text == Seq(Chars)
Page == Seq(Text)

(***************************************************************************)
(* Sequences.                                                              *)
(***************************************************************************)

\* What holds of the empty sequence, and of Append(s, e) with s, holds of every sequence.
LEMMA SequenceInduction ==
  ASSUME NEW S, NEW T, <<>> \in T,
         \A s \in Seq(S) : \A e \in S : s \in T => Append(s, e) \in T
  PROVE  Seq(S) \subseteq T
<1> DEFINE U == {n \in Nat : \A s \in Seq(S) : Len(s) = n => s \in T}
<1>1. 0 \in U
  <2>1. ASSUME NEW s \in Seq(S), Len(s) = 0 PROVE s = <<>>
    BY <2>1, EmptySeq
  <2> QED  BY <2>1
<1>2. ASSUME NEW n \in Nat, n \in U PROVE n + 1 \in U
  <2>1. ASSUME NEW s \in Seq(S), Len(s) = n + 1 PROVE s \in T
    <3>1. s # <<>>
      BY <2>1, EmptySeq
    <3>2. PICK t \in Seq(S), e \in S : s = Append(t, e)
      BY <3>1, SequenceEmptyOrAppend
    <3>3. Len(t) = n
      BY <2>1, <3>2, AppendProperties, LenProperties
    <3> QED  BY <1>2, <3>2, <3>3
  <2> QED  BY <2>1
<1> HIDE DEF U
<1>3. Nat \subseteq U
  BY <1>1, <1>2, InductionOnSet
<1>4. ASSUME NEW s \in Seq(S) PROVE s \in T
  <2>1. Len(s) \in U
    BY <1>3, LenProperties
  <2> QED  BY <2>1 DEF U
<1> QED  BY <1>4

\* The elements of an extended sequence.
LEMMA AppendIs ==
  ASSUME NEW S, NEW s \in Seq(S), NEW e \in S
  PROVE  /\ Append(s, e) \in Seq(S) /\ Len(Append(s, e)) = Len(s) + 1 /\ Len(s) \in Nat
         /\ \A k \in 1..Len(s) : Append(s, e)[k] = s[k]
         /\ Append(s, e)[Len(s) + 1] = e
         /\ Last(Append(s, e)) = e
BY AppendProperties, LenProperties DEF Last

\* Appending after a concatenation.
LEMMA ConcatAppend ==
  ASSUME NEW S, NEW s \in Seq(S), NEW t \in Seq(S), NEW e \in S
  PROVE  s \o Append(t, e) = Append(s \o t, e)
<1>1. /\ s \o t \in Seq(S) /\ <<e>> \in Seq(S) /\ Append(t, e) = t \o <<e>>
      /\ Append(s \o t, e) = (s \o t) \o <<e>>
  BY ConcatProperties, AppendIsConcat
<1> QED  BY <1>1, ConcatAssociative

\* Texts are put after each other in either grouping.
LEMMA TextAssociates ==
  ASSUME NEW s \in Text, NEW t \in Text, NEW u \in Text
  PROVE  (s \o t) \o u = s \o (t \o u)
<1>1. s \in Seq(Chars) /\ t \in Seq(Chars) /\ u \in Seq(Chars)
  BY DEF Text
<1> QED  BY <1>1, ConcatAssociative

\* The beginning of a sequence is a prefix of it.
LEMMA PrefixOfConcat ==
  ASSUME NEW S, NEW s \in Seq(S), NEW t \in Seq(S)
  PROVE  IsPrefix(s, s \o t)
<1>1. /\ s \o t \in Seq(S) /\ Len(s \o t) = Len(s) + Len(t) /\ Len(s) \in Nat /\ Len(t) \in Nat
      /\ SubSeq(s, 1, Len(s)) = s
  BY ConcatProperties, LenProperties, SubSeqFull
<1>2. SubSeq(s \o t, 1, Len(s)) = SubSeq(s, 1, Len(s))
  <2>1. CASE Len(s) = 0
    BY <2>1, SubSeqEmpty
  <2>2. CASE Len(s) # 0
    <3>1. 1 \in 1..Len(s) /\ Len(s) \in 1..Len(s)
      BY <1>1, <2>2
    <3> QED  BY <3>1, SubSeqOfConcat1
  <2> QED  BY <2>1, <2>2
<1> QED  BY <1>1, <1>2 DEF IsPrefix

\* A sequence cut in two.
LEMMA CutInTwo ==
  ASSUME NEW S, NEW s \in Seq(S), NEW n \in 0..Len(s)
  PROVE  /\ SubSeq(s, 1, n) \in Seq(S) /\ Len(SubSeq(s, 1, n)) = n
         /\ SubSeq(s, n + 1, Len(s)) \in Seq(S) /\ Len(SubSeq(s, n + 1, Len(s))) = Len(s) - n
         /\ SubSeq(s, 1, n) \o SubSeq(s, n + 1, Len(s)) = s
         /\ \A k \in 1..n : SubSeq(s, 1, n)[k] = s[k]
         /\ \A k \in 1..Len(s) - n : SubSeq(s, n + 1, Len(s))[k] = s[n + k]
<1>1. Len(s) \in Nat /\ n \in Nat /\ \A k \in 1..Len(s) : s[k] \in S
  BY LenProperties, ElementOfSeq
<1>2. SubSeq(s, 1, n) \o SubSeq(s, n + 1, Len(s)) = SubSeq(s, 1, Len(s))
  <2>1. 1 \in 1..Len(s) + 1 /\ n \in 1 - 1..Len(s) /\ Len(s) \in n..Len(s)
    BY <1>1
  <2> QED  BY <2>1, ConcatAdjacentSubSeq
<1>3. /\ SubSeq(s, 1, n) \in Seq(S) /\ Len(SubSeq(s, 1, n)) = n
      /\ \A k \in 1..n : SubSeq(s, 1, n)[k] = s[k]
  <2>1. \A i \in 1..n : s[i] \in S
    BY <1>1
  <2>2. /\ SubSeq(s, 1, n) \in Seq(S)
        /\ Len(SubSeq(s, 1, n)) = IF 1 <= n THEN n - 1 + 1 ELSE 0
        /\ \A i \in 1..n - 1 + 1 : SubSeq(s, 1, n)[i] = s[1 + i - 1]
    BY <1>1, <2>1, SubSeqProperties
  <2> QED  BY <1>1, <2>2
<1>4. /\ SubSeq(s, n + 1, Len(s)) \in Seq(S) /\ Len(SubSeq(s, n + 1, Len(s))) = Len(s) - n
      /\ \A k \in 1..Len(s) - n : SubSeq(s, n + 1, Len(s))[k] = s[n + k]
  <2>1. \A i \in n + 1..Len(s) : s[i] \in S
    BY <1>1
  <2>2. /\ SubSeq(s, n + 1, Len(s)) \in Seq(S)
        /\ Len(SubSeq(s, n + 1, Len(s))) = IF n + 1 <= Len(s) THEN Len(s) - (n + 1) + 1 ELSE 0
        /\ \A i \in 1..Len(s) - (n + 1) + 1 : SubSeq(s, n + 1, Len(s))[i] = s[n + 1 + i - 1]
    BY <1>1, <2>1, SubSeqProperties
  <2> QED  BY <1>1, <2>2
<1> QED  BY <1>2, <1>3, <1>4, SubSeqFull

(***************************************************************************)
(* Recursions over a sequence.                                             *)
(***************************************************************************)

\* Two functions have the same values up to n.
Alike(f, g, n) == \A k \in 0..n : f[k] = g[k]

\* Functions that start alike and go on alike are alike.
LEMMA StepsAgree ==
  ASSUME NEW n \in Nat, NEW f, NEW g, f[0] = g[0],
         \A k \in 1..n : f[k - 1] = g[k - 1] => f[k] = g[k]
  PROVE  Alike(f, g, n)
<1> DEFINE T == {k \in 0..n : f[k] = g[k]}
<1>1. 0 \in T
  OBVIOUS
<1>2. ASSUME NEW k \in 0..n - 1, k \in T PROVE k + 1 \in T
  <2>1. k + 1 \in 1..n /\ k + 1 \in 0..n /\ (k + 1) - 1 = k
    BY <1>2
  <2>2. f[(k + 1) - 1] = g[(k + 1) - 1]
    BY <1>2, <2>1
  <2>3. f[k + 1] = g[k + 1]
    BY <2>1, <2>2
  <2> QED  BY <2>1, <2>3
<1> HIDE DEF T
<1>3. 0..n \subseteq T
  BY <1>1, <1>2, InductionUpTo
<1> QED  BY <1>3 DEF T, Alike

(***************************************************************************)
(* Widths.                                                                 *)
(***************************************************************************)

\* The sums that StrWidth makes.
LEMMA WidthLoop ==
  ASSUME NEW s \in Text
  PROVE  \E w : /\ w \in [0..Len(s) -> Nat] /\ w[0] = 0
                /\ \A k \in 1..Len(s) : w[k] = w[k - 1] + Width[s[k]]
                /\ StrWidth(s) = w[Len(s)]
<1> DEFINE n == Len(s)
           step == [q \in Nat \X (1..n) |-> q[1] + Width[s[q[2]]]]
           Loop(f) == f = [k \in 0..n |-> IF k = 0 THEN 0 ELSE f[k - 1] + Width[s[k]]]
           g == CHOOSE f : Loop(f)
<1>1. n \in Nat /\ \A k \in 1..n : Width[s[k]] \in Nat
  BY WrapAssumption, LenProperties, ElementOfSeq DEF Text
<1>2. step \in [Nat \X (1..n) -> Nat]
  BY <1>1
<1>3. \A v \in Nat, k \in 1..n : step[<<v, k>>] = v + Width[s[k]]
  OBVIOUS
<1>4. StrWidth(s) = g[n]
  BY DEF StrWidth
<1> HIDE DEF step, n
<1>5. PICK f : Recursive(f, Nat, 0, n, step)
  BY <1>1, <1>2, RecursionExists
<1>6. /\ f \in [0..n -> Nat]
      /\ f = [k \in 0..n |-> IF k = 0 THEN 0 ELSE step[<<f[k - 1], k>>]]
  BY <1>5 DEF Recursive
<1>7. ASSUME NEW k \in 0..n, k # 0
      PROVE  k \in 1..n /\ f[k - 1] \in Nat /\ step[<<f[k - 1], k>>] = f[k - 1] + Width[s[k]]
  <2>1. k \in 1..n /\ k - 1 \in 0..n
    BY <1>1, <1>7
  <2> QED  BY <1>3, <1>6, <2>1
<1>8. Loop(f)
  BY <1>6, <1>7
<1>9. Loop(g)
  BY <1>8
<1> HIDE DEF g
<1>10. f[0] = g[0] /\ f[0] = 0
  BY <1>1, <1>8, <1>9
<1>11. ASSUME NEW k \in 1..n
       PROVE  f[k] = f[k - 1] + Width[s[k]] /\ g[k] = g[k - 1] + Width[s[k]]
  <2>1. k \in 0..n /\ k # 0
    BY <1>1
  <2> QED  BY <1>8, <1>9, <2>1
<1>12. Alike(f, g, n)
  BY <1>1, <1>10, <1>11, StepsAgree
<1>13. f[n] = g[n]
  BY <1>1, <1>12 DEF Alike
<1> QED  BY <1>4, <1>6, <1>10, <1>11, <1>13 DEF n

\* The width of a text is the sum of its characters'.
LEMMA WidthIs ==
  /\ StrWidth(<<>>) = 0
  /\ \A s \in Text : \A c \in Chars :
       /\ StrWidth(s) \in Nat
       /\ StrWidth(Append(s, c)) = StrWidth(s) + Width[c]
<1>1. StrWidth(<<>>) = 0
  <2>1. <<>> \in Text /\ Len(<<>>) = 0
    BY EmptySeq DEF Text
  <2> QED  BY <2>1, WidthLoop
<1>2. ASSUME NEW s \in Text, NEW c \in Chars
      PROVE  StrWidth(s) \in Nat /\ StrWidth(Append(s, c)) = StrWidth(s) + Width[c]
  <2> DEFINE t == Append(s, c)
             n == Len(s)
  <2>1. /\ t \in Text /\ Len(t) = n + 1 /\ n \in Nat
        /\ \A k \in 1..n : t[k] = s[k]
        /\ t[n + 1] = c
    BY AppendIs DEF Text
  <2> HIDE DEF t
  <2>2. PICK w : /\ w \in [0..n -> Nat] /\ w[0] = 0
                 /\ \A k \in 1..n : w[k] = w[k - 1] + Width[s[k]]
                 /\ StrWidth(s) = w[n]
    BY WidthLoop
  <2>3. PICK v : /\ v \in [0..n + 1 -> Nat] /\ v[0] = 0
                 /\ \A k \in 1..n + 1 : v[k] = v[k - 1] + Width[t[k]]
                 /\ StrWidth(t) = v[n + 1]
    BY <2>1, WidthLoop
  <2> HIDE DEF n
  <2>4. Alike(w, v, n)
    <3>1. \A k \in 1..n : k \in 1..n + 1 /\ t[k] = s[k]
      BY <2>1
    <3>2. \A k \in 1..n : w[k - 1] = v[k - 1] => w[k] = v[k]
      BY <2>2, <2>3, <3>1
    <3> QED  BY <2>1, <2>2, <2>3, <3>2, StepsAgree
  <2>5. n + 1 \in 1..n + 1 /\ n \in 0..n /\ (n + 1) - 1 = n
    BY <2>1
  <2>6. v[n + 1] = v[n] + Width[c]
    BY <2>1, <2>3, <2>5
  <2> QED  BY <2>2, <2>3, <2>4, <2>5, <2>6 DEF t, Alike
<1> QED  BY <1>1, <1>2

\* A buffer is full by its width before it is full by its length.
LEMMA FullIsWide ==
  ASSUME NEW s \in Text
  PROVE  AboutCap * StrWidth(s) >= Len(s) * (MaxWidth + 1)
<1> DEFINE T == {t \in Text : AboutCap * StrWidth(t) >= Len(t) * (MaxWidth + 1)}
<1>1. AboutCap \in Nat /\ MaxWidth \in Nat
  BY WrapAssumption
<1>2. <<>> \in T
  BY <1>1, WidthIs, EmptySeq DEF Text
<1>3. ASSUME NEW t \in Text, NEW c \in Chars, t \in T PROVE Append(t, c) \in T
  <2>1. /\ Append(t, c) \in Text /\ Len(Append(t, c)) = Len(t) + 1 /\ Len(t) \in Nat
    BY AppendIs DEF Text
  <2>2. StrWidth(t) \in Nat /\ StrWidth(Append(t, c)) = StrWidth(t) + Width[c]
    BY WidthIs
  <2>3. Width[c] \in Nat /\ MaxWidth + 1 <= AboutCap * Width[c]
    BY <1>1, RoomForALine, WrapAssumption DEF Chars
  <2>4. AboutCap * (StrWidth(t) + Width[c]) = (AboutCap * StrWidth(t)) + (AboutCap * Width[c])
    BY <1>1, <2>2, <2>3
  <2>5. (Len(t) + 1) * (MaxWidth + 1) = (Len(t) * (MaxWidth + 1)) + (MaxWidth + 1)
    BY <1>1, <2>1
  <2>6. AboutCap * StrWidth(t) >= Len(t) * (MaxWidth + 1)
    BY <1>3
  <2> DEFINE a == AboutCap * StrWidth(t)
             b == Len(t) * (MaxWidth + 1)
             d == AboutCap * Width[c]
  <2>7. a \in Int /\ b \in Int /\ d \in Int
    BY <1>1, <2>1, <2>2, <2>3
  <2>8. AboutCap * StrWidth(Append(t, c)) = a + d
    BY <2>2, <2>4
  <2>9. Len(Append(t, c)) * (MaxWidth + 1) = b + (MaxWidth + 1)
    BY <2>1, <2>5
  <2>10. a >= b /\ MaxWidth + 1 <= d
    BY <2>3, <2>6
  <2> HIDE DEF a, b, d
  <2>11. a + d >= b + (MaxWidth + 1)
    BY <1>1, <2>7, <2>10
  <2> QED  BY <2>1, <2>8, <2>9, <2>11
<1> HIDE DEF T
<1>4. Text \subseteq T
  BY <1>2, <1>3, SequenceInduction DEF Text
<1> QED  BY <1>4 DEF T

\* So a line that fits is shorter than its buffer.
LEMMA FittingIsShort ==
  ASSUME NEW s \in Text, StrWidth(s) <= MaxWidth
  PROVE  Len(s) < AboutCap
<1> DEFINE w == StrWidth(s)
           n == Len(s)
<1>1. AboutCap \in Nat \ {0} /\ MaxWidth \in Nat /\ w \in Nat /\ n \in Nat /\ w <= MaxWidth
  BY WrapAssumption, WidthIs, LenProperties DEF Text
<1>2. AboutCap * w >= n * (MaxWidth + 1)
  BY FullIsWide
<1> HIDE DEF w, n
<1>3. AboutCap * w <= AboutCap * MaxWidth
  BY <1>1
<1>4. AboutCap * MaxWidth < AboutCap * (MaxWidth + 1)
  BY <1>1
<1>5. ASSUME n >= AboutCap PROVE n * (MaxWidth + 1) >= AboutCap * (MaxWidth + 1)
  BY <1>1, <1>5
<1>6. AboutCap * w \in Int /\ n * (MaxWidth + 1) \in Int /\ AboutCap * MaxWidth \in Int
      /\ AboutCap * (MaxWidth + 1) \in Int
  BY <1>1
<1>7. ~(n >= AboutCap)
  BY <1>2, <1>3, <1>4, <1>5, <1>6
<1> QED  BY <1>1, <1>7 DEF n

\* Spaces are as wide as there are of them.
LEMMA WidthOfSpaces ==
  ASSUME NEW s \in Text, \A k \in 1..Len(s) : s[k] = Space
  PROVE  StrWidth(s) = Len(s) * Width[Space]
<1> DEFINE T == {t \in Text : (\A k \in 1..Len(t) : t[k] = Space)
                                => StrWidth(t) = Len(t) * Width[Space]}
<1>0. Width[Space] \in Nat
  BY WrapAssumption DEF Chars
<1>1. <<>> \in T
  BY <1>0, WidthIs, EmptySeq DEF Text
<1>2. ASSUME NEW t \in Text, NEW c \in Chars, t \in T,
             \A k \in 1..Len(Append(t, c)) : Append(t, c)[k] = Space
      PROVE  StrWidth(Append(t, c)) = Len(Append(t, c)) * Width[Space]
  <2>1. /\ Append(t, c) \in Text /\ Len(Append(t, c)) = Len(t) + 1 /\ Len(t) \in Nat
        /\ \A k \in 1..Len(t) : Append(t, c)[k] = t[k]
        /\ Append(t, c)[Len(t) + 1] = c
    BY AppendIs DEF Text
  <2>2. c = Space /\ \A k \in 1..Len(t) : t[k] = Space
    BY <1>2, <2>1
  <2>3. StrWidth(t) = Len(t) * Width[Space]
    BY <1>2, <2>2
  <2>4. StrWidth(Append(t, c)) = (Len(t) * Width[Space]) + Width[Space]
    BY <2>2, <2>3, WidthIs
  <2> QED  BY <1>0, <2>1, <2>4
<1>3. ASSUME NEW t \in Text, NEW c \in Chars, t \in T PROVE Append(t, c) \in T
  <2>1. Append(t, c) \in Text
    BY AppendIs DEF Text
  <2> QED  BY <1>2, <1>3, <2>1
<1> HIDE DEF T
<1>4. Text \subseteq T
  BY <1>1, <1>3, SequenceInduction DEF Text
<1> QED  BY <1>4 DEF T

(***************************************************************************)
(* Lines put after each other.                                             *)
(***************************************************************************)

\* The texts that FlattenSeq makes of the first lines.
LEMMA FlattenLoop ==
  ASSUME NEW ls \in Page
  PROVE  \E w : /\ w \in [0..Len(ls) -> Text] /\ w[0] = <<>>
                /\ \A k \in 1..Len(ls) : w[k] = w[k - 1] \o ls[k]
                /\ FlattenSeq(ls) = w[Len(ls)]
<1> DEFINE n == Len(ls)
           step == [q \in Text \X (1..n) |-> q[1] \o ls[q[2]]]
           Loop(f) == f = [k \in 1..n |-> IF k = 1 THEN ls[k] ELSE f[k - 1] \o ls[k]]
           g == CHOOSE f : Loop(f)
<1>1. n \in Nat /\ (\A k \in 1..n : ls[k] \in Text) /\ <<>> \in Text
  BY LenProperties, ElementOfSeq, EmptySeq DEF Page, Text
<1>2. step \in [Text \X (1..n) -> Text]
  <2>1. \A t \in Text, k \in 1..n : t \o ls[k] \in Text
    BY <1>1, ConcatProperties DEF Text
  <2> QED  BY <2>1
<1>3. \A t \in Text, k \in 1..n : step[<<t, k>>] = t \o ls[k]
  OBVIOUS
<1>4. n # 0 => FlattenSeq(ls) = g[n]
  BY DEF FlattenSeq
<1>5. n = 0 => FlattenSeq(ls) = <<>>
  BY EmptySeq DEF FlattenSeq, Page
<1> HIDE DEF step, n
<1>6. PICK h : Recursive(h, Text, <<>>, n, step)
  BY <1>1, <1>2, RecursionExists
<1>7. /\ h \in [0..n -> Text]
      /\ h = [k \in 0..n |-> IF k = 0 THEN <<>> ELSE step[<<h[k - 1], k>>]]
  BY <1>6 DEF Recursive
<1>8. h[0] = <<>>
  BY <1>1, <1>7
<1>9. ASSUME NEW k \in 1..n PROVE h[k] = h[k - 1] \o ls[k] /\ h[k - 1] \in Text
  <2>1. k \in 0..n /\ k # 0 /\ k - 1 \in 0..n
    BY <1>1
  <2> QED  BY <1>3, <1>7, <2>1
<1>10. Loop([k \in 1..n |-> h[k]])
  <2> DEFINE f == [k \in 1..n |-> h[k]]
  <2>1. ASSUME NEW k \in 1..n, k = 1 PROVE h[k] = ls[k]
    <3>1. h[1] = h[0] \o ls[1] /\ ls[1] \in Text
      <4>1. 1 \in 1..n /\ 1 - 1 = 0
        BY <1>1, <2>1
      <4>2. h[1] = h[1 - 1] \o ls[1]
        BY <1>9, <4>1
      <4> QED  BY <1>1, <4>1, <4>2
    <3> QED  BY <1>8, <2>1, <3>1, ConcatEmptySeq DEF Text
  <2>2. ASSUME NEW k \in 1..n, k # 1 PROVE h[k] = f[k - 1] \o ls[k]
    <3>1. k - 1 \in 1..n
      BY <1>1, <2>2
    <3> QED  BY <1>9, <3>1
  <2>3. \A k \in 1..n : f[k] = IF k = 1 THEN ls[k] ELSE f[k - 1] \o ls[k]
    BY <2>1, <2>2
  <2> QED  BY <2>3
<1>11. Loop(g)
  BY <1>10
<1> HIDE DEF g
<1> DEFINE v == [k \in 0..n |-> IF k = 0 THEN <<>> ELSE g[k]]
<1>12. ASSUME NEW k \in 1..n, h[k - 1] = v[k - 1] PROVE h[k] = v[k]
  <2>1. v[k] = g[k] /\ g[k] = IF k = 1 THEN ls[k] ELSE g[k - 1] \o ls[k]
    <3>1. k \in 0..n /\ k # 0
      BY <1>1
    <3>2. v[k] = g[k]
      BY <3>1
    <3>3. g[k] = IF k = 1 THEN ls[k] ELSE g[k - 1] \o ls[k]
      BY <1>11
    <3> QED  BY <3>2, <3>3
  <2>2. CASE k = 1
    <3>1. h[1] = h[0] \o ls[1] /\ ls[1] \in Text
      <4>1. 1 \in 1..n /\ 1 - 1 = 0
        BY <1>1, <2>2
      <4>2. h[1] = h[1 - 1] \o ls[1]
        BY <1>9, <4>1
      <4> QED  BY <1>1, <4>1, <4>2
    <3>2. h[1] = ls[1]
      BY <1>8, <3>1, ConcatEmptySeq DEF Text
    <3> QED  BY <2>1, <2>2, <3>2
  <2>3. CASE k # 1
    <3>1. k - 1 \in 0..n /\ k - 1 # 0
      BY <1>1, <2>3
    <3>2. v[k - 1] = g[k - 1]
      BY <3>1
    <3> QED  BY <1>9, <1>12, <2>1, <2>3, <3>2
  <2> QED  BY <2>2, <2>3
<1>13. h[0] = v[0]
  BY <1>1, <1>8
<1> HIDE DEF v
<1>14. Alike(h, v, n)
  BY <1>1, <1>12, <1>13, StepsAgree
<1>15. FlattenSeq(ls) = h[n]
  <2>1. h[n] = v[n]
    BY <1>1, <1>14 DEF Alike
  <2>2. CASE n = 0
    BY <1>5, <1>8, <2>2
  <2>3. CASE n # 0
    <3>1. v[n] = g[n]
      BY <1>1, <2>3 DEF v
    <3> QED  BY <1>4, <2>1, <2>3, <3>1
  <2> QED  BY <2>2, <2>3
<1> QED  BY <1>7, <1>8, <1>9, <1>15 DEF n

\* One line more is put after the others.
LEMMA FlattenIs ==
  /\ FlattenSeq(<<>>) = <<>>
  /\ \A ls \in Page : \A l \in Text :
       /\ FlattenSeq(ls) \in Text
       /\ FlattenSeq(Append(ls, l)) = FlattenSeq(ls) \o l
<1>1. FlattenSeq(<<>>) = <<>>
  <2>1. <<>> \in Page /\ Len(<<>>) = 0
    BY EmptySeq DEF Page
  <2> QED  BY <2>1, FlattenLoop
<1>2. ASSUME NEW ls \in Page, NEW l \in Text
      PROVE  FlattenSeq(ls) \in Text /\ FlattenSeq(Append(ls, l)) = FlattenSeq(ls) \o l
  <2> DEFINE t == Append(ls, l)
             n == Len(ls)
  <2>1. /\ t \in Page /\ Len(t) = n + 1 /\ n \in Nat
        /\ \A k \in 1..n : t[k] = ls[k]
        /\ t[n + 1] = l
    BY AppendIs DEF Page
  <2> HIDE DEF t
  <2>2. PICK w : /\ w \in [0..n -> Text] /\ w[0] = <<>>
                 /\ \A k \in 1..n : w[k] = w[k - 1] \o ls[k]
                 /\ FlattenSeq(ls) = w[n]
    BY FlattenLoop
  <2>3. PICK v : /\ v \in [0..n + 1 -> Text] /\ v[0] = <<>>
                 /\ \A k \in 1..n + 1 : v[k] = v[k - 1] \o t[k]
                 /\ FlattenSeq(t) = v[n + 1]
    BY <2>1, FlattenLoop
  <2> HIDE DEF n
  <2>4. Alike(w, v, n)
    <3>1. \A k \in 1..n : k \in 1..n + 1 /\ t[k] = ls[k]
      BY <2>1
    <3>2. \A k \in 1..n : w[k - 1] = v[k - 1] => w[k] = v[k]
      BY <2>2, <2>3, <3>1
    <3> QED  BY <2>1, <2>2, <2>3, <3>2, StepsAgree
  <2>5. n + 1 \in 1..n + 1 /\ n \in 0..n /\ (n + 1) - 1 = n
    BY <2>1
  <2>6. v[n + 1] = v[n] \o l
    BY <2>1, <2>3, <2>5
  <2> QED  BY <2>2, <2>3, <2>4, <2>5, <2>6 DEF t, Alike
<1> QED  BY <1>1, <1>2

(***************************************************************************)
(* Runs of characters.                                                     *)
(***************************************************************************)

\* RunOf stops at the first character that is not among chars.
LEMMA RunIs ==
  ASSUME NEW s \in Text, NEW p \in 1..Len(s) + 1, NEW chars
  PROVE  /\ RunOf(s, p, chars) \in Nat /\ p + RunOf(s, p, chars) <= Len(s) + 1
         /\ \A k \in p..p + RunOf(s, p, chars) - 1 : s[k] \in chars
         /\ \/ p + RunOf(s, p, chars) = Len(s) + 1
            \/ s[p + RunOf(s, p, chars)] \notin chars
<1> DEFINE n == Len(s)
           T == {q \in p..n + 1 : q = n + 1 \/ s[q] \notin chars}
           Ok(q) == /\ \A k \in p..q - 1 : s[k] \in chars
                    /\ q = n + 1 \/ s[q] \notin chars
           r == CHOOSE q \in p..n + 1 : Ok(q)
<1>1. n \in Nat /\ p \in Nat /\ p >= 1
  BY LenProperties DEF Text
<1>2. n + 1 \in T /\ T \subseteq Nat
  BY <1>1
<1>3. PICK q \in T : \A m \in T : q <= m
  <2> HIDE DEF T
  <2>1. T # {}
    BY <1>2
  <2> QED  BY <1>2, <2>1, NatLeast
<1>4. q \in p..n + 1 /\ Ok(q)
  <2>1. ASSUME NEW k \in p..q - 1, s[k] \notin chars PROVE FALSE
    <3>1. k \in T
      BY <1>1, <1>3, <2>1
    <3> QED  BY <1>1, <1>3, <2>1, <3>1
  <2> QED  BY <1>3, <2>1
<1>5. r \in p..n + 1 /\ Ok(r)
  BY <1>4
<1>6. RunOf(s, p, chars) = r - p
  BY DEF RunOf
<1> HIDE DEF r
<1>7. r - p \in Nat /\ p + (r - p) = r
  BY <1>1, <1>5
<1> QED  BY <1>1, <1>5, <1>6, <1>7

(***************************************************************************)
(* ui_wrap_hard.                                                           *)
(***************************************************************************)

\* The first line takes what fits: one character more would be too much.
LEMMA FirstFitsIs ==
  ASSUME NEW s \in Text, s # <<>>, NEW cap \in Nat \ {0}
  PROVE  /\ FirstFits(s, cap) \in 1..Len(s) /\ FirstFits(s, cap) <= cap
         /\ \/ FirstFits(s, cap) = 1
            \/ StrWidth(SubSeq(s, 1, FirstFits(s, cap))) <= MaxWidth
         /\ \/ FirstFits(s, cap) = Len(s) \/ FirstFits(s, cap) = cap
            \/ StrWidth(SubSeq(s, 1, FirstFits(s, cap) + 1)) > MaxWidth
<1> DEFINE n == Len(s)
           w(j) == StrWidth(SubSeq(s, 1, j))
           T == {j \in 1..n : j = n \/ j = cap \/ w(j + 1) > MaxWidth}
           Ok(j) == /\ j = 1 \/ (j <= cap /\ w(j) <= MaxWidth)
                    /\ j = n \/ j = cap \/ w(j + 1) > MaxWidth
           f == CHOOSE j \in 1..n : Ok(j)
<1>1. n \in Nat \ {0} /\ MaxWidth \in Nat
  BY EmptySeq, WrapAssumption DEF Text
<1>2. \A j \in 0..n : w(j) \in Nat
  <2>1. \A j \in 0..n : SubSeq(s, 1, j) \in Text
    BY CutInTwo DEF Text
  <2> QED  BY <2>1, WidthIs, AppendIs, WrapAssumption DEF Chars
<1> HIDE DEF w
<1>3. n \in T /\ T \subseteq Nat
  BY <1>1
<1>4. PICK j \in T : \A m \in T : j <= m
  <2> HIDE DEF T
  <2>1. T # {}
    BY <1>3
  <2> QED  BY <1>3, <2>1, NatLeast
<1>5. j <= cap
  <2>1. ASSUME j > cap PROVE FALSE
    <3>1. cap \in T
      BY <1>1, <1>4, <2>1
    <3> QED  BY <1>1, <1>4, <2>1, <3>1
  <2> QED  BY <1>1, <1>4, <2>1
<1>6. ASSUME j # 1 PROVE w(j) <= MaxWidth
  <2>1. j - 1 \in 1..n /\ j - 1 < j /\ (j - 1) + 1 = j /\ j \in 0..n
    BY <1>1, <1>4, <1>6
  <2>2. ASSUME j - 1 \in T PROVE FALSE
    <3>1. j <= j - 1
      BY <1>4, <2>2
    <3> QED  BY <2>1, <3>1
  <2>3. ~(w(j) > MaxWidth)
    BY <2>1, <2>2
  <2> QED  BY <1>1, <1>2, <2>1, <2>3
<1>7. j \in 1..n /\ Ok(j)
  BY <1>4, <1>5, <1>6
<1>8. f \in 1..n /\ Ok(f)
  BY <1>7
<1>9. FirstFits(s, cap) = f
  BY DEF FirstFits, w
<1> HIDE DEF f
<1>10. f <= cap
  BY <1>1, <1>8
<1> QED  BY <1>8, <1>9, <1>10 DEF w

HardState == [rest: Text, lines: Page]

\* A round of the loop that makes a line l and leaves r.
Cuts(w, v, l, r, cap, max) ==
  /\ Len(w.lines) < max /\ w.rest = l \o r
  /\ v.rest = r /\ v.lines = Append(w.lines, l)
  /\ Len(l) \in 1..cap
  /\ Len(l) = 1 \/ StrWidth(l) <= MaxWidth
  /\ r # <<>> => Len(l) = cap \/ StrWidth(Append(l, r[1])) > MaxWidth

\* A round either finds the loop at its end or makes a line.
LEMMA HardLineIs ==
  ASSUME NEW w \in HardState, NEW cap \in Nat \ {0}, NEW max \in Nat
  PROVE  /\ HardLine(w, cap, max) \in HardState
         /\ \/ HardLine(w, cap, max) = w /\ (w.rest = <<>> \/ Len(w.lines) >= max)
            \/ \E l, r \in Text : Cuts(w, HardLine(w, cap, max), l, r, cap, max)
<1>1. w.rest \in Text /\ w.lines \in Page /\ Len(w.lines) \in Nat
  BY LenProperties DEF HardState, Page
<1>2. CASE w.rest = <<>> \/ Len(w.lines) >= max
  BY <1>2 DEF HardLine
<1>3. CASE ~(w.rest = <<>> \/ Len(w.lines) >= max)
  <2> DEFINE s == w.rest
             n == Len(s)
             j == FirstFits(s, cap)
             l == SubSeq(s, 1, j)
             r == SubSeq(s, j + 1, n)
  <2>1. HardLine(w, cap, max) = [rest |-> r, lines |-> Append(w.lines, l)]
    BY <1>3 DEF HardLine, Rest
  <2>2. /\ j \in 1..n /\ j <= cap
        /\ j = 1 \/ StrWidth(l) <= MaxWidth
        /\ j = n \/ j = cap \/ StrWidth(SubSeq(s, 1, j + 1)) > MaxWidth
    BY <1>1, <1>3, FirstFitsIs
  <2>3. n \in Nat
    BY <1>1, LenProperties DEF Text
  <2> HIDE DEF j
  <2>4. /\ l \in Text /\ Len(l) = j /\ r \in Text /\ Len(r) = n - j /\ l \o r = s
        /\ \A k \in 1..n - j : r[k] = s[j + k]
    <3>1. j \in 0..n /\ s \in Seq(Chars)
      BY <1>1, <2>2, <2>3 DEF Text
    <3> HIDE DEF s
    <3>2. /\ l \in Seq(Chars) /\ Len(l) = j /\ r \in Seq(Chars) /\ Len(r) = n - j /\ l \o r = s
          /\ \A k \in 1..n - j : r[k] = s[j + k]
      BY <3>1, CutInTwo
    <3> QED  BY <3>2 DEF Text
  <2>5. ASSUME r # <<>> PROVE j # n /\ SubSeq(s, 1, j + 1) = Append(l, r[1])
    <3>1. n - j # 0
      BY <2>4, <2>5, EmptySeq DEF Text
    <3>2. 1 \in 1..n - j /\ j + 1 \in 1..n /\ (j + 1) - 1 = j /\ j # n
      BY <2>2, <2>3, <3>1
    <3>3. 1 \in 1..n /\ j + 1 \in 1..n
      BY <2>2, <2>3, <3>2
    <3>4. SubSeq(s, 1, j + 1) = SubSeq(s, 1, (j + 1) - 1) \o <<s[j + 1]>>
      BY <1>1, <3>3, SubSeqRecursiveSecond DEF Text
    <3>5. s[j + 1] = r[1] /\ s[j + 1] \in Chars
      BY <1>1, <2>4, <3>2, ElementOfSeq DEF Text
    <3>6. Append(l, r[1]) = l \o <<r[1]>>
      BY <2>4, <3>5, AppendIsConcat DEF Text
    <3> QED  BY <3>2, <3>4, <3>5, <3>6
  <2>6. Len(l) \in 1..cap
    BY <2>2, <2>3, <2>4
  <2> HIDE DEF l, r, s, n
  <2>7. Append(w.lines, l) \in Page
    BY <1>1, <2>4, AppendIs DEF Page
  <2> DEFINE v == HardLine(w, cap, max)
  <2>8. v.rest = r /\ v.lines = Append(w.lines, l) /\ v \in HardState
    BY <2>1, <2>4, <2>7 DEF HardState
  <2>9. Len(w.lines) < max
    BY <1>1, <1>3
  <2>10. r # <<>> => Len(l) = cap \/ StrWidth(Append(l, r[1])) > MaxWidth
    BY <2>2, <2>4, <2>5
  <2> HIDE DEF v
  <2>11. Cuts(w, v, l, r, cap, max)
    BY <2>2, <2>4, <2>6, <2>8, <2>9, <2>10 DEF Cuts, s
  <2> QED  BY <2>4, <2>8, <2>11 DEF v
<1> QED  BY <1>2, <1>3

\* The states w of the loop.
HardRun(w, s, ls, cap, max) ==
  /\ w \in [0..Len(s) -> HardState] /\ w[0] = [rest |-> s, lines |-> ls]
  /\ \A k \in 1..Len(s) : w[k] = HardLine(w[k - 1], cap, max)
  /\ HardFrom(s, ls, cap, max) = w[Len(s)].lines

\* The loop has such states.
LEMMA HardLoop ==
  ASSUME NEW s \in Text, NEW ls \in Page, NEW cap \in Nat \ {0}, NEW max \in Nat
  PROVE  \E w : HardRun(w, s, ls, cap, max)
<1> DEFINE n == Len(s)
           base == [rest |-> s, lines |-> ls]
           step == [q \in HardState \X (1..n) |-> HardLine(q[1], cap, max)]
           Loop(f) == f = [k \in 0..n |-> IF k = 0 THEN base ELSE HardLine(f[k - 1], cap, max)]
           g == CHOOSE f : Loop(f)
<1>1. n \in Nat /\ base \in HardState
  BY LenProperties DEF Text, HardState
<1>2. step \in [HardState \X (1..n) -> HardState]
  BY HardLineIs
<1>3. \A v \in HardState, k \in 1..n : step[<<v, k>>] = HardLine(v, cap, max)
  OBVIOUS
<1>4. HardFrom(s, ls, cap, max) = g[n].lines
  BY DEF HardFrom
<1> HIDE DEF step, n
<1>5. PICK f : Recursive(f, HardState, base, n, step)
  <2> HIDE DEF base
  <2> QED  BY <1>1, <1>2, RecursionExists
<1>6. /\ f \in [0..n -> HardState]
      /\ f = [k \in 0..n |-> IF k = 0 THEN base ELSE step[<<f[k - 1], k>>]]
  BY <1>5 DEF Recursive
<1> HIDE DEF base
<1>7. ASSUME NEW k \in 0..n, k # 0
      PROVE  /\ k \in 1..n /\ f[k - 1] \in HardState
             /\ step[<<f[k - 1], k>>] = HardLine(f[k - 1], cap, max)
  <2>1. k \in 1..n /\ k - 1 \in 0..n
    BY <1>1, <1>7
  <2> QED  BY <1>3, <1>6, <2>1
<1>8. Loop(f)
  BY <1>6, <1>7
<1>9. Loop(g)
  BY <1>8
<1> HIDE DEF g
<1>10. f[0] = g[0] /\ f[0] = base
  BY <1>1, <1>8, <1>9
<1>11. ASSUME NEW k \in 1..n
       PROVE  f[k] = HardLine(f[k - 1], cap, max) /\ g[k] = HardLine(g[k - 1], cap, max)
  <2>1. k \in 0..n /\ k # 0
    BY <1>1
  <2> QED  BY <1>8, <1>9, <2>1
<1>12. Alike(f, g, n)
  BY <1>1, <1>10, <1>11, StepsAgree
<1>13. f[n] = g[n]
  BY <1>1, <1>12 DEF Alike
<1> QED  BY <1>4, <1>6, <1>10, <1>11, <1>13 DEF n, base, HardRun

\* A property of the loop's states that each round keeps holds of the last.
LEMMA HardRounds ==
  ASSUME NEW n \in Nat, NEW w, NEW T, w[0] \in T,
         \A k \in 0..n - 1 : w[k] \in T => w[k + 1] \in T
  PROVE  w[n] \in T
<1> DEFINE U == {k \in 0..n : w[k] \in T}
<1>1. 0 \in U
  OBVIOUS
<1>2. ASSUME NEW k \in 0..n - 1, k \in U PROVE k + 1 \in U
  BY <1>2
<1> HIDE DEF U
<1>3. 0..n \subseteq U
  BY <1>1, <1>2, InductionUpTo
<1> QED  BY <1>3 DEF U

\* No line is longer than its buffer.
Short(ls, cap) == \A k \in 1..Len(ls) : Len(ls[k]) <= cap

\* The lines stay in their array, and each in its buffer.
LEMMA HardStaysInside ==
  ASSUME NEW s \in Text, NEW ls \in Page, NEW cap \in Nat \ {0}, NEW max \in Nat,
         Len(ls) <= max, Short(ls, cap)
  PROVE  /\ HardFrom(s, ls, cap, max) \in Page
         /\ Len(HardFrom(s, ls, cap, max)) <= max /\ Short(HardFrom(s, ls, cap, max), cap)
<1> DEFINE n == Len(s)
           T == {v \in HardState : Len(v.lines) <= max /\ Short(v.lines, cap)}
<1>1. n \in Nat
  BY LenProperties DEF Text
<1>0. PICK w : HardRun(w, s, ls, cap, max)
  BY HardLoop
<1>2. /\ w \in [0..n -> HardState] /\ w[0] = [rest |-> s, lines |-> ls]
      /\ \A k \in 1..n : w[k] = HardLine(w[k - 1], cap, max)
      /\ HardFrom(s, ls, cap, max) = w[n].lines
  BY <1>0 DEF HardRun
<1> HIDE DEF n
<1>3. w[0] \in T
  BY <1>1, <1>2
<1>4. ASSUME NEW k \in 0..n - 1, w[k] \in T PROVE w[k + 1] \in T
  <2>1. /\ k + 1 \in 1..n /\ (k + 1) - 1 = k /\ k \in 0..n
    BY <1>1
  <2>2. w[k + 1] = HardLine(w[k], cap, max)
    BY <1>2, <2>1
  <2> DEFINE u == w[k]
             v == w[k + 1]
  <2>3. u \in HardState /\ Len(u.lines) <= max /\ Short(u.lines, cap)
    BY <1>4
  <2>4. v = HardLine(u, cap, max)
    BY <2>2
  <2> HIDE DEF u, v
  <2>5. v \in HardState /\ (v = u \/ \E l, r \in Text : Cuts(u, v, l, r, cap, max))
    BY <2>3, <2>4, HardLineIs
  <2>6. CASE v = u
    BY <2>3, <2>6 DEF u, v
  <2>7. CASE \E l, r \in Text : Cuts(u, v, l, r, cap, max)
    <3>1. PICK l \in Text, r \in Text : Cuts(u, v, l, r, cap, max)
      BY <2>7
    <3>2. u.lines \in Page
      BY <2>3 DEF HardState
    <3>3. /\ Len(u.lines) < max /\ v.lines = Append(u.lines, l) /\ Len(l) <= cap
      BY <3>1 DEF Cuts
    <3>4. /\ Len(v.lines) = Len(u.lines) + 1 /\ Len(u.lines) \in Nat
          /\ \A i \in 1..Len(u.lines) : v.lines[i] = u.lines[i]
          /\ v.lines[Len(u.lines) + 1] = l
      BY <3>2, <3>3, AppendIs DEF Page
    <3>5. Len(v.lines) <= max /\ Short(v.lines, cap)
      BY <2>3, <3>3, <3>4 DEF Short
    <3> QED  BY <2>5, <3>5 DEF v
  <2> QED  BY <2>5, <2>6, <2>7
<1> HIDE DEF T
<1>5. w[n] \in T
  BY <1>1, <1>3, <1>4, HardRounds
<1> QED  BY <1>2, <1>5 DEF T, HardState

\* Every line but the last could not have taken the next character, and the last not the
\* first of what is left.
Packed(ls, rest, s, cap) ==
  /\ FlattenSeq(ls) \o rest = s
  /\ \A k \in 1..Len(ls) : /\ Len(ls[k]) \in 1..cap
                           /\ Len(ls[k]) = 1 \/ StrWidth(ls[k]) <= MaxWidth
  /\ \A k \in 1..Len(ls) - 1 : \/ Len(ls[k]) = cap
                               \/ StrWidth(Append(ls[k], ls[k + 1][1])) > MaxWidth
  /\ ls # <<>> /\ rest # <<>> =>
       \/ Len(ls[Len(ls)]) = cap
       \/ StrWidth(Append(ls[Len(ls)], rest[1])) > MaxWidth

\* A line more leaves the lines packed.
LEMMA CutsPack ==
  ASSUME NEW s \in Text, NEW u \in HardState, NEW v \in HardState, NEW cap \in Nat \ {0},
         NEW max \in Nat, NEW l \in Text, NEW r \in Text,
         Packed(u.lines, u.rest, s, cap), Cuts(u, v, l, r, cap, max)
  PROVE  Packed(v.lines, v.rest, s, cap) /\ Len(v.lines) <= max /\ Len(r) < Len(u.rest)
<1> DEFINE ls == u.lines
           m == Len(ls)
           t == v.lines
<1>1. ls \in Page /\ m \in Nat /\ u.rest \in Text /\ Len(l) \in Nat /\ Len(r) \in Nat
  BY LenProperties DEF HardState, Page, Text
<1>2. /\ m < max /\ u.rest = l \o r /\ v.rest = r /\ t = Append(ls, l) /\ Len(l) \in 1..cap
      /\ Len(l) = 1 \/ StrWidth(l) <= MaxWidth
      /\ r # <<>> => Len(l) = cap \/ StrWidth(Append(l, r[1])) > MaxWidth
  BY DEF Cuts
<1>3. /\ FlattenSeq(ls) \o u.rest = s
      /\ \A k \in 1..m : /\ Len(ls[k]) \in 1..cap
                         /\ Len(ls[k]) = 1 \/ StrWidth(ls[k]) <= MaxWidth
      /\ \A k \in 1..m - 1 : \/ Len(ls[k]) = cap
                             \/ StrWidth(Append(ls[k], ls[k + 1][1])) > MaxWidth
      /\ ls # <<>> /\ u.rest # <<>> =>
           Len(ls[m]) = cap \/ StrWidth(Append(ls[m], u.rest[1])) > MaxWidth
  BY DEF Packed
<1>4. /\ Len(t) = m + 1 /\ (\A k \in 1..m : t[k] = ls[k]) /\ t[m + 1] = l
  BY <1>1, <1>2, AppendIs DEF Page
<1>5. Len(u.rest) = Len(l) + Len(r) /\ u.rest[1] = l[1] /\ u.rest # <<>>
  <2>1. /\ Len(u.rest) = Len(l) + Len(r)
        /\ \A i \in 1..Len(l) + Len(r) :
             u.rest[i] = IF i <= Len(l) THEN l[i] ELSE r[i - Len(l)]
    BY <1>2, ConcatProperties DEF Text
  <2>2. 1 \in 1..Len(l) + Len(r) /\ 1 <= Len(l) /\ Len(u.rest) # 0
    BY <1>1, <1>2, <2>1
  <2>3. u.rest # <<>>
    BY <2>2, EmptySeq
  <2> QED  BY <2>1, <2>2, <2>3
<1>6. FlattenSeq(t) \o r = s
  <2>1. FlattenSeq(ls) \in Text /\ FlattenSeq(t) = FlattenSeq(ls) \o l
    BY <1>1, <1>2, FlattenIs
  <2>2. (FlattenSeq(ls) \o l) \o r = FlattenSeq(ls) \o (l \o r)
    BY <2>1, TextAssociates, Zenon
  <2>3. FlattenSeq(t) \o r = FlattenSeq(ls) \o u.rest
    BY <1>2, <2>1, <2>2, Zenon
  <2> QED  BY <1>3, <2>3, Zenon
<1> HIDE DEF t, m, ls
<1>7. ASSUME NEW k \in 1..m + 1
      PROVE  Len(t[k]) \in 1..cap /\ (Len(t[k]) = 1 \/ StrWidth(t[k]) <= MaxWidth)
  <2>1. CASE k = m + 1
    BY <1>2, <1>4, <2>1
  <2>2. CASE k # m + 1
    <3>1. k \in 1..m
      BY <1>1, <2>2
    <3> QED  BY <1>3, <1>4, <3>1
  <2> QED  BY <2>1, <2>2
<1>8. ASSUME NEW k \in 1..m
      PROVE  Len(t[k]) = cap \/ StrWidth(Append(t[k], t[k + 1][1])) > MaxWidth
  <2>1. CASE k = m
    <3>1. ls # <<>> /\ t[k] = ls[m] /\ t[k + 1] = l
      BY <1>1, <1>4, <2>1, EmptySeq DEF m
    <3> QED  BY <1>3, <1>5, <2>1, <3>1
  <2>2. CASE k # m
    <3>1. k \in 1..m - 1 /\ k + 1 \in 1..m
      BY <1>1, <2>2
    <3> QED  BY <1>3, <1>4, <3>1
  <2> QED  BY <2>1, <2>2
<1>9. Packed(t, r, s, cap)
  <2>1. (m + 1) - 1 = m
    BY <1>1
  <2>2. r # <<>> => Len(t[Len(t)]) = cap \/ StrWidth(Append(t[Len(t)], r[1])) > MaxWidth
    BY <1>2, <1>4
  <2> QED  BY <1>4, <1>6, <1>7, <1>8, <2>1, <2>2 DEF Packed
<1>10. Len(t) <= max /\ Len(r) < Len(u.rest)
  <2>1. Len(t) = m + 1 /\ m < max /\ m \in Nat
    BY <1>1, <1>2, <1>4
  <2>2. Len(u.rest) = Len(l) + Len(r) /\ Len(l) >= 1
    BY <1>2, <1>5
  <2> QED  BY <1>1, <2>1, <2>2
<1> QED  BY <1>2, <1>9, <1>10 DEF t

\* Whatever the text, ui_wrap_hard packs it; what it leaves off is what follows when all
\* lines are used.
LEMMA HardPacks ==
  ASSUME NEW s \in Text
  PROVE  \E rest \in Text :
           /\ ui_wrap_hard(s) \in Page /\ Len(ui_wrap_hard(s)) <= HardLines
           /\ Packed(ui_wrap_hard(s), rest, s, HardCap)
           /\ rest = <<>> \/ Len(ui_wrap_hard(s)) = HardLines
<1> DEFINE n == Len(s)
           Done(v) == v.rest = <<>> \/ Len(v.lines) >= HardLines
           T == {q \in (0..n) \X HardState :
                   /\ Packed(q[2].lines, q[2].rest, s, HardCap) /\ Len(q[2].lines) <= HardLines
                   /\ Done(q[2]) \/ Len(q[2].rest) + q[1] <= n}
<1>1. n \in Nat /\ HardCap \in Nat \ {0} /\ HardLines \in Nat \ {0}
  BY LenProperties, WrapAssumption DEF Text
<1>2. <<>> \in Page /\ Len(<<>>) = 0
  BY EmptySeq DEF Page
<1>0. PICK w : HardRun(w, s, <<>>, HardCap, HardLines)
  BY <1>1, <1>2, HardLoop
<1>3. /\ w \in [0..n -> HardState] /\ w[0] = [rest |-> s, lines |-> <<>>]
      /\ \A k \in 1..n : w[k] = HardLine(w[k - 1], HardCap, HardLines)
      /\ HardFrom(s, <<>>, HardCap, HardLines) = w[n].lines
  BY <1>0 DEF HardRun
<1>4. Packed(<<>>, s, s, HardCap)
  <2>1. FlattenSeq(<<>>) \o s = s
    BY FlattenIs, ConcatEmptySeq DEF Text
  <2> QED  BY <1>2, <2>1 DEF Packed
<1> DEFINE x == [k \in 0..n |-> <<k, w[k]>>]
<1>5. x[0] \in T
  <2>1. w[0].rest = s /\ w[0].lines = <<>> /\ w[0] \in HardState /\ 0 \in 0..n
    BY <1>1, <1>3
  <2>2. Len(s) + 0 <= n
    BY <1>1
  <2> QED  BY <1>1, <1>2, <1>4, <2>1, <2>2
<1>6. ASSUME NEW k \in 0..n - 1, x[k] \in T PROVE x[k + 1] \in T
  <2> DEFINE u == w[k]
             v == w[k + 1]
  <2>1. k + 1 \in 1..n /\ k + 1 \in 0..n /\ (k + 1) - 1 = k /\ k \in 0..n
    BY <1>1
  <2>2. v = HardLine(u, HardCap, HardLines) /\ u \in HardState /\ v \in HardState
    BY <1>3, <2>1
  <2>3. /\ Packed(u.lines, u.rest, s, HardCap) /\ Len(u.lines) <= HardLines
        /\ Done(u) \/ Len(u.rest) + k <= n
    BY <1>6, <2>1
  <2> HIDE DEF u, v
  <2>4. \/ v = u /\ Done(u)
        \/ \E l, r \in Text : Cuts(u, v, l, r, HardCap, HardLines)
    BY <1>1, <2>2, HardLineIs
  <2>5. /\ Packed(v.lines, v.rest, s, HardCap) /\ Len(v.lines) <= HardLines
        /\ Done(v) \/ Len(v.rest) + (k + 1) <= n
    <3>1. CASE v = u /\ Done(u)
      BY <2>3, <3>1
    <3>2. CASE \E l, r \in Text : Cuts(u, v, l, r, HardCap, HardLines)
      <4>1. PICK l \in Text, r \in Text : Cuts(u, v, l, r, HardCap, HardLines)
        BY <3>2
      <4>2. Packed(v.lines, v.rest, s, HardCap) /\ Len(v.lines) <= HardLines
            /\ Len(r) < Len(u.rest)
        BY <1>1, <2>2, <2>3, <4>1, CutsPack
      <4>3. v.rest = r /\ Len(u.lines) < HardLines /\ u.rest # <<>>
        <5>1. v.rest = r /\ Len(u.lines) < HardLines
          BY <4>1 DEF Cuts
        <5>2. u.rest # <<>>
          BY <4>2, EmptySeq, LenProperties DEF Text
        <5> QED  BY <5>1, <5>2
      <4>4. Len(u.lines) \in Nat /\ Len(r) \in Nat /\ Len(u.rest) \in Nat
        BY <2>2, LenProperties DEF HardState, Page, Text
      <4>5. Len(u.rest) + k <= n
        BY <1>1, <2>3, <4>3, <4>4
      <4>6. Len(v.rest) + (k + 1) <= n
        BY <1>1, <2>1, <4>2, <4>3, <4>4, <4>5
      <4> QED  BY <4>2, <4>6
    <3> QED  BY <2>4, <3>1, <3>2
  <2>6. x[k + 1] = <<k + 1, v>>
    BY <2>1 DEF v
  <2> QED  BY <2>1, <2>2, <2>5, <2>6
<1>7. n \in 0..n /\ x[n] = <<n, w[n]>>
  BY <1>1
<1> HIDE DEF T, x
<1>8. x[n] \in T
  BY <1>1, <1>5, <1>6, HardRounds
<1> DEFINE v == w[n]
<1>9. /\ v \in HardState
      /\ Packed(v.lines, v.rest, s, HardCap) /\ Len(v.lines) <= HardLines
      /\ Done(v) \/ Len(v.rest) + n <= n
  BY <1>7, <1>8 DEF T
<1>10. ui_wrap_hard(s) = v.lines
  BY <1>3 DEF ui_wrap_hard
<1> HIDE DEF v
<1>11. v.rest \in Text /\ v.lines \in Page /\ Len(v.rest) \in Nat /\ Len(v.lines) \in Nat
  BY <1>9, LenProperties DEF HardState, Text, Page
<1>12. v.rest = <<>> \/ Len(v.lines) = HardLines
  <2>1. Len(v.rest) + n <= n => v.rest = <<>>
    <3>1. Len(v.rest) + n <= n => Len(v.rest) = 0
      BY <1>1, <1>11
    <3> QED  BY <1>11, <3>1, EmptySeq DEF Text
  <2> QED  BY <1>1, <1>9, <1>11, <2>1
<1> QED  BY <1>9, <1>10, <1>11, <1>12

(***************************************************************************)
(* Words.                                                                  *)
(***************************************************************************)

\* The word that is open at the end of a text takes one letter more.
Grown(ws, c) == [ws EXCEPT ![Len(ws)] = Append(@, c)]

\* The words of a text that ends one character further on.
WordsNext(ws, inside, c) ==
  IF c \notin Letters THEN ws ELSE IF inside THEN Grown(ws, c) ELSE Append(ws, <<c>>)

\* The text ends in the middle of a word.
Inside(s) == s # <<>> /\ Last(s) \in Letters

\* An open word with a letter more.
LEMMA GrownIs ==
  ASSUME NEW ws \in Page, NEW c \in Chars
  PROVE  /\ Grown(ws, c) \in Page /\ Len(Grown(ws, c)) = Len(ws)
         /\ \A i \in 1..Len(ws) : i # Len(ws) => Grown(ws, c)[i] = ws[i]
         /\ ws # <<>> => Grown(ws, c)[Len(ws)] = Append(ws[Len(ws)], c)
<1> DEFINE n == Len(ws)
<1>1. n \in Nat /\ DOMAIN ws = 1..n /\ (\A i \in 1..n : ws[i] \in Text) /\ ws \in Seq(Text)
  BY LenProperties, ElementOfSeq DEF Page
<1>2. CASE ws = <<>>
  <2>1. n = 0
    BY <1>2, EmptySeq
  <2>2. Grown(ws, c) = <<>>
    <3>1. Grown(ws, c) = [i \in DOMAIN ws |-> IF i = n THEN Append(ws[i], c) ELSE ws[i]]
      BY DEF Grown
    <3>2. DOMAIN ws = {}
      BY <1>1, <2>1
    <3>3. Grown(ws, c) = [i \in {} |-> ws[i]] /\ ws = [i \in {} |-> ws[i]]
      BY <1>1, <3>1, <3>2, LenProperties DEF Page
    <3> QED  BY <1>2, <3>3
  <2> QED  BY <1>2, <2>1, <2>2
<1>3. CASE ws # <<>>
  <2>1. n \in 1..n
    BY <1>1, <1>3, EmptySeq
  <2>2. Append(ws[n], c) \in Text
    BY <1>1, <2>1, AppendIs DEF Text
  <2> DEFINE e == Append(ws[n], c)
  <2>3. Grown(ws, c) = [ws EXCEPT ![n] = e]
    BY DEF Grown
  <2> HIDE DEF e, n
  <2>4. /\ [ws EXCEPT ![n] = e] \in Seq(Text) /\ Len([ws EXCEPT ![n] = e]) = Len(ws)
        /\ \A j \in 1..Len(ws) : [ws EXCEPT ![n] = e][j] = IF j = n THEN e ELSE ws[j]
    <3>1. n \in 1..Len(ws) /\ e \in Text
      BY <2>1, <2>2 DEF e, n
    <3> QED  BY <1>1, <3>1, ExceptSeq
  <2>5. n = Len(ws) /\ e = Append(ws[n], c)
    BY DEF n, e
  <2> QED  BY <2>1, <2>3, <2>4, <2>5 DEF Page
<1> QED  BY <1>2, <1>3

\* One step of Words keeps to texts.
LEMMA WordsNextIs ==
  ASSUME NEW ws \in Page, NEW c \in Chars, NEW inside \in BOOLEAN
  PROVE  WordsNext(ws, inside, c) \in Page
<1>1. <<c>> \in Text
  BY DEF Text
<1>2. Append(ws, <<c>>) \in Page
  BY <1>1, AppendIs DEF Page
<1>3. Grown(ws, c) \in Page
  BY GrownIs
<1> QED  BY <1>2, <1>3 DEF WordsNext

\* The words of the first characters.
LEMMA WordsLoop ==
  ASSUME NEW s \in Text
  PROVE  \E w : /\ w \in [0..Len(s) -> Page] /\ w[0] = <<>>
                /\ \A k \in 1..Len(s) :
                     w[k] = WordsNext(w[k - 1], k > 1 /\ s[k - 1] \in Letters, s[k])
                /\ Words(s) = w[Len(s)]
<1> DEFINE n == Len(s)
           step == [q \in Page \X (1..n) |->
                      WordsNext(q[1], q[2] > 1 /\ s[q[2] - 1] \in Letters, s[q[2]])]
           Loop(f) == f = [k \in 0..n |->
                             IF k = 0 THEN <<>>
                             ELSE WordsNext(f[k - 1], k > 1 /\ s[k - 1] \in Letters, s[k])]
           g == CHOOSE f : Loop(f)
<1>1. n \in Nat /\ (\A k \in 1..n : s[k] \in Chars) /\ <<>> \in Page
  BY LenProperties, ElementOfSeq, EmptySeq DEF Text, Page
<1>2. step \in [Page \X (1..n) -> Page]
  <2>1. ASSUME NEW ws \in Page, NEW k \in 1..n
        PROVE  WordsNext(ws, k > 1 /\ s[k - 1] \in Letters, s[k]) \in Page
    <3>1. s[k] \in Chars /\ (k > 1 /\ s[k - 1] \in Letters) \in BOOLEAN
      BY <1>1
    <3> QED  BY <3>1, WordsNextIs
  <2> QED  BY <2>1
<1>3. \A v \in Page, k \in 1..n :
        step[<<v, k>>] = WordsNext(v, k > 1 /\ s[k - 1] \in Letters, s[k])
  OBVIOUS
<1>4. Words(s) = g[n]
  BY DEF Words, WordsNext, Grown
<1> HIDE DEF step, n
<1>5. PICK f : Recursive(f, Page, <<>>, n, step)
  BY <1>1, <1>2, RecursionExists
<1>6. /\ f \in [0..n -> Page]
      /\ f = [k \in 0..n |-> IF k = 0 THEN <<>> ELSE step[<<f[k - 1], k>>]]
  BY <1>5 DEF Recursive
<1>7. ASSUME NEW k \in 0..n, k # 0
      PROVE  /\ k \in 1..n /\ f[k - 1] \in Page
             /\ step[<<f[k - 1], k>>] =
                  WordsNext(f[k - 1], k > 1 /\ s[k - 1] \in Letters, s[k])
  <2>1. k \in 1..n /\ k - 1 \in 0..n
    BY <1>1, <1>7
  <2> QED  BY <1>3, <1>6, <2>1
<1>8. Loop(f)
  BY <1>6, <1>7
<1>9. Loop(g)
  BY <1>8
<1> HIDE DEF g
<1>10. f[0] = g[0] /\ f[0] = <<>>
  BY <1>1, <1>8, <1>9
<1>11. ASSUME NEW k \in 1..n
       PROVE  /\ f[k] = WordsNext(f[k - 1], k > 1 /\ s[k - 1] \in Letters, s[k])
              /\ g[k] = WordsNext(g[k - 1], k > 1 /\ s[k - 1] \in Letters, s[k])
  <2>1. k \in 0..n /\ k # 0
    BY <1>1
  <2> QED  BY <1>8, <1>9, <2>1
<1>12. Alike(f, g, n)
  BY <1>1, <1>10, <1>11, StepsAgree
<1>13. f[n] = g[n]
  BY <1>1, <1>12 DEF Alike
<1> QED  BY <1>4, <1>6, <1>10, <1>11, <1>13 DEF n

\* The words of a text with one character more.
LEMMA WordsIs ==
  /\ Words(<<>>) = <<>>
  /\ \A s \in Text : \A c \in Chars :
       Words(s) \in Page /\ Words(Append(s, c)) = WordsNext(Words(s), Inside(s), c)
<1>1. Words(<<>>) = <<>>
  <2>1. <<>> \in Text /\ Len(<<>>) = 0
    BY EmptySeq DEF Text
  <2> QED  BY <2>1, WordsLoop
<1>2. ASSUME NEW s \in Text, NEW c \in Chars
      PROVE  Words(s) \in Page /\ Words(Append(s, c)) = WordsNext(Words(s), Inside(s), c)
  <2> DEFINE t == Append(s, c)
             n == Len(s)
  <2>1. /\ t \in Text /\ Len(t) = n + 1 /\ n \in Nat
        /\ \A k \in 1..n : t[k] = s[k]
        /\ t[n + 1] = c
    BY AppendIs DEF Text
  <2>0. Inside(s) = (n + 1 > 1 /\ t[n] \in Letters)
    <3>1. s # <<>> <=> n > 0
      BY <2>1, EmptySeq DEF Text
    <3>2. n > 0 => t[n] = s[n]
      BY <2>1
    <3> QED  BY <2>1, <3>1, <3>2 DEF Inside, Last
  <2> HIDE DEF t
  <2>2. PICK w : /\ w \in [0..n -> Page] /\ w[0] = <<>>
                 /\ \A k \in 1..n :
                      w[k] = WordsNext(w[k - 1], k > 1 /\ s[k - 1] \in Letters, s[k])
                 /\ Words(s) = w[n]
    BY WordsLoop
  <2>3. PICK v : /\ v \in [0..n + 1 -> Page] /\ v[0] = <<>>
                 /\ \A k \in 1..n + 1 :
                      v[k] = WordsNext(v[k - 1], k > 1 /\ t[k - 1] \in Letters, t[k])
                 /\ Words(t) = v[n + 1]
    BY <2>1, WordsLoop
  <2> HIDE DEF n
  <2>4. Alike(w, v, n)
    <3>1. ASSUME NEW k \in 1..n
          PROVE  /\ k \in 1..n + 1 /\ t[k] = s[k]
                 /\ (k > 1 /\ s[k - 1] \in Letters) = (k > 1 /\ t[k - 1] \in Letters)
      <4>1. k > 1 => k - 1 \in 1..n
        BY <2>1
      <4> QED  BY <2>1, <4>1
    <3>2. ASSUME NEW k \in 1..n, w[k - 1] = v[k - 1] PROVE w[k] = v[k]
      <4>1. w[k] = WordsNext(w[k - 1], k > 1 /\ s[k - 1] \in Letters, s[k])
        BY <2>2
      <4>2. v[k] = WordsNext(v[k - 1], k > 1 /\ t[k - 1] \in Letters, t[k])
        BY <2>3, <3>1
      <4> QED  BY <3>1, <3>2, <4>1, <4>2
    <3> QED  BY <2>1, <2>2, <2>3, <3>2, StepsAgree
  <2>5. n + 1 \in 1..n + 1 /\ n \in 0..n /\ (n + 1) - 1 = n
    BY <2>1
  <2>6. v[n + 1] = WordsNext(v[n], n + 1 > 1 /\ t[n] \in Letters, c)
    BY <2>1, <2>3, <2>5
  <2>7. w[n] = v[n] /\ Words(s) = w[n] /\ w[n] \in Page
    BY <2>2, <2>4, <2>5 DEF Alike
  <2> QED  BY <2>0, <2>3, <2>6, <2>7 DEF t
<1> QED  BY <1>1, <1>2

\* After a letter there is a word.
LEMMA InsideHasWord ==
  ASSUME NEW s \in Text, Inside(s)
  PROVE  Words(s) # <<>>
<1> DEFINE T == {t \in Text : Inside(t) => Words(t) # <<>>}
<1>1. <<>> \in T
  BY EmptySeq DEF Inside, Text
<1>2. ASSUME NEW t \in Text, NEW c \in Chars, t \in T PROVE Append(t, c) \in T
  <2>1. Append(t, c) \in Text /\ Last(Append(t, c)) = c
    BY AppendIs DEF Text
  <2>2. ASSUME c \in Letters PROVE Words(Append(t, c)) # <<>>
    <3>1. Words(t) \in Page /\ Words(Append(t, c)) = WordsNext(Words(t), Inside(t), c)
      BY WordsIs
    <3>2. CASE Inside(t)
      <4>1. Words(t) # <<>>
        BY <1>2, <3>2
      <4>2. Len(Words(t)) # 0
        BY <3>1, <4>1, EmptySeq DEF Page
      <4>3. Words(Append(t, c)) = Grown(Words(t), c)
        BY <2>2, <3>1, <3>2 DEF WordsNext
      <4>4. Len(Grown(Words(t), c)) = Len(Words(t))
        BY <3>1, GrownIs
      <4> QED  BY <4>2, <4>3, <4>4, EmptySeq
    <3>3. CASE ~Inside(t)
      <4>1. Words(Append(t, c)) = Append(Words(t), <<c>>) /\ <<c>> \in Text
        BY <2>2, <3>1, <3>3 DEF WordsNext, Text
      <4> QED  BY <3>1, <4>1, AppendProperties DEF Page
    <3> QED  BY <3>2, <3>3
  <2> QED  BY <2>1, <2>2 DEF Inside
<1> HIDE DEF T
<1>3. Text \subseteq T
  BY <1>1, <1>2, SequenceInduction DEF Text
<1> QED  BY <1>3 DEF T

\* An open word grows, whatever words are before it.
LEMMA GrownConcat ==
  ASSUME NEW ws \in Page, NEW vs \in Page, vs # <<>>, NEW c \in Chars
  PROVE  Grown(ws \o vs, c) = ws \o Grown(vs, c)
<1> DEFINE m == Len(ws)
           n == Len(vs)
           a == Grown(ws \o vs, c)
           b == ws \o Grown(vs, c)
<1>1. /\ ws \o vs \in Page /\ Len(ws \o vs) = m + n /\ m \in Nat /\ n \in Nat \ {0}
      /\ \A i \in 1..m + n : (ws \o vs)[i] = IF i <= m THEN ws[i] ELSE vs[i - m]
  BY ConcatProperties, LenProperties, EmptySeq DEF Page
<1>2. /\ Grown(vs, c) \in Page /\ Len(Grown(vs, c)) = n
      /\ \A i \in 1..n : i # n => Grown(vs, c)[i] = vs[i]
      /\ Grown(vs, c)[n] = Append(vs[n], c)
  BY GrownIs
<1>3. /\ b \in Page /\ Len(b) = m + n
      /\ \A i \in 1..m + n : b[i] = IF i <= m THEN ws[i] ELSE Grown(vs, c)[i - m]
  <2> DEFINE g == Grown(vs, c)
  <2>1. g \in Seq(Text) /\ Len(g) = n /\ ws \in Seq(Text)
    BY <1>2 DEF Page
  <2> HIDE DEF g, n
  <2>2. /\ ws \o g \in Seq(Text) /\ Len(ws \o g) = m + n
        /\ \A i \in 1..m + n : (ws \o g)[i] = IF i <= m THEN ws[i] ELSE g[i - m]
    BY <2>1, ConcatProperties
  <2> QED  BY <2>2 DEF g, Page
<1>4. /\ a \in Page /\ Len(a) = m + n
      /\ \A i \in 1..m + n : i # m + n => a[i] = (ws \o vs)[i]
      /\ a[m + n] = Append((ws \o vs)[m + n], c)
  <2> DEFINE x == ws \o vs
  <2>1. x # <<>>
    BY <1>1, EmptySeq
  <2>2. x \in Page /\ Len(x) = m + n
    BY <1>1
  <2> HIDE DEF x, m, n
  <2>3. /\ Grown(x, c) \in Page /\ Len(Grown(x, c)) = Len(x)
        /\ \A i \in 1..Len(x) : i # Len(x) => Grown(x, c)[i] = x[i]
        /\ Grown(x, c)[Len(x)] = Append(x[Len(x)], c)
    BY <2>1, <2>2, GrownIs
  <2> QED  BY <2>2, <2>3 DEF x
<1> HIDE DEF a, b, m, n
<1>5. ASSUME NEW i \in 1..m + n PROVE a[i] = b[i]
  <2>1. CASE i <= m
    <3>1. i # m + n
      BY <1>1, <2>1
    <3>2. a[i] = (ws \o vs)[i]
      BY <1>4, <3>1
    <3>3. (ws \o vs)[i] = ws[i]
      BY <1>1, <2>1
    <3>4. b[i] = ws[i]
      BY <1>3, <2>1
    <3> QED  BY <3>2, <3>3, <3>4
  <2>2. CASE i > m /\ i # m + n
    <3>1. i - m \in 1..n /\ i - m # n
      BY <1>1, <2>2
    <3> QED  BY <1>1, <1>2, <1>3, <1>4, <2>2, <3>1
  <2>3. CASE i = m + n
    <3>1. (m + n) - m = n /\ ~(m + n <= m) /\ m + n \in 1..m + n
      BY <1>1
    <3>2. (ws \o vs)[m + n] = vs[n] /\ b[m + n] = Grown(vs, c)[n]
      BY <1>1, <1>3, <3>1
    <3> QED  BY <1>2, <1>4, <2>3, <3>2
  <2> QED  BY <1>1, <2>1, <2>2, <2>3
<1>6. a = b
  BY <1>3, <1>4, <1>5, SeqEqual DEF Page
<1> QED  BY <1>6 DEF a, b

\* A word more after the words of two texts.
LEMMA WordAfter ==
  ASSUME NEW ws \in Page, NEW vs \in Page, NEW t \in Text
  PROVE  ws \o Append(vs, t) = Append(ws \o vs, t)
<1>1. ws \in Seq(Text) /\ vs \in Seq(Text)
  BY DEF Page
<1> QED  BY <1>1, ConcatAppend

\* A letter does not go on with a word before t.
Apart(s, t) == ~Inside(s) \/ t = <<>> \/ t[1] \notin Letters

\* Put next to each other without joining a word, two texts have the words of both.
LEMMA WordsConcat ==
  ASSUME NEW s \in Text, NEW t \in Text, Apart(s, t)
  PROVE  Words(s \o t) = Words(s) \o Words(t)
<1> DEFINE T == {u \in Text : Apart(s, u) => Words(s \o u) = Words(s) \o Words(u)}
<1>0. Words(s) \in Page /\ (\A u \in Text : Words(u) \in Page)
  <2>1. Space \in Chars
    BY WrapAssumption
  <2> QED  BY <2>1, WordsIs
<1>1. <<>> \in T
  <2>1. s \o <<>> = s /\ Words(s) \o <<>> = Words(s) /\ <<>> \in Text
    BY <1>0, ConcatEmptySeq, EmptySeq DEF Text, Page
  <2> QED  BY <2>1, WordsIs
<1>2. ASSUME NEW u \in Text, NEW c \in Chars, u \in T, Apart(s, Append(u, c))
      PROVE  Words(s \o Append(u, c)) = Words(s) \o Words(Append(u, c))
  <2>1. s \o Append(u, c) = Append(s \o u, c)
    BY ConcatAppend DEF Text
  <2>2. s \o u \in Text /\ Words(u) \in Page /\ Words(s) \o Words(u) \in Page
    BY <1>0, ConcatProperties DEF Text, Page
  <2>3. /\ Words(Append(s \o u, c)) = WordsNext(Words(s \o u), Inside(s \o u), c)
        /\ Words(Append(u, c)) = WordsNext(Words(u), Inside(u), c)
    BY <2>2, WordsIs
  <2>4. Apart(s, u)
    <3>1. u # <<>> => Append(u, c)[1] = u[1] /\ Append(u, c) # <<>>
      <4>1. u # <<>> => 1 \in 1..Len(u)
        BY EmptySeq, LenProperties DEF Text
      <4> QED  BY <4>1, AppendProperties DEF Text
    <3> QED  BY <1>2, <3>1 DEF Apart
  <2>5. Words(s \o u) = Words(s) \o Words(u)
    BY <1>2, <2>4
  <2>6. CASE c \notin Letters
    BY <2>1, <2>3, <2>5, <2>6 DEF WordsNext
  <2>7. CASE c \in Letters /\ u # <<>>
    <3>1. Inside(s \o u) = Inside(u)
      <4>1. Len(u) \in Nat \ {0} /\ Len(s) \in Nat
        BY <2>7, EmptySeq, LenProperties DEF Text
      <4>2. /\ Len(s \o u) = Len(s) + Len(u)
            /\ \A i \in 1..Len(s) + Len(u) :
                 (s \o u)[i] = IF i <= Len(s) THEN s[i] ELSE u[i - Len(s)]
        BY ConcatProperties DEF Text
      <4>3. /\ Len(s) + Len(u) \in 1..Len(s) + Len(u) /\ ~(Len(s) + Len(u) <= Len(s))
            /\ (Len(s) + Len(u)) - Len(s) = Len(u)
        BY <4>1
      <4>4. (s \o u)[Len(s \o u)] = u[Len(u)]
        BY <4>2, <4>3
      <4>5. s \o u # <<>>
        <5>1. Len(s \o u) # 0
          BY <4>1, <4>2
        <5> QED  BY <5>1, EmptySeq
      <4> QED  BY <2>7, <4>4, <4>5 DEF Inside, Last
    <3>2. CASE Inside(u)
      <4>1. Words(u) # <<>>
        BY <3>2, InsideHasWord
      <4>2. Grown(Words(s) \o Words(u), c) = Words(s) \o Grown(Words(u), c)
        BY <1>0, <2>2, <4>1, GrownConcat
      <4> QED  BY <2>1, <2>3, <2>5, <2>7, <3>1, <3>2, <4>2 DEF WordsNext
    <3>3. CASE ~Inside(u)
      <4>1. <<c>> \in Text
        BY DEF Text
      <4>2. Words(s) \o Append(Words(u), <<c>>) = Append(Words(s) \o Words(u), <<c>>)
        BY <1>0, <2>2, <4>1, WordAfter
      <4> QED  BY <2>1, <2>3, <2>5, <2>7, <3>1, <3>3, <4>2 DEF WordsNext
    <3> QED  BY <3>2, <3>3
  <2>8. CASE c \in Letters /\ u = <<>>
    <3>1. Append(u, c)[1] = c /\ Append(u, c) # <<>>
      BY <2>8
    <3>2. ~Inside(s) /\ ~Inside(u) /\ s \o u = s
      BY <1>2, <2>8, <3>1, ConcatEmptySeq DEF Apart, Inside, Text
    <3>3. Words(u) = <<>> /\ <<c>> \in Text
      BY <2>8, WordsIs DEF Text
    <3>4. Words(s) \o Append(Words(u), <<c>>) = Append(Words(s) \o Words(u), <<c>>)
      BY <1>0, <2>2, <3>3, WordAfter
    <3> QED  BY <2>1, <2>3, <2>5, <2>8, <3>2, <3>4 DEF WordsNext
  <2> QED  BY <2>6, <2>7, <2>8
<1>3. ASSUME NEW u \in Text, NEW c \in Chars, u \in T PROVE Append(u, c) \in T
  <2>1. Append(u, c) \in Text
    BY AppendIs DEF Text
  <2> QED  BY <1>2, <1>3, <2>1
<1> HIDE DEF T
<1>4. Text \subseteq T
  BY <1>1, <1>3, SequenceInduction DEF Text
<1> QED  BY <1>4 DEF T

\* Letters alone are one word ...
LEMMA WordsOfLetters ==
  ASSUME NEW s \in Text, s # <<>>, \A k \in 1..Len(s) : s[k] \in Letters
  PROVE  Words(s) = <<s>>
<1> DEFINE T == {t \in Text : t # <<>> /\ (\A k \in 1..Len(t) : t[k] \in Letters)
                                => Words(t) = <<t>>}
<1>1. <<>> \in T
  BY EmptySeq DEF Text
<1>2. ASSUME NEW t \in Text, NEW c \in Chars, t \in T,
             \A k \in 1..Len(Append(t, c)) : Append(t, c)[k] \in Letters
      PROVE  Words(Append(t, c)) = <<Append(t, c)>>
  <2>1. /\ Append(t, c) \in Text /\ Len(Append(t, c)) = Len(t) + 1 /\ Len(t) \in Nat
        /\ \A k \in 1..Len(t) : Append(t, c)[k] = t[k]
        /\ Append(t, c)[Len(t) + 1] = c
    BY AppendIs DEF Text
  <2>2. c \in Letters /\ \A k \in 1..Len(t) : t[k] \in Letters
    BY <1>2, <2>1
  <2>3. Words(t) \in Page /\ Words(Append(t, c)) = WordsNext(Words(t), Inside(t), c)
    BY WordsIs
  <2>4. CASE t = <<>>
    <3>1. Words(t) = <<>> /\ ~Inside(t)
      BY <2>4, WordsIs DEF Inside
    <3>2. Words(Append(t, c)) = Append(<<>>, <<c>>)
      BY <2>2, <2>3, <3>1 DEF WordsNext
    <3> QED  BY <2>4, <3>2
  <2>5. CASE t # <<>>
    <3>1. Words(t) = <<t>>
      BY <1>2, <2>2, <2>5
    <3>2. Inside(t)
      <4>1. Len(t) \in 1..Len(t)
        BY <2>1, <2>5, EmptySeq DEF Text
      <4> QED  BY <2>2, <2>5, <4>1 DEF Inside, Last
    <3>3. Words(Append(t, c)) = Grown(<<t>>, c)
      BY <2>2, <2>3, <3>1, <3>2 DEF WordsNext
    <3>4. Grown(<<t>>, c) = <<Append(t, c)>>
      <4>1. Len(<<t>>) = 1 /\ <<t>>[1] = t
        OBVIOUS
      <4> QED  BY <4>1 DEF Grown
    <3> QED  BY <3>3, <3>4
  <2> QED  BY <2>4, <2>5
<1>3. ASSUME NEW t \in Text, NEW c \in Chars, t \in T PROVE Append(t, c) \in T
  <2>1. Append(t, c) \in Text
    BY AppendIs DEF Text
  <2> QED  BY <1>2, <1>3, <2>1
<1> HIDE DEF T
<1>4. Text \subseteq T
  BY <1>1, <1>3, SequenceInduction DEF Text
<1> QED  BY <1>4 DEF T

\* ... and spaces and line breaks are none.
LEMMA WordsOfOthers ==
  ASSUME NEW s \in Text, \A k \in 1..Len(s) : s[k] \notin Letters
  PROVE  Words(s) = <<>>
<1> DEFINE T == {t \in Text : (\A k \in 1..Len(t) : t[k] \notin Letters) => Words(t) = <<>>}
<1>1. <<>> \in T
  BY EmptySeq, WordsIs DEF Text
<1>2. ASSUME NEW t \in Text, NEW c \in Chars, t \in T,
             \A k \in 1..Len(Append(t, c)) : Append(t, c)[k] \notin Letters
      PROVE  Words(Append(t, c)) = <<>>
  <2>1. /\ Append(t, c) \in Text /\ Len(Append(t, c)) = Len(t) + 1 /\ Len(t) \in Nat
        /\ \A k \in 1..Len(t) : Append(t, c)[k] = t[k]
        /\ Append(t, c)[Len(t) + 1] = c
    BY AppendIs DEF Text
  <2>2. c \notin Letters /\ \A k \in 1..Len(t) : t[k] \notin Letters
    BY <1>2, <2>1
  <2> QED  BY <1>2, <2>2, WordsIs DEF WordsNext
<1>3. ASSUME NEW t \in Text, NEW c \in Chars, t \in T PROVE Append(t, c) \in T
  <2>1. Append(t, c) \in Text
    BY AppendIs DEF Text
  <2> QED  BY <1>2, <1>3, <2>1
<1> HIDE DEF T
<1>4. Text \subseteq T
  BY <1>1, <1>3, SequenceInduction DEF Text
<1> QED  BY <1>4 DEF T

\* A line more below the others, and its words after theirs.
LEMMA BelowIs ==
  /\ Below(<<>>) = <<>>
  /\ \A ls \in Page : \A l \in Text :
       Below(ls) \in Text /\ Below(Append(ls, l)) = Below(ls) \o Append(l, Break)
<1> DEFINE Ended(ls) == [k \in DOMAIN ls |-> Append(ls[k], Break)]
<1>0. Break \in Chars
  BY WrapAssumption
<1>1. ASSUME NEW ls \in Page
      PROVE  Ended(ls) \in Page /\ Len(Ended(ls)) = Len(ls)
  <2>1. Len(ls) \in Nat /\ DOMAIN ls = 1..Len(ls) /\ \A k \in 1..Len(ls) : ls[k] \in Text
    BY LenProperties, ElementOfSeq DEF Page
  <2>2. \A k \in 1..Len(ls) : Append(ls[k], Break) \in Text
    BY <1>0, <2>1, AppendIs DEF Text
  <2>3. Ended(ls) \in Seq(Text) /\ Len(Ended(ls)) = Len(ls)
    BY <2>1, <2>2
  <2> QED  BY <2>3 DEF Page
<1>2. Below(<<>>) = <<>>
  <2>1. <<>> \in Page /\ Len(<<>>) = 0
    BY EmptySeq DEF Page
  <2>2. Ended(<<>>) \in Page /\ Len(Ended(<<>>)) = 0
    BY <1>1, <2>1
  <2>3. Ended(<<>>) = <<>>
    BY <2>2, EmptySeq DEF Page
  <2> QED  BY <2>3, FlattenIs DEF Below
<1>3. ASSUME NEW ls \in Page, NEW l \in Text
      PROVE  Below(ls) \in Text /\ Below(Append(ls, l)) = Below(ls) \o Append(l, Break)
  <2> DEFINE n == Len(ls)
             t == Append(ls, l)
             e == Append(l, Break)
  <2>1. /\ t \in Page /\ Len(t) = n + 1 /\ n \in Nat
        /\ \A k \in 1..n : t[k] = ls[k]
        /\ t[n + 1] = l
    BY AppendIs DEF Page
  <2>2. e \in Text
    BY <1>0, AppendIs DEF Text
  <2>3. /\ Ended(ls) \in Page /\ Len(Ended(ls)) = n /\ Ended(t) \in Page
        /\ Len(Ended(t)) = n + 1
    BY <1>1, <2>1
  <2>4. DOMAIN ls = 1..n /\ DOMAIN t = 1..n + 1
    BY <2>1, LenProperties DEF Page
  <2> HIDE DEF t, n, e
  <2>5. (\A k \in 1..n : Ended(ls)[k] = Append(ls[k], Break) /\ Ended(t)[k] = Append(t[k], Break))
        /\ Ended(t)[n + 1] = Append(t[n + 1], Break)
    <3>1. n + 1 \in 1..n + 1 /\ \A k \in 1..n : k \in 1..n + 1
      BY <2>1
    <3> QED  BY <2>4, <3>1
  <2>6. Below(ls) = FlattenSeq(Ended(ls)) /\ Below(t) = FlattenSeq(Ended(t))
    BY DEF Below
  <2> DEFINE a == Ended(ls)
             b == Ended(t)
  <2>7. a \in Page /\ Len(a) = n /\ b \in Page /\ Len(b) = n + 1
    BY <2>3
  <2>8. (\A k \in 1..n : a[k] = b[k]) /\ b[n + 1] = e
    BY <2>1, <2>5 DEF e
  <2> HIDE DEF a, b
  <2>9. /\ Append(a, e) \in Page /\ Len(Append(a, e)) = n + 1
        /\ (\A k \in 1..n : Append(a, e)[k] = a[k])
        /\ Append(a, e)[n + 1] = e
    BY <2>2, <2>7, AppendIs DEF Page
  <2>10. \A k \in 1..n + 1 : Append(a, e)[k] = b[k]
    <3>1. ASSUME NEW k \in 1..n + 1 PROVE k \in 1..n \/ k = n + 1
      BY <2>1
    <3> QED  BY <2>8, <2>9, <3>1
  <2>11. b = Append(a, e)
    BY <2>7, <2>9, <2>10, SeqEqual DEF Page
  <2>12. FlattenSeq(a) \in Text /\ FlattenSeq(b) = FlattenSeq(a) \o e
    BY <2>2, <2>7, <2>11, FlattenIs
  <2> QED  BY <2>6, <2>12 DEF a, b, t, e
<1> QED  BY <1>2, <1>3

\* The words of lines are those of each of them.
LEMMA WordsBelow ==
  ASSUME NEW ls \in Page, NEW l \in Text
  PROVE  Words(Below(Append(ls, l))) = Words(Below(ls)) \o Words(l)
<1>1. Below(ls) \in Text /\ Below(Append(ls, l)) = Below(ls) \o Append(l, Break)
  BY BelowIs
<1>2. Break \in Chars /\ Break \notin Letters
  BY WrapAssumption DEF Letters
<1>3. Append(l, Break) \in Text /\ Words(Append(l, Break)) = Words(l)
  <2>1. Append(l, Break) \in Text
    BY <1>2, AppendIs DEF Text
  <2>2. Words(Append(l, Break)) = WordsNext(Words(l), Inside(l), Break)
    BY <1>2, WordsIs
  <2> QED  BY <1>2, <2>1, <2>2 DEF WordsNext
<1>4. ~Inside(Below(ls))
  <2>1. CASE ls = <<>>
    BY <2>1, BelowIs DEF Inside
  <2>2. CASE ls # <<>>
    <3>1. PICK ks \in Page, k \in Text : ls = Append(ks, k)
      BY <2>2, SequenceEmptyOrAppend DEF Page
    <3>2. Below(ks) \in Text /\ Below(ls) = Below(ks) \o Append(k, Break)
      BY <3>1, BelowIs
    <3>3. Below(ks) \o Append(k, Break) = Append(Below(ks) \o k, Break)
      BY <1>2, <3>2, ConcatAppend DEF Text
    <3>4. Below(ks) \o k \in Seq(Chars)
      BY <3>2, ConcatProperties DEF Text
    <3> DEFINE x == Below(ks) \o k
    <3>5. Last(Append(x, Break)) = Break
      <4>1. x \in Seq(Chars)
        BY <3>4
      <4> HIDE DEF x
      <4> QED  BY <1>2, <4>1, AppendIs
    <3>6. Last(Below(ls)) = Break
      BY <3>2, <3>3, <3>5
    <3> QED  BY <1>2, <3>6 DEF Inside
  <2> QED  BY <2>1, <2>2
<1> QED  BY <1>1, <1>3, <1>4, WordsConcat DEF Apart

(***************************************************************************)
(* A text and the position about_wrap is at in it.                         *)
(***************************************************************************)

\* What is before p.
Pre(s, p) == SubSeq(s, 1, p - 1)

\* The text up to q is the text up to p and what is between them.
LEMMA PreIs ==
  ASSUME NEW s \in Text, NEW p \in 1..Len(s) + 1, NEW q \in p..Len(s) + 1
  PROVE  /\ Pre(s, p) \in Text /\ Len(Pre(s, p)) = p - 1
         /\ Pre(s, 1) = <<>> /\ Pre(s, Len(s) + 1) = s
         /\ SubSeq(s, p, q - 1) \in Text /\ Len(SubSeq(s, p, q - 1)) = q - p
         /\ \A i \in 1..q - p : SubSeq(s, p, q - 1)[i] = s[p + i - 1]
         /\ Pre(s, q) = Pre(s, p) \o SubSeq(s, p, q - 1)
         /\ \A i \in 1..p - 1 : Pre(s, p)[i] = s[i]
<1> DEFINE n == Len(s)
<1>1. n \in Nat /\ p \in Nat /\ q \in Nat /\ s \in Seq(Chars)
  BY LenProperties DEF Text
<1>2. Pre(s, p) \in Text /\ Len(Pre(s, p)) = p - 1 /\ \A i \in 1..p - 1 : Pre(s, p)[i] = s[i]
  <2>1. p - 1 \in 0..n
    BY <1>1
  <2> QED  BY <1>1, <2>1, CutInTwo DEF Text, Pre
<1>3. Pre(s, 1) = <<>> /\ Pre(s, n + 1) = s
  <2>1. 1 - 1 = 0 /\ (n + 1) - 1 = n
    BY <1>1
  <2>2. SubSeq(s, 1, 0) = <<>> /\ SubSeq(s, 1, n) = s
    BY <1>1, SubSeqEmpty, SubSeqFull
  <2> QED  BY <2>1, <2>2 DEF Pre
<1>4. /\ SubSeq(s, p, q - 1) \in Text /\ Len(SubSeq(s, p, q - 1)) = q - p
      /\ \A i \in 1..q - p : SubSeq(s, p, q - 1)[i] = s[p + i - 1]
  <2>1. \A i \in p..q - 1 : s[i] \in Chars
    BY <1>1, ElementOfSeq
  <2> DEFINE m == q - 1
  <2>2. m \in Int /\ m - p + 1 = q - p /\ p <= m + 1
    BY <1>1
  <2> HIDE DEF m
  <2>3. /\ SubSeq(s, p, m) \in Seq(Chars)
        /\ Len(SubSeq(s, p, m)) = IF p <= m THEN m - p + 1 ELSE 0
        /\ \A i \in 1..m - p + 1 : SubSeq(s, p, m)[i] = s[p + i - 1]
    <3>1. \A i \in p..m : s[i] \in Chars
      BY <2>1 DEF m
    <3> QED  BY <1>1, <2>2, <3>1, SubSeqProperties
  <2>4. p > m => m - p + 1 = 0
    BY <1>1, <2>2
  <2> QED  BY <1>1, <2>2, <2>3, <2>4 DEF m, Text
<1>5. Pre(s, q) = Pre(s, p) \o SubSeq(s, p, q - 1)
  <2> DEFINE a == p - 1
             b == q - 1
  <2>1. 1 \in 1..n + 1 /\ a \in 1 - 1..n /\ b \in a..n /\ a + 1 = p
    BY <1>1
  <2> HIDE DEF a, b
  <2>2. SubSeq(s, 1, a) \o SubSeq(s, a + 1, b) = SubSeq(s, 1, b)
    BY <1>1, <2>1, ConcatAdjacentSubSeq
  <2> QED  BY <2>1, <2>2 DEF Pre, a, b
<1> QED  BY <1>2, <1>3, <1>4, <1>5

\* p is not in the middle of a word.
Between(s, p) ==
  p = 1 \/ p = Len(s) + 1 \/ s[p - 1] \notin Letters \/ s[p] \notin Letters

\* From such a place on, the words of more of the text are those before it and those of
\* what was added.
LEMMA WordsAhead ==
  ASSUME NEW s \in Text, NEW p \in 1..Len(s) + 1, NEW q \in p..Len(s) + 1, Between(s, p)
  PROVE  Words(Pre(s, q)) = Words(Pre(s, p)) \o Words(SubSeq(s, p, q - 1))
<1> DEFINE a == Pre(s, p)
           b == SubSeq(s, p, q - 1)
<1>1. /\ a \in Text /\ Len(a) = p - 1 /\ b \in Text /\ Len(b) = q - p /\ Pre(s, q) = a \o b
      /\ (\A i \in 1..q - p : b[i] = s[p + i - 1]) /\ Pre(s, 1) = <<>>
      /\ (\A i \in 1..p - 1 : a[i] = s[i])
  BY PreIs
<1>2. Len(s) \in Nat /\ p \in Nat /\ q \in Nat
  BY LenProperties DEF Text
<1>3. p = 1 => a = <<>>
  BY <1>1
<1> HIDE DEF a, b
<1>4. Apart(a, b)
  <2>1. CASE p = 1
    BY <1>3, <2>1 DEF Apart, Inside
  <2>2. CASE q = p
    <3>1. Len(b) = 0
      BY <1>1, <1>2, <2>2
    <3> QED  BY <1>1, <3>1, EmptySeq DEF Apart, Text
  <2>3. CASE p # 1 /\ q # p
    <3>1. 1 \in 1..q - p /\ p - 1 \in 1..p - 1 /\ p + 1 - 1 = p /\ p # Len(s) + 1
      BY <1>2, <2>3
    <3>2. b[1] = s[p] /\ Last(a) = s[p - 1]
      BY <1>1, <3>1 DEF Last
    <3> QED  BY <2>3, <3>1, <3>2 DEF Between, Apart, Inside
  <2> QED  BY <2>1, <2>2, <2>3
<1>5. Words(a \o b) = Words(a) \o Words(b)
  BY <1>1, <1>4, WordsConcat
<1> QED  BY <1>1, <1>5 DEF a, b

\* A word that starts and ends between words is one of the words of the text.
LEMMA WordOfText ==
  ASSUME NEW s \in Text, NEW p \in 1..Len(s) + 1, NEW q \in p..Len(s) + 1, p < q,
         Between(s, p), Between(s, q), \A k \in p..q - 1 : s[k] \in Letters
  PROVE  /\ Words(SubSeq(s, p, q - 1)) = <<SubSeq(s, p, q - 1)>>
         /\ \E k \in DOMAIN Words(s) : Words(s)[k] = SubSeq(s, p, q - 1)
<1> DEFINE n == Len(s)
           t == SubSeq(s, p, q - 1)
           r == SubSeq(s, q, (n + 1) - 1)
<1>1. n \in Nat /\ p \in Nat /\ q \in Nat /\ n + 1 \in q..n + 1
  BY LenProperties DEF Text
<1>2. /\ t \in Text /\ Len(t) = q - p /\ (\A i \in 1..q - p : t[i] = s[p + i - 1])
      /\ Pre(s, p) \in Text
  BY PreIs
<1>3. Pre(s, n + 1) = s /\ r \in Text
  BY <1>1, PreIs
<1>4. Words(Pre(s, q)) = Words(Pre(s, p)) \o Words(t)
  BY WordsAhead
<1>5. Words(Pre(s, n + 1)) = Words(Pre(s, q)) \o Words(r)
  <2>1. q \in 1..Len(s) + 1 /\ Len(s) + 1 \in q..Len(s) + 1
    BY <1>1
  <2> QED  BY <2>1, WordsAhead
<1> HIDE DEF n, t, r
<1>6. t # <<>> /\ \A i \in 1..Len(t) : t[i] \in Letters
  <2>1. Len(t) # 0 /\ Len(t) \in Nat
    BY <1>1, <1>2
  <2>2. ASSUME NEW i \in 1..Len(t) PROVE t[i] \in Letters
    <3>1. i \in 1..q - p /\ p + i - 1 \in p..q - 1
      BY <1>1, <1>2
    <3> QED  BY <1>2, <3>1
  <2> QED  BY <2>1, <2>2, EmptySeq
<1>7. Words(t) = <<t>>
  BY <1>2, <1>6, WordsOfLetters
<1> DEFINE a == Words(Pre(s, p))
           b == Words(r)
<1>8. a \in Seq(Text) /\ b \in Seq(Text) /\ <<t>> \in Seq(Text) /\ Len(a) \in Nat
  <2>1. a \in Page /\ b \in Page
    <3>1. Space \in Chars
      BY WrapAssumption
    <3> QED  BY <1>2, <1>3, <3>1, WordsIs
  <2> QED  BY <1>2, <2>1, LenProperties DEF Page
<1>9. Words(s) = (a \o <<t>>) \o b
  BY <1>3, <1>4, <1>5, <1>7
<1> HIDE DEF a, b
<1>10. /\ a \o <<t>> \in Seq(Text) /\ Len(a \o <<t>>) = Len(a) + 1
       /\ (a \o <<t>>)[Len(a) + 1] = t
  <2>1. Append(a, t) = a \o <<t>>
    BY <1>2, <1>8, AppendIsConcat
  <2> QED  BY <1>2, <1>8, <2>1, AppendIs
<1> DEFINE c == a \o <<t>>
<1>11. c \in Seq(Text) /\ Len(c) = Len(a) + 1 /\ c[Len(a) + 1] = t
  BY <1>10
<1> HIDE DEF c
<1>12. /\ c \o b \in Seq(Text) /\ Len(c \o b) = Len(c) + Len(b) /\ Len(b) \in Nat
       /\ \A i \in 1..Len(c) + Len(b) : (c \o b)[i] = IF i <= Len(c) THEN c[i] ELSE b[i - Len(c)]
  BY <1>8, <1>11, ConcatProperties, LenProperties
<1>13. /\ Len(a) + 1 \in 1..Len(c) + Len(b) /\ Len(a) + 1 <= Len(c)
  BY <1>8, <1>11, <1>12
<1>14. (c \o b)[Len(a) + 1] = t /\ Len(a) + 1 \in DOMAIN (c \o b)
  BY <1>11, <1>12, <1>13, LenProperties
<1> QED  BY <1>7, <1>9, <1>14 DEF c, t

(***************************************************************************)
(* A round of about_wrap.                                                  *)
(***************************************************************************)

\* The start of a text that has room in a line.
LEMMA CutToFit ==
  ASSUME NEW l \in Text
  PROVE  /\ SubSeq(l, 1, Least(Len(l), AboutCap)) \in Text
         /\ Len(SubSeq(l, 1, Least(Len(l), AboutCap))) <= AboutCap
         /\ Len(l) < AboutCap => SubSeq(l, 1, Least(Len(l), AboutCap)) = l
         /\ \/ SubSeq(l, 1, Least(Len(l), AboutCap)) = l
            \/ Len(SubSeq(l, 1, Least(Len(l), AboutCap))) = AboutCap
<1> DEFINE n == Len(l)
           k == Least(n, AboutCap)
<1>1. n \in Nat /\ AboutCap \in Nat /\ l \in Seq(Chars)
  BY WrapAssumption, LenProperties DEF Text
<1>2. k \in 0..n /\ k <= AboutCap /\ (k = n \/ k = AboutCap) /\ (n < AboutCap => k = n)
  BY <1>1 DEF Least
<1> HIDE DEF k
<1>3. SubSeq(l, 1, k) \in Seq(Chars) /\ Len(SubSeq(l, 1, k)) = k
  BY <1>1, <1>2, CutInTwo
<1>4. k = n => SubSeq(l, 1, k) = l
  BY <1>1, SubSeqFull
<1> QED  BY <1>2, <1>3, <1>4 DEF k, Text

\* The line with the next word stays in its buffer; when it fits the width, it has the
\* words of the line and of the word.
LEMMA CandidateIs ==
  ASSUME NEW cur \in Text, NEW word \in Text
  PROVE  /\ Candidate(cur, word) \in Text /\ Len(Candidate(cur, word)) <= AboutCap
         /\ cur = <<>> /\ StrWidth(word) <= MaxWidth => Candidate(cur, word) = word
         /\ StrWidth(cur) <= MaxWidth /\ StrWidth(Candidate(cur, word)) <= MaxWidth =>
              Words(Candidate(cur, word)) = Words(cur) \o Words(word)
<1> DEFINE sep == IF cur # <<>> /\ Len(cur) < AboutCap /\ Last(cur) # Space
                  THEN <<Space>> ELSE <<>>
           x == cur \o sep
           l == x \o word
           cand == SubSeq(l, 1, Least(Len(l), AboutCap))
<1>0. Space \in Chars /\ Space \notin Letters /\ AboutCap \in Nat
  BY WrapAssumption DEF Letters
<1>1. sep \in Text
  BY <1>0, EmptySeq DEF Text
<1>2. x \in Text
  <2> HIDE DEF sep
  <2> QED  BY <1>1, ConcatProperties DEF Text
<1>3. l \in Text
  <2> HIDE DEF x
  <2> QED  BY <1>2, ConcatProperties DEF Text
<1>4. Candidate(cur, word) = cand
  BY DEF Candidate
<1>5. /\ cand \in Text /\ Len(cand) <= AboutCap /\ (Len(l) < AboutCap => cand = l)
      /\ cand = l \/ Len(cand) = AboutCap
  <2> HIDE DEF l
  <2> QED  BY <1>3, CutToFit
<1>6. ASSUME cur = <<>>, StrWidth(word) <= MaxWidth PROVE cand = word
  <2>1. sep = <<>> /\ x = <<>>
    BY <1>6
  <2>2. l = word
    BY <2>1, ConcatEmptySeq DEF Text
  <2>3. Len(word) < AboutCap
    BY <1>6, FittingIsShort
  <2> QED  BY <1>5, <2>2, <2>3
<1> HIDE DEF cand
<1>7. ASSUME StrWidth(cur) <= MaxWidth, StrWidth(cand) <= MaxWidth
      PROVE  Words(cand) = Words(cur) \o Words(word)
  <2>1. cand = l
    <3>1. Len(cand) < AboutCap
      BY <1>5, <1>7, FittingIsShort
    <3>2. Len(cand) # AboutCap
      BY <1>0, <3>1
    <3> QED  BY <1>5, <3>2
  <2>2. Words(cur) \in Page
    BY <1>0, WordsIs
  <2>3. Words(x) = Words(cur) /\ ~Inside(x)
    <3>1. CASE cur # <<>> /\ Last(cur) # Space
      <4>1. sep = <<Space>>
        BY <1>7, <3>1, FittingIsShort
      <4>2. x = Append(cur, Space)
        BY <1>0, <4>1, AppendIsConcat DEF Text
      <4>3. Words(x) = WordsNext(Words(cur), Inside(cur), Space)
        BY <1>0, <4>2, WordsIs
      <4>4. Last(x) = Space
        <5>1. Last(Append(cur, Space)) = Space
          BY <1>0, AppendIs DEF Text
        <5> QED  BY <4>2, <5>1
      <4> QED  BY <1>0, <4>3, <4>4 DEF WordsNext, Inside
    <3>2. CASE ~(cur # <<>> /\ Last(cur) # Space)
      <4>1. sep = <<>>
        BY <3>2
      <4>2. x = cur
        BY <4>1, ConcatEmptySeq DEF Text
      <4>3. ~Inside(cur)
        BY <1>0, <3>2 DEF Inside
      <4> QED  BY <4>2, <4>3
    <3> QED  BY <3>1, <3>2
  <2> HIDE DEF x
  <2>4. Words(l) = Words(x) \o Words(word)
    BY <1>2, <2>3, WordsConcat DEF Apart
  <2> QED  BY <2>1, <2>3, <2>4
<1> QED  BY <1>4, <1>5, <1>6, <1>7

AboutState == [p: Nat, lines: Page, cur: Text]

\* The fields of a state that At makes.
LEMMA AtIs ==
  ASSUME NEW p \in Nat, NEW ls \in Page, NEW cur \in Text
  PROVE  /\ At(p, ls, cur) \in AboutState
         /\ At(p, ls, cur).p = p /\ At(p, ls, cur).lines = ls /\ At(p, ls, cur).cur = cur
BY DEF At, AboutState

\* Spaces at the start of a line are taken as they are, up to the room in the line.
LEMMA IndentIs ==
  ASSUME NEW s \in Text, NEW w \in AboutState, w.p \in 1..Len(s), s[w.p] = Space
  PROVE  \E q \in w.p + 1..Len(s) + 1 :
           /\ Indent(s, w) = At(q, w.lines, SubSeq(s, w.p, q - 1))
           /\ q - w.p <= AboutCap /\ q - w.p <= RunOf(s, w.p, {Space})
           /\ \A k \in w.p..q - 1 : s[k] = Space
<1> DEFINE n == Len(s)
           p == w.p
           r == RunOf(s, p, {Space})
           k == Least(r, AboutCap)
<1>1. n \in Nat /\ p \in Nat /\ p \in 1..n /\ p \in 1..n + 1 /\ AboutCap \in Nat \ {0}
  <2>1. n \in Nat /\ p \in 1..n
    BY LenProperties DEF Text
  <2>2. AboutCap \in Nat \ {0}
    BY WrapAssumption
  <2> HIDE DEF n, p
  <2> QED  BY <2>1, <2>2
<1>2. Indent(s, w) = At(p + k, w.lines, SubSeq(s, p, p + k - 1))
  BY DEF Indent
<1> HIDE DEF p, n
<1>3. /\ r \in Nat /\ p + r <= n + 1 /\ (\A i \in p..p + r - 1 : s[i] \in {Space})
      /\ p + r = n + 1 \/ s[p + r] \notin {Space}
  BY <1>1, RunIs DEF n
<1> HIDE DEF r
<1>4. r # 0
  BY <1>1, <1>3 DEF p
<1>5. k \in 1..r /\ k <= AboutCap
  BY <1>1, <1>3, <1>4 DEF Least
<1> HIDE DEF k
<1> DEFINE q == p + k
<1>6. q \in p + 1..n + 1 /\ q - p = k /\ q - p <= AboutCap /\ q - p <= r
  BY <1>1, <1>3, <1>5
<1>7. \A i \in p..q - 1 : s[i] = Space
  BY <1>1, <1>3, <1>5
<1>0. q - 1 = p + k - 1
  BY <1>1, <1>5
<1>8. Indent(s, w) = At(q, w.lines, SubSeq(s, p, q - 1))
  BY <1>0, <1>2
<1> HIDE DEF q
<1> QED  BY <1>6, <1>7, <1>8 DEF p, n, r

\* The word at p ends before q, and reading goes on at next, behind a space if there is one.
WordRead(s, p, q, next) ==
  /\ q \in p..Len(s) + 1 /\ next \in p + 1..Len(s) + 1
  /\ \A k \in p..q - 1 : s[k] \in Letters
  /\ q = Len(s) + 1 \/ s[q] \notin Letters
  /\ next = q \/ (next = q + 1 /\ q <= Len(s) /\ s[q] = Space)

\* What becomes of a word: it goes on the line, on a new line, or over lines of its own.
Placed(w, v, word, next) ==
  \/ /\ StrWidth(Candidate(w.cur, word)) <= MaxWidth
     /\ v = At(next, w.lines, Candidate(w.cur, word))
  \/ /\ ~(StrWidth(Candidate(w.cur, word)) <= MaxWidth) /\ w.cur # <<>>
     /\ v = At(next, Append(w.lines, w.cur), SubSeq(word, 1, Least(Len(word), AboutCap)))
  \/ /\ ~(StrWidth(Candidate(w.cur, word)) <= MaxWidth) /\ w.cur = <<>>
     /\ v = At(next, HardFrom(word, w.lines, AboutCap, AboutLines), <<>>)

\* A round that reads a word.
LEMMA WordIs ==
  ASSUME NEW s \in Text, NEW w \in AboutState, w.p \in 1..Len(s), s[w.p] # Break
  PROVE  \E q, next \in Nat :
           /\ WordRead(s, w.p, q, next)
           /\ SubSeq(s, w.p, q - 1) \in Text
           /\ Placed(w, Word(s, w), SubSeq(s, w.p, q - 1), next)
<1> DEFINE n == Len(s)
           p == w.p
           r == RunOf(s, p, Letters)
           q == p + r
           next == q + (IF q <= n /\ s[q] = Space THEN 1 ELSE 0)
           word == SubSeq(s, p, q - 1)
<1>1. n \in Nat /\ p \in Nat /\ p \in 1..n /\ p \in 1..n + 1 /\ s[p] \in Chars
  BY LenProperties, ElementOfSeq DEF Text
<1>2. /\ r \in Nat /\ p + r <= n + 1 /\ (\A i \in p..p + r - 1 : s[i] \in Letters)
      /\ p + r = n + 1 \/ s[p + r] \notin Letters
  <2> HIDE DEF p
  <2> QED  BY <1>1, RunIs
<1>0. q - 1 = p + r - 1
  <2>1. r \in Nat /\ p \in Nat
    BY <1>1, <1>2
  <2> HIDE DEF p, r
  <2> QED  BY <2>1
<1>3. Word(s, w) = LET cand == Candidate(w.cur, word)
                   IN  IF StrWidth(cand) <= MaxWidth THEN At(next, w.lines, cand)
                       ELSE IF w.cur # <<>>
                       THEN At(next, Append(w.lines, w.cur), SubSeq(word, 1, Least(r, AboutCap)))
                       ELSE At(next, HardFrom(word, w.lines, AboutCap, AboutLines), <<>>)
  BY <1>0 DEF Word
<1> HIDE DEF r
<1>4. q \in p..n + 1 /\ q - p = r /\ q \in Nat
  BY <1>1, <1>2
<1>5. word \in Text /\ Len(word) = r
  <2> HIDE DEF p, q
  <2> QED  BY <1>1, <1>4, PreIs
<1>6. r = 0 => s[q] = Space
  <2>1. ASSUME r = 0 PROVE s[p] = Space
    <3>1. p + r = p /\ p # n + 1
      BY <1>1, <2>1
    <3>2. s[p] \notin Letters
      BY <1>2, <3>1
    <3> QED  BY <1>1, <3>2 DEF Letters, Chars
  <2>2. r = 0 => q = p
    BY <1>1
  <2> QED  BY <2>1, <2>2
<1>7. next = q \/ (next = q + 1 /\ q <= n /\ s[q] = Space)
  BY <1>4
<1>8. next \in p + 1..n + 1 /\ next \in Nat
  <2>1. CASE r = 0
    <3>1. q <= n
      BY <1>1, <2>1
    <3>2. next = q + 1
      BY <1>6, <2>1, <3>1
    <3> HIDE DEF next, q
    <3> QED  BY <1>1, <1>4, <3>1, <3>2
  <2>2. CASE r # 0
    <3>1. q > p
      BY <1>1, <1>2, <2>2
    <3> QED  BY <1>1, <1>4, <1>7, <3>1
  <2> QED  BY <2>1, <2>2
<1>9. \A k \in p..q - 1 : s[k] \in Letters
  BY <1>2
<1>10. q = n + 1 \/ s[q] \notin Letters
  BY <1>2
<1> HIDE DEF next, q
<1>11. WordRead(s, p, q, next)
  BY <1>4, <1>7, <1>8, <1>9, <1>10 DEF WordRead
<1> HIDE DEF word
<1>12. Placed(w, Word(s, w), word, next)
  BY <1>3, <1>5 DEF Placed
<1> QED  BY <1>4, <1>5, <1>8, <1>11, <1>12 DEF word

\* One line more, while there is room for it, stays inside the array.
LEMMA LineMore ==
  ASSUME NEW ls \in Page, NEW l \in Text, Len(ls) < AboutLines,
         Short(ls, AboutCap), Len(l) <= AboutCap
  PROVE  /\ Append(ls, l) \in Page /\ Len(Append(ls, l)) <= AboutLines
         /\ Short(Append(ls, l), AboutCap)
<1> DEFINE t == Append(ls, l)
           n == Len(ls)
<1>1. /\ t \in Page /\ Len(t) = n + 1 /\ n \in Nat
      /\ \A k \in 1..n : t[k] = ls[k]
      /\ t[n + 1] = l
  BY AppendIs DEF Page
<1>2. AboutLines \in Nat /\ n < AboutLines
  BY WrapAssumption
<1>3. \A k \in 1..n : Len(ls[k]) <= AboutCap
  BY DEF Short
<1> HIDE DEF t, n
<1>4. ASSUME NEW k \in 1..n + 1 PROVE Len(t[k]) <= AboutCap
  <2>1. k \in 1..n \/ k = n + 1
    BY <1>1
  <2> QED  BY <1>1, <1>3, <2>1
<1>5. Len(t) <= AboutLines
  BY <1>1, <1>2
<1> QED  BY <1>1, <1>4, <1>5 DEF t, Short

\* The loop is at its end: nothing is left, or no line.
Finished(s, w) == w.p > Len(s) \/ Len(w.lines) >= AboutLines

\* The position is in the text, the lines in their array, and each line in its buffer.
Boxed(s, w) ==
  /\ w \in AboutState /\ w.p \in 1..Len(s) + 1
  /\ Len(w.lines) <= AboutLines /\ Short(w.lines, AboutCap) /\ Len(w.cur) <= AboutCap

\* A state that At makes is boxed.
LEMMA AtBoxed ==
  ASSUME NEW s \in Text, NEW p \in 1..Len(s) + 1, NEW ls \in Page, NEW cur \in Text,
         Len(ls) <= AboutLines, Short(ls, AboutCap), Len(cur) <= AboutCap
  PROVE  Boxed(s, At(p, ls, cur)) /\ At(p, ls, cur).p = p
<1>1. p \in Nat
  OBVIOUS
<1> QED  BY <1>1, AtIs DEF Boxed

\* No round leaves the array or a buffer, and each but the last gets on in the text.
LEMMA RoundBoxed ==
  ASSUME NEW s \in Text, NEW w, Boxed(s, w)
  PROVE  /\ Boxed(s, AboutRound(s, w))
         /\ Finished(s, w) => AboutRound(s, w) = w
         /\ ~Finished(s, w) => AboutRound(s, w).p > w.p
<1>1. /\ w \in AboutState /\ w.p \in 1..Len(s) + 1 /\ w.p \in Nat /\ w.lines \in Page
      /\ w.cur \in Text /\ Len(w.lines) <= AboutLines /\ Short(w.lines, AboutCap)
      /\ Len(w.cur) <= AboutCap /\ Len(s) \in Nat /\ Len(w.lines) \in Nat
      /\ AboutLines \in Nat /\ AboutCap \in Nat \ {0}
  BY WrapAssumption, LenProperties DEF Boxed, AboutState, Text, Page
<1>2. <<>> \in Text /\ Len(<<>>) = 0 /\ 0 <= AboutCap
  BY <1>1, EmptySeq DEF Text
<1>3. CASE Finished(s, w)
  <2>1. AboutRound(s, w) = w
    BY <1>3 DEF Finished, AboutRound
  <2> QED  BY <1>3, <2>1
<1>4. CASE ~Finished(s, w)
  <2>1. ~(w.p > Len(s) \/ Len(w.lines) >= AboutLines)
    BY <1>4 DEF Finished
  <2>2. w.p \in 1..Len(s) /\ Len(w.lines) < AboutLines
    BY <1>1, <2>1
  <2> DEFINE v == AboutRound(s, w)
  <2>3. Boxed(s, v) /\ v.p > w.p
    <3>1. CASE s[w.p] = Break
      <4>1. v = At(w.p + 1, Append(w.lines, w.cur), <<>>)
        BY <2>1, <3>1 DEF AboutRound
      <4>2. w.p + 1 \in 1..Len(s) + 1 /\ w.p + 1 > w.p
        BY <1>1, <2>2
      <4> HIDE DEF v
      <4> DEFINE ls == Append(w.lines, w.cur)
      <4>3. ls \in Page /\ Len(ls) <= AboutLines /\ Short(ls, AboutCap)
        BY <1>1, <2>2, LineMore
      <4> HIDE DEF ls
      <4>4. v = At(w.p + 1, ls, <<>>)
        BY <4>1 DEF ls
      <4>5. Boxed(s, At(w.p + 1, ls, <<>>)) /\ At(w.p + 1, ls, <<>>).p = w.p + 1
        BY <1>2, <4>2, <4>3, AtBoxed
      <4> QED  BY <4>2, <4>4, <4>5
    <3>2. CASE s[w.p] # Break /\ w.cur = <<>> /\ s[w.p] = Space
      <4>1. v = Indent(s, w)
        BY <2>1, <3>2 DEF AboutRound
      <4> HIDE DEF v
      <4>2. PICK q \in w.p + 1..Len(s) + 1 :
              v = At(q, w.lines, SubSeq(s, w.p, q - 1)) /\ q - w.p <= AboutCap
        BY <1>1, <2>2, <3>2, <4>1, IndentIs
      <4>3. q \in 1..Len(s) + 1 /\ q > w.p /\ q \in w.p..Len(s) + 1
        BY <1>1, <2>2
      <4>4. SubSeq(s, w.p, q - 1) \in Text /\ Len(SubSeq(s, w.p, q - 1)) = q - w.p
        BY <1>1, <4>3, PreIs
      <4> DEFINE t == SubSeq(s, w.p, q - 1)
      <4>5. t \in Text /\ Len(t) <= AboutCap /\ v = At(q, w.lines, t)
        BY <4>2, <4>4
      <4> HIDE DEF t
      <4>6. Boxed(s, At(q, w.lines, t)) /\ At(q, w.lines, t).p = q
        BY <1>1, <4>3, <4>5, AtBoxed
      <4> QED  BY <4>3, <4>5, <4>6
    <3>3. CASE s[w.p] # Break /\ ~(w.cur = <<>> /\ s[w.p] = Space)
      <4>1. v = Word(s, w)
        BY <2>1, <3>3 DEF AboutRound
      <4> HIDE DEF v
      <4>2. PICK q \in Nat, next \in Nat :
              /\ WordRead(s, w.p, q, next) /\ SubSeq(s, w.p, q - 1) \in Text
              /\ Placed(w, v, SubSeq(s, w.p, q - 1), next)
        BY <1>1, <2>2, <3>3, <4>1, WordIs
      <4> DEFINE word == SubSeq(s, w.p, q - 1)
                 cand == Candidate(w.cur, word)
                 cut == SubSeq(word, 1, Least(Len(word), AboutCap))
                 ls == Append(w.lines, w.cur)
                 hs == HardFrom(word, w.lines, AboutCap, AboutLines)
      <4>3. next \in 1..Len(s) + 1 /\ next > w.p
        BY <1>1, <2>2, <4>2 DEF WordRead
      <4>4. word \in Text /\ Placed(w, v, word, next)
        BY <4>2
      <4> HIDE DEF word
      <4>5. cand \in Text /\ Len(cand) <= AboutCap
        BY <1>1, <4>4, CandidateIs
      <4>6. cut \in Text /\ Len(cut) <= AboutCap
        BY <4>4, CutToFit
      <4>7. ls \in Page /\ Len(ls) <= AboutLines /\ Short(ls, AboutCap)
        BY <1>1, <2>2, LineMore
      <4>8. hs \in Page /\ Len(hs) <= AboutLines /\ Short(hs, AboutCap)
        BY <1>1, <4>4, HardStaysInside
      <4>9. v = At(next, w.lines, cand) \/ v = At(next, ls, cut) \/ v = At(next, hs, <<>>)
        BY <4>4 DEF Placed
      <4> HIDE DEF cand, cut, ls, hs
      <4>10. CASE v = At(next, w.lines, cand)
        BY <1>1, <4>3, <4>5, <4>10, AtBoxed
      <4>11. CASE v = At(next, ls, cut)
        BY <4>3, <4>6, <4>7, <4>11, AtBoxed
      <4>12. CASE v = At(next, hs, <<>>)
        BY <1>2, <4>3, <4>8, <4>12, AtBoxed
      <4> QED  BY <4>9, <4>10, <4>11, <4>12
    <3> QED  BY <3>1, <3>2, <3>3
  <2> QED  BY <1>4, <2>3
<1> QED  BY <1>3, <1>4

(***************************************************************************)
(* What about_wrap keeps of an ordinary text.                              *)
(***************************************************************************)

\* Every line fits the width.
Narrow(ls) == \A k \in 1..Len(ls) : StrWidth(ls[k]) <= MaxWidth

\* The lines and the one that is being made fit, and have the words of what was read.
Kept(s, w) ==
  /\ Narrow(w.lines) /\ StrWidth(w.cur) <= MaxWidth
  /\ Words(Below(w.lines)) \o Words(w.cur) = Words(Pre(s, w.p))
  /\ Between(s, w.p)

\* A line more that fits.
LEMMA NarrowMore ==
  ASSUME NEW ls \in Page, NEW l \in Text, Narrow(ls), StrWidth(l) <= MaxWidth
  PROVE  Narrow(Append(ls, l))
<1> DEFINE t == Append(ls, l)
           n == Len(ls)
<1>1. /\ Len(t) = n + 1 /\ n \in Nat /\ (\A k \in 1..n : t[k] = ls[k]) /\ t[n + 1] = l
  BY AppendIs DEF Page
<1>2. \A k \in 1..n : StrWidth(ls[k]) <= MaxWidth
  BY DEF Narrow
<1> HIDE DEF t, n
<1>3. ASSUME NEW k \in 1..n + 1 PROVE StrWidth(t[k]) <= MaxWidth
  <2>1. k \in 1..n \/ k = n + 1
    BY <1>1
  <2> QED  BY <1>1, <1>2, <2>1
<1> QED  BY <1>1, <1>3 DEF t, Narrow

\* Every text has a page of words.
LEMMA WordsType ==
  \A s \in Text : Words(s) \in Page
<1>1. Space \in Chars
  BY WrapAssumption
<1> QED  BY <1>1, WordsIs

\* Nothing after a page.
LEMMA NothingAfter ==
  ASSUME NEW a \in Page
  PROVE  a \o <<>> = a
<1>1. a \in Seq(Text)
  BY DEF Page
<1> QED  BY <1>1, ConcatEmptySeq

\* Three pages after each other.
LEMMA PagesAssociate ==
  ASSUME NEW a \in Page, NEW b \in Page, NEW c \in Page
  PROVE  (a \o b) \o c = a \o (b \o c)
<1>1. a \in Seq(Text) /\ b \in Seq(Text) /\ c \in Seq(Text)
  BY DEF Page
<1> QED  BY <1>1, ConcatAssociative

\* A line break ends the line.
LEMMA BreakKeeps ==
  ASSUME NEW s \in Text, NEW w, Boxed(s, w), Kept(s, w), w.p \in 1..Len(s), s[w.p] = Break
  PROVE  Kept(s, At(w.p + 1, Append(w.lines, w.cur), <<>>))
<1> DEFINE p == w.p
           ls == w.lines
           cur == w.cur
           t == SubSeq(s, p, (p + 1) - 1)
           all == Append(ls, cur)
<1>1. /\ p \in 1..Len(s) /\ p \in 1..Len(s) + 1 /\ p + 1 \in p..Len(s) + 1 /\ p \in Nat
      /\ Len(s) \in Nat /\ (p + 1) - p = 1 /\ (p + 1) - 1 = p /\ p + 1 - 1 = p
  <2>1. Len(s) \in Nat
    BY LenProperties DEF Text
  <2> QED  BY <2>1
<1>2. ls \in Page /\ cur \in Text /\ <<>> \in Text /\ Break \notin Letters
  BY EmptySeq DEF Boxed, AboutState, Text, Letters
<1>3. /\ Narrow(ls) /\ StrWidth(cur) <= MaxWidth /\ Between(s, p)
      /\ Words(Below(ls)) \o Words(cur) = Words(Pre(s, p))
  BY DEF Kept
<1>4. s[p] = Break
  OBVIOUS
<1> HIDE DEF p, ls, cur
<1>5. t \in Text /\ Len(t) = (p + 1) - p /\ \A i \in 1..(p + 1) - p : t[i] = s[p + i - 1]
  BY <1>1, PreIs
<1>6. Words(Pre(s, p + 1)) = Words(Pre(s, p)) \o Words(t)
  BY <1>1, <1>3, WordsAhead
<1> HIDE DEF t
<1>7. Words(t) = <<>>
  <2>1. Len(t) = 1 /\ t[1] = Break
    BY <1>1, <1>4, <1>5
  <2> QED  BY <1>2, <1>5, <2>1, WordsOfOthers
<1>8. Words(Below(all)) = Words(Below(ls)) \o Words(cur)
  BY <1>2, WordsBelow
<1>9. all \in Page /\ Narrow(all)
  <2>1. all \in Page
    BY <1>2, AppendIs DEF Page
  <2> QED  BY <1>2, <1>3, <2>1, NarrowMore
<1> HIDE DEF all
<1>10. Below(all) \in Text /\ Pre(s, p) \in Text
  BY <1>1, <1>2, <1>9, BelowIs, PreIs
<1>11. Words(Below(all)) \o Words(<<>>) = Words(Pre(s, p + 1))
  <2>1. Words(Below(all)) \o <<>> = Words(Below(all))
    BY <1>10, WordsType, NothingAfter
  <2>2. Words(Pre(s, p)) \o <<>> = Words(Pre(s, p))
    BY <1>10, WordsType, NothingAfter
  <2> QED  BY <1>3, <1>6, <1>7, <1>8, <2>1, <2>2, WordsIs
<1>12. Between(s, p + 1)
  BY <1>1, <1>2, <1>4 DEF Between
<1>13. StrWidth(<<>>) <= MaxWidth
  BY WidthIs, WrapAssumption
<1> DEFINE v == At(p + 1, all, <<>>)
<1>14. v.p = p + 1 /\ v.lines = all /\ v.cur = <<>>
  BY <1>1, <1>2, <1>9, AtIs
<1> HIDE DEF v
<1>15. Kept(s, v)
  BY <1>9, <1>11, <1>12, <1>13, <1>14 DEF Kept
<1> QED  BY <1>15 DEF v, all, ls, cur, p

\* An indent is no word, and fits the width in an ordinary text.
LEMMA IndentKeeps ==
  ASSUME NEW s \in Text, NEW w, Ordinary(s), Boxed(s, w), Kept(s, w), w.p \in 1..Len(s),
         s[w.p] = Space, w.cur = <<>>
  PROVE  Kept(s, Indent(s, w))
<1> DEFINE p == w.p
           ls == w.lines
<1>1. p \in 1..Len(s) /\ p \in 1..Len(s) + 1 /\ p \in Nat /\ Len(s) \in Nat
  <2>1. Len(s) \in Nat
    BY LenProperties DEF Text
  <2> QED  BY <2>1
<1>2. ls \in Page /\ w \in AboutState /\ Space \notin Letters
  BY DEF Boxed, AboutState, Letters
<1>3. /\ Narrow(ls) /\ Between(s, p) /\ Words(Below(ls)) \o Words(<<>>) = Words(Pre(s, p))
  BY DEF Kept
<1>4. PICK q \in p + 1..Len(s) + 1 :
        /\ Indent(s, w) = At(q, ls, SubSeq(s, p, q - 1))
        /\ q - p <= RunOf(s, p, {Space})
        /\ \A k \in p..q - 1 : s[k] = Space
  BY <1>1, <1>2, IndentIs
<1> DEFINE t == SubSeq(s, p, q - 1)
           r == RunOf(s, p, {Space})
<1>5. r \in Nat /\ r * Width[Space] <= MaxWidth
  <2>1. p \in DOMAIN s
    BY <1>1, LenProperties DEF Text
  <2>2. r * Width[Space] <= MaxWidth
    BY <2>1 DEF Ordinary
  <2> HIDE DEF p
  <2>3. r \in Nat
    BY <1>1, RunIs
  <2> QED  BY <2>2, <2>3
<1> HIDE DEF p, ls
<1>6. q \in p..Len(s) + 1 /\ q - p \in Nat /\ q \in Nat
  BY <1>1
<1>7. /\ t \in Text /\ Len(t) = q - p /\ (\A i \in 1..q - p : t[i] = s[p + i - 1])
      /\ Pre(s, p) \in Text
  BY <1>1, <1>6, PreIs
<1>8. Words(Pre(s, q)) = Words(Pre(s, p)) \o Words(t)
  BY <1>1, <1>3, <1>6, WordsAhead
<1>9. q - p <= r
  BY <1>4
<1> HIDE DEF t, r
<1>10. \A i \in 1..Len(t) : t[i] = Space
  <2>1. ASSUME NEW i \in 1..Len(t) PROVE t[i] = Space
    <3>1. i \in 1..q - p /\ p + i - 1 \in p..q - 1
      BY <1>1, <1>6, <1>7
    <3> QED  BY <1>4, <1>7, <3>1
  <2> QED  BY <2>1
<1>11. Words(t) = <<>>
  BY <1>2, <1>7, <1>10, WordsOfOthers
<1>12. StrWidth(t) <= MaxWidth
  <2> DEFINE x == Width[Space]
             d == q - p
  <2>1. StrWidth(t) = d * x
    BY <1>7, <1>10, WidthOfSpaces
  <2>2. x \in Nat /\ MaxWidth \in Nat /\ d \in Nat /\ d <= r /\ r * x <= MaxWidth
    BY <1>5, <1>6, <1>9, WrapAssumption DEF Chars
  <2> HIDE DEF x, d
  <2>3. d * x <= r * x /\ d * x \in Nat /\ r * x \in Nat
    <3>1. r - d \in Nat
      BY <1>5, <2>2
    <3>2. (r - d) * x \in Nat /\ r * x = (d * x) + ((r - d) * x)
      BY <1>5, <2>2, <3>1
    <3>3. d * x \in Nat
      BY <2>2
    <3> QED  BY <3>2, <3>3
  <2> QED  BY <2>1, <2>2, <2>3
<1>13. Words(Below(ls)) \o Words(t) = Words(Pre(s, q))
  <2>1. Words(Pre(s, p)) \o <<>> = Words(Pre(s, p))
    BY <1>7, WordsType, NothingAfter
  <2> QED  BY <1>3, <1>8, <1>11, <2>1, WordsIs
<1>14. Between(s, q)
  <2>1. q - 1 \in p..q - 1
    BY <1>1, <1>6
  <2> QED  BY <1>2, <1>4, <2>1 DEF Between
<1> DEFINE v == At(q, ls, t)
<1>15. v.p = q /\ v.lines = ls /\ v.cur = t
  BY <1>2, <1>6, <1>7, AtIs
<1>16. Indent(s, w) = v
  BY <1>4 DEF t
<1> HIDE DEF v
<1>17. Kept(s, v)
  BY <1>3, <1>12, <1>13, <1>14, <1>15 DEF Kept
<1> QED  BY <1>16, <1>17

\* A word stays whole: it goes on the line or on the next one.
LEMMA WordKeeps ==
  ASSUME NEW s \in Text, NEW w, Ordinary(s), Boxed(s, w), Kept(s, w), w.p \in 1..Len(s),
         s[w.p] # Break, Len(w.lines) < AboutLines
  PROVE  Kept(s, Word(s, w))
<1> DEFINE p == w.p
           ls == w.lines
           cur == w.cur
           v == Word(s, w)
<1>1. p \in 1..Len(s) /\ p \in 1..Len(s) + 1 /\ p \in Nat /\ Len(s) \in Nat
  <2>1. Len(s) \in Nat
    BY LenProperties DEF Text
  <2> QED  BY <2>1
<1>2. ls \in Page /\ cur \in Text /\ w \in AboutState /\ Space \notin Letters
  BY DEF Boxed, AboutState, Letters
<1>3. /\ Narrow(ls) /\ StrWidth(cur) <= MaxWidth /\ Between(s, p)
      /\ Words(Below(ls)) \o Words(cur) = Words(Pre(s, p))
  BY DEF Kept
<1>4. PICK q \in Nat, next \in Nat :
        /\ WordRead(s, p, q, next) /\ SubSeq(s, p, q - 1) \in Text
        /\ Placed(w, v, SubSeq(s, p, q - 1), next)
  BY <1>1, <1>2, WordIs
<1> DEFINE word == SubSeq(s, p, q - 1)
           cand == Candidate(cur, word)
           cut == SubSeq(word, 1, Least(Len(word), AboutCap))
           all == Append(ls, cur)
<1>5. word \in Text /\ Placed(w, v, word, next)
  BY <1>4
<1>6. /\ q \in p..Len(s) + 1 /\ next \in p + 1..Len(s) + 1
      /\ \A k \in p..q - 1 : s[k] \in Letters
      /\ q = Len(s) + 1 \/ s[q] \notin Letters
      /\ next = q \/ (next = q + 1 /\ q <= Len(s) /\ s[q] = Space)
  BY <1>4 DEF WordRead
<1> HIDE DEF p, v
<1>7. Between(s, q) /\ Between(s, next) /\ q \in 1..Len(s) + 1 /\ next \in q..Len(s) + 1
  <2>1. q \in 1..Len(s) + 1 /\ next \in q..Len(s) + 1 /\ (q + 1) - 1 = q
    BY <1>1, <1>4, <1>6
  <2>2. Between(s, q)
    BY <1>6 DEF Between
  <2>3. Between(s, next)
    BY <1>2, <1>6, <2>1, <2>2 DEF Between
  <2> QED  BY <2>1, <2>2, <2>3
<1>8. Pre(s, p) \in Text /\ Words(Pre(s, q)) = Words(Pre(s, p)) \o Words(word)
  <2>1. Pre(s, p) \in Text
    BY <1>1, <1>6, PreIs
  <2>2. Words(Pre(s, q)) = Words(Pre(s, p)) \o Words(word)
    BY <1>1, <1>3, <1>6, WordsAhead
  <2> QED  BY <2>1, <2>2
<1>9. Words(Pre(s, next)) = Words(Pre(s, q))
  <2>1. CASE next = q
    BY <2>1
  <2>2. CASE next = q + 1 /\ s[q] = Space
    <3> DEFINE gap == SubSeq(s, q, next - 1)
    <3>1. /\ gap \in Text /\ Len(gap) = next - q
          /\ (\A i \in 1..next - q : gap[i] = s[q + i - 1]) /\ Pre(s, q) \in Text
      BY <1>7, PreIs
    <3>2. Words(Pre(s, next)) = Words(Pre(s, q)) \o Words(gap)
      BY <1>7, WordsAhead
    <3> HIDE DEF gap
    <3>3. Len(gap) = 1 /\ gap[1] = Space
      <4>1. next - q = 1 /\ q + 1 - 1 = q /\ 1 \in 1..next - q
        BY <1>4, <2>2
      <4> QED  BY <2>2, <3>1, <4>1
    <3>4. Words(gap) = <<>>
      <4>1. \A i \in 1..Len(gap) : gap[i] \notin Letters
        BY <1>2, <3>3
      <4> QED  BY <3>1, <4>1, WordsOfOthers
    <3> QED  BY <3>1, <3>2, <3>4, WordsType, NothingAfter
  <2> QED  BY <1>6, <2>1, <2>2
<1>10. StrWidth(word) <= MaxWidth
  <2>1. CASE q = p
    <3>1. Len(word) = q - p
      BY <1>1, <1>6, PreIs
    <3>2. Len(word) = 0
      BY <1>1, <2>1, <3>1
    <3> HIDE DEF word
    <3>3. word = <<>>
      BY <1>5, <3>2, EmptySeq DEF Text
    <3> QED  BY <3>3, WidthIs, WrapAssumption
  <2>2. CASE q # p
    <3>1. p < q
      BY <1>1, <1>6, <2>2
    <3>2. \E k \in DOMAIN Words(s) : Words(s)[k] = word
      BY <1>1, <1>3, <1>6, <1>7, <3>1, WordOfText
    <3> HIDE DEF word
    <3>3. PICK k \in DOMAIN Words(s) : Words(s)[k] = word
      BY <3>2
    <3>4. StrWidth(Words(s)[k]) <= MaxWidth
      BY DEF Ordinary
    <3> QED  BY <3>3, <3>4
  <2> QED  BY <2>1, <2>2
<1> HIDE DEF word
<1>11. /\ cand \in Text
       /\ cur = <<>> => cand = word
       /\ StrWidth(cand) <= MaxWidth => Words(cand) = Words(cur) \o Words(word)
  BY <1>2, <1>3, <1>5, <1>10, CandidateIs
<1>12. cut = word
  <2>1. Len(word) < AboutCap
    BY <1>5, <1>10, FittingIsShort
  <2> QED  BY <1>5, <2>1, CutToFit
<1>13. Words(Below(all)) = Words(Below(ls)) \o Words(cur)
  BY <1>2, WordsBelow
<1>14. all \in Page /\ Narrow(all)
  <2>1. all \in Page
    BY <1>2, AppendIs DEF Page
  <2> QED  BY <1>2, <1>3, <2>1, NarrowMore
<1>15. Words(Pre(s, next)) = (Words(Below(ls)) \o Words(cur)) \o Words(word)
  BY <1>3, <1>8, <1>9
<1>16. \/ StrWidth(cand) <= MaxWidth /\ v = At(next, ls, cand)
       \/ ~(StrWidth(cand) <= MaxWidth) /\ cur # <<>> /\ v = At(next, all, cut)
       \/ ~(StrWidth(cand) <= MaxWidth) /\ cur = <<>>
  BY <1>5 DEF Placed
<1> HIDE DEF ls, cur, cand, cut, all
<1>17. CASE StrWidth(cand) <= MaxWidth /\ v = At(next, ls, cand)
  <2>1. v.p = next /\ v.lines = ls /\ v.cur = cand
    BY <1>2, <1>4, <1>11, <1>17, AtIs
  <2>2. Words(Below(ls)) \in Page /\ Words(cur) \in Page /\ Words(word) \in Page
    BY <1>2, <1>5, BelowIs, WordsType
  <2>3. Words(Below(ls)) \o Words(cand) = Words(Pre(s, next))
    <3> DEFINE a == Words(Below(ls))
               b == Words(cur)
               c == Words(word)
    <3>1. a \in Page /\ b \in Page /\ c \in Page
      BY <2>2
    <3>2. Words(cand) = b \o c /\ Words(Pre(s, next)) = (a \o b) \o c
      BY <1>11, <1>15, <1>17
    <3> HIDE DEF a, b, c
    <3>3. (a \o b) \o c = a \o (b \o c)
      BY <3>1, PagesAssociate
    <3>4. a \o Words(cand) = Words(Pre(s, next))
      BY <3>2, <3>3
    <3> QED  BY <3>4 DEF a
  <2>4. Kept(s, v)
    BY <1>3, <1>7, <1>17, <2>1, <2>3 DEF Kept
  <2> QED  BY <2>4 DEF v
<1>18. CASE v = At(next, all, cut)
  <2>1. v.p = next /\ v.lines = all /\ v.cur = word
    BY <1>4, <1>5, <1>12, <1>14, <1>18, AtIs
  <2>2. Words(Below(all)) \o Words(word) = Words(Pre(s, next))
    BY <1>13, <1>15
  <2>3. Kept(s, v)
    BY <1>7, <1>10, <1>14, <2>1, <2>2 DEF Kept
  <2> QED  BY <2>3 DEF v
<1>19. CASE ~(StrWidth(cand) <= MaxWidth) /\ cur = <<>>
  BY <1>10, <1>11, <1>19
<1> QED  BY <1>16, <1>17, <1>18, <1>19

\* So each round keeps the words.
LEMMA RoundKeeps ==
  ASSUME NEW s \in Text, NEW w, Ordinary(s), Boxed(s, w), Kept(s, w)
  PROVE  Kept(s, AboutRound(s, w))
<1>1. w.p \in 1..Len(s) + 1 /\ Len(s) \in Nat /\ Len(w.lines) \in Nat /\ AboutLines \in Nat
  BY WrapAssumption, LenProperties DEF Boxed, AboutState, Text, Page
<1>2. CASE w.p > Len(s) \/ Len(w.lines) >= AboutLines
  BY <1>2 DEF AboutRound
<1>3. CASE ~(w.p > Len(s) \/ Len(w.lines) >= AboutLines)
  <2>1. w.p \in 1..Len(s) /\ Len(w.lines) < AboutLines
    BY <1>1, <1>3
  <2>2. CASE s[w.p] = Break
    <3>1. AboutRound(s, w) = At(w.p + 1, Append(w.lines, w.cur), <<>>)
      BY <1>3, <2>2 DEF AboutRound
    <3> QED  BY <2>1, <2>2, <3>1, BreakKeeps
  <2>3. CASE s[w.p] # Break /\ w.cur = <<>> /\ s[w.p] = Space
    <3>1. AboutRound(s, w) = Indent(s, w)
      BY <1>3, <2>3 DEF AboutRound
    <3> QED  BY <2>1, <2>3, <3>1, IndentKeeps
  <2>4. CASE s[w.p] # Break /\ ~(w.cur = <<>> /\ s[w.p] = Space)
    <3>1. AboutRound(s, w) = Word(s, w)
      BY <1>3, <2>4 DEF AboutRound
    <3> QED  BY <2>1, <2>4, <3>1, WordKeeps
  <2> QED  BY <2>2, <2>3, <2>4
<1> QED  BY <1>2, <1>3

(***************************************************************************)
(* about_wrap.                                                             *)
(***************************************************************************)

\* The states w of the loop.
AboutRun(w, s) ==
  /\ w \in [0..Len(s) -> {v \in AboutState : Boxed(s, v)}] /\ w[0] = At(1, <<>>, <<>>)
  /\ \A k \in 1..Len(s) : w[k] = AboutRound(s, w[k - 1])
  /\ AboutLoop(s) = w[Len(s)]

\* Where the loop starts.
LEMMA AboutStarts ==
  ASSUME NEW s \in Text
  PROVE  Boxed(s, At(1, <<>>, <<>>)) /\ Kept(s, At(1, <<>>, <<>>))
<1>1. /\ <<>> \in Page /\ <<>> \in Text /\ Len(<<>>) = 0 /\ Len(s) \in Nat
      /\ AboutLines \in Nat /\ AboutCap \in Nat /\ MaxWidth \in Nat
  BY EmptySeq, LenProperties, WrapAssumption DEF Text, Page
<1>2. 1 \in 1..Len(s) + 1 /\ Short(<<>>, AboutCap) /\ Narrow(<<>>)
  BY <1>1 DEF Short, Narrow
<1>3. Boxed(s, At(1, <<>>, <<>>))
  BY <1>1, <1>2, AtBoxed
<1> DEFINE v == At(1, <<>>, <<>>)
<1>4. v.p = 1 /\ v.lines = <<>> /\ v.cur = <<>>
  BY <1>1, AtIs
<1> HIDE DEF v
<1>5. StrWidth(<<>>) <= MaxWidth
  BY <1>1, WidthIs
<1>6. Words(Below(<<>>)) \o Words(<<>>) = Words(Pre(s, 1))
  <2>1. Pre(s, 1) = <<>>
    BY <1>2, PreIs
  <2>2. Words(<<>>) \o <<>> = Words(<<>>)
    BY <1>1, WordsType, NothingAfter
  <2> QED  BY <2>1, <2>2, BelowIs, WordsIs
<1>7. Kept(s, v)
  BY <1>2, <1>4, <1>5, <1>6 DEF Kept, Between
<1> QED  BY <1>3, <1>7 DEF v

\* The loop has such states.
LEMMA AboutLoopRuns ==
  ASSUME NEW s \in Text
  PROVE  \E w : AboutRun(w, s)
<1> DEFINE n == Len(s)
           S == {v \in AboutState : Boxed(s, v)}
           base == At(1, <<>>, <<>>)
           step == [q \in S \X (1..n) |-> AboutRound(s, q[1])]
           Loop(f) == f = [k \in 0..n |-> IF k = 0 THEN base ELSE AboutRound(s, f[k - 1])]
           g == CHOOSE f : Loop(f)
<1>1. n \in Nat /\ base \in S
  <2>1. Boxed(s, base)
    BY AboutStarts
  <2> QED  BY <2>1, LenProperties DEF Text, Boxed
<1>2. step \in [S \X (1..n) -> S]
  <2>1. \A v \in S : AboutRound(s, v) \in S
    <3>1. ASSUME NEW v \in S PROVE AboutRound(s, v) \in S
      <4>1. Boxed(s, AboutRound(s, v))
        BY <3>1, RoundBoxed
      <4> QED  BY <4>1 DEF Boxed
    <3> QED  BY <3>1
  <2> QED  BY <2>1
<1>3. \A v \in S, k \in 1..n : step[<<v, k>>] = AboutRound(s, v)
  OBVIOUS
<1>4. AboutLoop(s) = g[n]
  BY DEF AboutLoop
<1> HIDE DEF step, n, S, base
<1>5. PICK f : Recursive(f, S, base, n, step)
  BY <1>1, <1>2, RecursionExists
<1>6. /\ f \in [0..n -> S]
      /\ f = [k \in 0..n |-> IF k = 0 THEN base ELSE step[<<f[k - 1], k>>]]
  BY <1>5 DEF Recursive
<1>7. ASSUME NEW k \in 0..n, k # 0
      PROVE  k \in 1..n /\ f[k - 1] \in S /\ step[<<f[k - 1], k>>] = AboutRound(s, f[k - 1])
  <2>1. k \in 1..n /\ k - 1 \in 0..n
    BY <1>1, <1>7
  <2> QED  BY <1>3, <1>6, <2>1
<1>8. Loop(f)
  BY <1>6, <1>7
<1>9. Loop(g)
  BY <1>8
<1> HIDE DEF g
<1>10. f[0] = g[0] /\ f[0] = base
  BY <1>1, <1>8, <1>9
<1>11. ASSUME NEW k \in 1..n
       PROVE  f[k] = AboutRound(s, f[k - 1]) /\ g[k] = AboutRound(s, g[k - 1])
  <2>1. k \in 0..n /\ k # 0
    BY <1>1
  <2> QED  BY <1>8, <1>9, <2>1
<1>12. Alike(f, g, n)
  BY <1>1, <1>10, <1>11, StepsAgree
<1>13. f[n] = g[n]
  BY <1>1, <1>12 DEF Alike
<1> QED  BY <1>4, <1>6, <1>10, <1>11, <1>13 DEF n, S, base, AboutRun

\* At the end the text is read or the lines are used up; nothing got outside, and of an
\* ordinary text nothing got lost.
LEMMA AboutEnds ==
  ASSUME NEW s \in Text
  PROVE  /\ Boxed(s, AboutLoop(s)) /\ Finished(s, AboutLoop(s))
         /\ Ordinary(s) => Kept(s, AboutLoop(s))
<1> DEFINE n == Len(s)
           Holds(k, v) == /\ Boxed(s, v) /\ (Ordinary(s) => Kept(s, v))
                          /\ Finished(s, v) \/ v.p >= k + 1
           T == {q \in (0..n) \X AboutState : Holds(q[1], q[2])}
<1>1. n \in Nat
  BY LenProperties DEF Text
<1>0. PICK w : AboutRun(w, s)
  BY AboutLoopRuns
<1>2. /\ w \in [0..n -> {v \in AboutState : Boxed(s, v)}] /\ w[0] = At(1, <<>>, <<>>)
      /\ \A k \in 1..n : w[k] = AboutRound(s, w[k - 1])
      /\ AboutLoop(s) = w[n]
  BY <1>0 DEF AboutRun
<1> DEFINE x == [k \in 0..n |-> <<k, w[k]>>]
<1>3. x[0] \in T
  <2>1. w[0] \in AboutState /\ Boxed(s, w[0]) /\ Kept(s, w[0]) /\ 0 \in 0..n
    BY <1>1, <1>2, AboutStarts
  <2>2. w[0].p >= 0 + 1
    BY <2>1 DEF Boxed
  <2> QED  BY <2>1, <2>2
<1>4. ASSUME NEW k \in 0..n - 1, x[k] \in T PROVE x[k + 1] \in T
  <2> DEFINE u == w[k]
             v == w[k + 1]
  <2>1. k + 1 \in 1..n /\ k + 1 \in 0..n /\ (k + 1) - 1 = k /\ k \in 0..n /\ k \in Nat
    BY <1>1
  <2>2. v = AboutRound(s, u) /\ v \in AboutState
    BY <1>2, <2>1
  <2>3. Holds(k, u)
    BY <1>4, <2>1
  <2> HIDE DEF u, v
  <2>4. /\ Boxed(s, v) /\ (Finished(s, u) => v = u) /\ (~Finished(s, u) => v.p > u.p)
    BY <2>2, <2>3, RoundBoxed
  <2>5. Ordinary(s) => Kept(s, v)
    BY <2>2, <2>3, RoundKeeps
  <2>6. Finished(s, v) \/ v.p >= (k + 1) + 1
    <3>1. CASE Finished(s, u)
      BY <2>4, <3>1
    <3>2. CASE ~Finished(s, u)
      <4>1. u.p \in Nat /\ v.p \in Nat
        BY <2>3, <2>4 DEF Boxed, AboutState
      <4>2. v.p > u.p /\ u.p >= k + 1
        BY <2>3, <2>4, <3>2
      <4> QED  BY <2>1, <4>1, <4>2
    <3> QED  BY <3>1, <3>2
  <2>7. x[k + 1] = <<k + 1, v>>
    BY <2>1 DEF v
  <2>8. Holds(k + 1, v)
    BY <2>4, <2>5, <2>6
  <2> QED  BY <2>1, <2>2, <2>7, <2>8
<1>5. n \in 0..n /\ x[n] = <<n, w[n]>>
  BY <1>1
<1> HIDE DEF T, x
<1>6. x[n] \in T
  BY <1>1, <1>3, <1>4, HardRounds
<1>7. Holds(n, w[n])
  BY <1>5, <1>6 DEF T
<1>8. Finished(s, w[n])
  <2>1. w[n].p >= n + 1 => w[n].p > n
    <3>1. w[n].p \in Nat
      BY <1>7 DEF Boxed, AboutState
    <3> QED  BY <1>1, <3>1
  <2> QED  BY <1>7, <2>1 DEF Finished
<1> QED  BY <1>2, <1>7, <1>8

\* What about_wrap makes of a text.
LEMMA AboutWraps ==
  ASSUME NEW s \in Text
  PROVE  /\ about_wrap(s) \in Page /\ Len(about_wrap(s)) <= AboutLines
         /\ Short(about_wrap(s), AboutCap)
         /\ Ordinary(s) =>
              /\ Narrow(about_wrap(s))
              /\ IsPrefix(Words(Below(about_wrap(s))), Words(s))
              /\ Len(about_wrap(s)) < AboutLines => Words(Below(about_wrap(s))) = Words(s)
<1> DEFINE w == AboutLoop(s)
           ls == w.lines
           cur == w.cur
           p == w.p
           all == Append(ls, cur)
           More == cur # <<>> /\ Len(ls) < AboutLines
           out == about_wrap(s)
<1>1. Boxed(s, w) /\ Finished(s, w) /\ (Ordinary(s) => Kept(s, w))
  BY AboutEnds
<1>2. out = IF More THEN all ELSE ls
  BY DEF about_wrap
<1> HIDE DEF w
<1>3. /\ p \in 1..Len(s) + 1 /\ Len(s) \in Nat /\ p \in Nat /\ ls \in Page /\ cur \in Text
      /\ Len(ls) <= AboutLines /\ Short(ls, AboutCap) /\ Len(cur) <= AboutCap
      /\ Len(ls) \in Nat /\ AboutLines \in Nat
      /\ p > Len(s) \/ Len(ls) >= AboutLines
  BY <1>1, WrapAssumption, LenProperties DEF Boxed, Finished, AboutState, Text, Page
<1>4. Ordinary(s) => /\ Narrow(ls) /\ StrWidth(cur) <= MaxWidth /\ Between(s, p)
                     /\ Words(Below(ls)) \o Words(cur) = Words(Pre(s, p))
  BY <1>1 DEF Kept
<1> HIDE DEF ls, cur, p, out
<1>5. Len(ls) < AboutLines => /\ all \in Page /\ Len(all) <= AboutLines
                              /\ Short(all, AboutCap)
  BY <1>3, LineMore
<1>6. out \in Page /\ Len(out) <= AboutLines /\ Short(out, AboutCap)
  <2> HIDE DEF all
  <2> QED  BY <1>2, <1>3, <1>5
<1>7. Words(Below(all)) = Words(Below(ls)) \o Words(cur)
  BY <1>3, WordsBelow
<1> HIDE DEF all
<1>8. ASSUME Ordinary(s)
      PROVE  /\ Narrow(out) /\ IsPrefix(Words(Below(out)), Words(s))
             /\ Len(out) < AboutLines => Words(Below(out)) = Words(s)
  <2> DEFINE a == Words(Below(ls))
             b == Words(cur)
             r == SubSeq(s, p, (Len(s) + 1) - 1)
             c == Words(r)
  <2>1. Narrow(out)
    <3>1. Narrow(Append(ls, cur))
      BY <1>3, <1>4, <1>8, NarrowMore
    <3> QED  BY <1>2, <1>4, <1>8, <3>1 DEF all
  <2>2. Len(s) + 1 \in p..Len(s) + 1
    BY <1>3
  <2>3. r \in Text /\ Pre(s, Len(s) + 1) = s
    BY <1>3, <2>2, PreIs
  <2>4. Words(Pre(s, Len(s) + 1)) = Words(Pre(s, p)) \o Words(r)
    BY <1>3, <1>4, <1>8, <2>2, WordsAhead
  <2>5. a \in Page /\ b \in Page /\ c \in Page
    BY <1>3, <2>3, BelowIs, WordsType
  <2>6. Words(s) = (a \o b) \o c
    BY <1>4, <1>8, <2>3, <2>4
  <2>7. ASSUME Len(ls) < AboutLines PROVE Words(s) = a \o b
    <3>1. p = Len(s) + 1
      BY <1>3, <2>7
    <3> QED  BY <1>4, <1>8, <2>3, <3>1
  <2>8. Words(Below(out)) = a \o b \/ (Words(Below(out)) = a /\ out = ls)
    BY <1>2, <1>7
  <2>9. cur = <<>> => a \o b = a
    BY <2>5, WordsIs, NothingAfter
  <2> HIDE DEF a, b, c
  <2>10. a \o b \in Page /\ b \o c \in Page /\ (a \o b) \o c = a \o (b \o c)
    <3>1. a \in Seq(Text) /\ b \in Seq(Text) /\ c \in Seq(Text)
      BY <2>5 DEF Page
    <3>2. a \o b \in Seq(Text) /\ b \o c \in Seq(Text)
      BY <3>1, ConcatProperties
    <3> QED  BY <2>5, <3>2, PagesAssociate DEF Page
  <2>11. IsPrefix(a \o b, Words(s)) /\ IsPrefix(a, Words(s))
    <3> DEFINE x == a \o b
               y == b \o c
    <3>1. x \in Seq(Text) /\ y \in Seq(Text) /\ a \in Seq(Text) /\ c \in Seq(Text)
      BY <2>5, <2>10 DEF Page
    <3>2. Words(s) = x \o c /\ Words(s) = a \o y
      BY <2>6, <2>10
    <3> HIDE DEF x, y
    <3>3. IsPrefix(x, x \o c) /\ IsPrefix(a, a \o y)
      BY <3>1, PrefixOfConcat
    <3> QED  BY <3>2, <3>3 DEF x
  <2>12. IsPrefix(Words(Below(out)), Words(s))
    BY <2>8, <2>11
  <2>13. ASSUME Len(out) < AboutLines PROVE Words(Below(out)) = Words(s)
    <3>1. CASE More
      BY <1>2, <1>7, <2>7, <3>1 DEF a, b
    <3>2. CASE ~More
      <4>1. out = ls
        BY <1>2, <3>2
      <4>2. Len(ls) < AboutLines
        BY <2>13, <4>1
      <4>3. cur = <<>>
        BY <3>2, <4>2
      <4> QED  BY <2>7, <2>9, <4>1, <4>2, <4>3 DEF a
    <3> QED  BY <3>1, <3>2
  <2> QED  BY <2>1, <2>12, <2>13
<1> QED  BY <1>6, <1>8 DEF out

(***************************************************************************)
(* The screens.                                                            *)
(***************************************************************************)

\* The lines are the ones that were made for the screen that was drawn, and only what was
\* drawn is scrolled over.
WrapInv ==
  /\ text \in Texts /\ screen \in {"none", "message", "about"} /\ scroll \in Nat
  /\ lines \in Page
  /\ screen = "none" => lines = <<>>
  /\ screen = "message" => lines = ui_wrap_hard(text)
  /\ screen = "about" => lines = about_wrap(text)
  /\ ScrollInRange

\* A screen starts without lines.
LEMMA WrapStarts == Init => WrapInv
<1> SUFFICES ASSUME Init PROVE WrapInv
  OBVIOUS
<1>1. <<>> \in Page
  BY EmptySeq DEF Page
<1> QED  BY <1>1 DEF Init, WrapInv, ScrollInRange

\* Drawing makes the lines anew and brings the scroll position back on them; scrolling
\* stays on them.
LEMMA WrapSteps == WrapInv /\ [Next]_vars => WrapInv'
<1> SUFFICES ASSUME WrapInv, [Next]_vars PROVE WrapInv'
  OBVIOUS
<1>1. /\ text \in Texts /\ text \in Text /\ scroll \in Nat /\ lines \in Page
      /\ Len(lines) \in Nat /\ Visible \in Nat \ {0} /\ ScrollInRange
  BY WrapAssumption, LenProperties DEF WrapInv, Text, Page
<1>2. CASE DrawMessage
  <2>1. /\ screen = "none" /\ screen' = "message" /\ lines' = ui_wrap_hard(text)
        /\ text' = text /\ scroll' = scroll
    BY <1>2 DEF DrawMessage
  <2>2. ui_wrap_hard(text) \in Page
    BY <1>1, HardPacks
  <2>3. Len(lines) = 0
    BY <2>1, EmptySeq DEF WrapInv
  <2>4. scroll = 0
    BY <1>1, <2>3 DEF ScrollInRange
  <2>5. ScrollInRange'
    BY <2>1, <2>4 DEF ScrollInRange
  <2>6. text' \in Texts /\ lines' \in Page /\ lines' = ui_wrap_hard(text') /\ scroll' \in Nat
    BY <1>1, <2>1, <2>2
  <2> QED  BY <2>1, <2>5, <2>6 DEF WrapInv
<1>3. CASE DrawAbout
  <2>1. /\ screen' = "about" /\ lines' = about_wrap(text)
        /\ scroll' = Least(scroll, MaxScroll(Len(lines'))) /\ text' = text
    BY <1>3 DEF DrawAbout
  <2>2. about_wrap(text) \in Page
    BY <1>1, AboutWraps
  <2>3. lines' \in Page /\ Len(lines') \in Nat
    BY <2>1, <2>2, LenProperties DEF Page
  <2> DEFINE n == Len(lines')
             d == scroll'
  <2>4. n \in Nat /\ d = Least(scroll, MaxScroll(n))
    BY <2>1, <2>3
  <2> HIDE DEF n, d
  <2>5. d \in Nat /\ (d = 0 \/ d + Visible <= n)
    BY <1>1, <2>4 DEF Least, MaxScroll
  <2>6. scroll' \in Nat /\ ScrollInRange'
    BY <2>5 DEF n, d, ScrollInRange
  <2>7. text' \in Texts /\ lines' = about_wrap(text')
    BY <1>1, <2>1
  <2> QED  BY <2>1, <2>3, <2>6, <2>7 DEF WrapInv
<1>4. CASE Scroll
  <2>1. /\ screen' = screen /\ lines' = lines /\ text' = text
        /\ \/ scroll < MaxScroll(Len(lines)) /\ scroll' = scroll + 1
           \/ scroll > 0 /\ scroll' = scroll - 1
    BY <1>4 DEF Scroll
  <2> DEFINE n == Len(lines)
  <2>2. n \in Nat /\ (scroll = 0 \/ scroll + Visible <= n)
    BY <1>1 DEF ScrollInRange
  <2>3. \/ scroll < MaxScroll(n) /\ scroll' = scroll + 1
        \/ scroll > 0 /\ scroll' = scroll - 1
    BY <2>1
  <2> HIDE DEF n
  <2>4. scroll' \in Nat /\ (scroll' = 0 \/ scroll' + Visible <= n)
    BY <1>1, <2>2, <2>3 DEF MaxScroll
  <2>5. ScrollInRange'
    BY <2>1, <2>4 DEF n, ScrollInRange
  <2> QED  BY <2>1, <2>4, <2>5 DEF WrapInv
<1>5. CASE UNCHANGED vars
  BY <1>5 DEF vars, WrapInv, ScrollInRange
<1> QED  BY <1>2, <1>3, <1>4, <1>5 DEF Next

\* A message drawn from such lines shows its text.
LEMMA MessageShows == WrapInv => HardWrapped
<1> SUFFICES ASSUME WrapInv, screen = "message"
             PROVE  LET shown == FlattenSeq(lines)
                    IN  /\ IsPrefix(shown, text) /\ Len(lines) <= HardLines
                        /\ shown = text \/ Len(lines) = HardLines
                        /\ \A k \in DOMAIN lines :
                             /\ Len(lines[k]) \in 1..HardCap
                             /\ Len(lines[k]) = 1 \/ StrWidth(lines[k]) <= MaxWidth
                             /\ k < Len(lines) =>
                                  \/ Len(lines[k]) = HardCap
                                  \/ StrWidth(Append(lines[k], lines[k + 1][1])) > MaxWidth
  BY DEF HardWrapped
<1>1. text \in Text /\ lines = ui_wrap_hard(text) /\ lines \in Page
  BY WrapAssumption DEF WrapInv, Text
<1>2. PICK rest \in Text :
        /\ Len(lines) <= HardLines /\ Packed(lines, rest, text, HardCap)
        /\ rest = <<>> \/ Len(lines) = HardLines
  BY <1>1, HardPacks
<1>3. /\ FlattenSeq(lines) \o rest = text
      /\ \A k \in 1..Len(lines) : /\ Len(lines[k]) \in 1..HardCap
                                  /\ Len(lines[k]) = 1 \/ StrWidth(lines[k]) <= MaxWidth
      /\ \A k \in 1..Len(lines) - 1 :
           \/ Len(lines[k]) = HardCap
           \/ StrWidth(Append(lines[k], lines[k + 1][1])) > MaxWidth
  BY <1>2 DEF Packed
<1>4. FlattenSeq(lines) \in Text
  <2>1. rest \in Text
    OBVIOUS
  <2> QED  BY <1>1, <2>1, FlattenIs
<1> DEFINE shown == FlattenSeq(lines)
<1>5. IsPrefix(shown, text) /\ (rest = <<>> => shown = text)
  <2>1. shown \in Seq(Chars) /\ rest \in Seq(Chars) /\ shown \o rest = text
    BY <1>3, <1>4 DEF Text
  <2> HIDE DEF shown
  <2>2. IsPrefix(shown, shown \o rest)
    BY <2>1, PrefixOfConcat
  <2>3. shown \o <<>> = shown
    BY <2>1, ConcatEmptySeq
  <2> QED  BY <2>1, <2>2, <2>3
<1>6. DOMAIN lines = 1..Len(lines) /\ Len(lines) \in Nat
  BY <1>1, LenProperties DEF Page
<1>7. ASSUME NEW k \in DOMAIN lines, k < Len(lines) PROVE k \in 1..Len(lines) - 1
  BY <1>6, <1>7
<1> QED  BY <1>2, <1>3, <1>5, <1>6, <1>7

\* The About view drawn from such lines shows its text.
LEMMA AboutShows == WrapInv => WordWrapped
<1> SUFFICES ASSUME WrapInv, screen = "about"
             PROVE  /\ Len(lines) <= AboutLines
                    /\ \A k \in DOMAIN lines : Len(lines[k]) <= AboutCap
                    /\ Ordinary(text) =>
                         /\ \A k \in DOMAIN lines : StrWidth(lines[k]) <= MaxWidth
                         /\ IsPrefix(Words(Below(lines)), Words(text))
                         /\ Len(lines) < AboutLines => Words(Below(lines)) = Words(text)
  BY DEF WordWrapped
<1>1. text \in Text /\ lines = about_wrap(text) /\ lines \in Page
  BY WrapAssumption DEF WrapInv, Text
<1>2. DOMAIN lines = 1..Len(lines)
  BY <1>1, LenProperties DEF Page
<1>3. /\ Len(lines) <= AboutLines /\ Short(lines, AboutCap)
      /\ Ordinary(text) =>
           /\ Narrow(lines) /\ IsPrefix(Words(Below(lines)), Words(text))
           /\ Len(lines) < AboutLines => Words(Below(lines)) = Words(text)
  BY <1>1, AboutWraps
<1> QED  BY <1>2, <1>3 DEF Short, Narrow

\* For every text, every width of the characters and every size: a message is broken
\* without losing or reordering a character, an ordinary About text without losing,
\* splitting or joining a word, and what is scrolled to is on the text.
THEOREM ScreenHolds == Spec => []ScreenShowsText
<1>1. WrapInv => ScreenShowsText
  BY MessageShows, AboutShows DEF ScreenShowsText, WrapInv
<1> QED  BY <1>1, WrapStarts, WrapSteps, PTL DEF Spec
=============================================================================
