-------------------------- MODULE AMC13LinkProofs -------------------------
(***************************************************************************)
(* Theorems about AMC13Link, for fills, blocks and modules of any size:    *)
(* who may touch the event in the making, that a fill is packed from one   *)
(* event that is complete, and that the reader takes apart what was        *)
(* packed, up to the place of each sample and of each header word.  What   *)
(* pack_amc13_data makes is a concatenation of sequences of sequences      *)
(* (FlattenSeq, a recursive function); the induction over their number is  *)
(* by the least counterexample.                                            *)
(*   1. what is packed: lengths and places (FillOf, Shape)                 *)
(*   2. who holds the mutexes, what is in a fill (Locked, Counted, Kept)   *)
(*   3. what is on the way (Carries), how far the reader is (Stage), and   *)
(*      that every step keeps the two together (Reader)                    *)
(***************************************************************************)
EXTENDS AMC13Link, SequenceTheorems, WellFoundedInduction, TLAPS

-----------------------------------------------------------------------------
LEMMA LeastNumber ==
  ASSUME NEW T \in SUBSET Nat, T # {}
  PROVE  \E x \in T : \A y \in T : x <= y
  <1>1. PICK x \in T : \A y \in T : <<y, x>> \notin OpToRel(<, Nat)
    BY WFMin, NatLessThanWellFounded, Zenon
  <1>2. ASSUME NEW y \in T PROVE ~ (y < x)
    <2>1. <<y, x>> \notin {ss \in Nat \X Nat : ss[1] < ss[2]}
      BY <1>1 DEF OpToRel
    <2> QED
      BY <2>1
  <1> QED
    BY <1>2

(* f[i] is the concatenation of the first i sequences.                      *)
Flat(seqs, n, f) ==
  f = [i \in 1 .. n |-> IF i = 1 THEN seqs[i] ELSE f[i - 1] \o seqs[i]]

LEMMA FlatExists ==
  ASSUME NEW seqs, NEW n \in Nat
  PROVE  \E f : Flat(seqs, n, f)
  <1> DEFINE T == {m \in Nat : ~ \E f : Flat(seqs, m, f)}
  <1>1. SUFFICES ASSUME T # {} PROVE FALSE
    OBVIOUS
  <1>2. PICK m \in T : \A k \in T : m <= k
    BY <1>1, LeastNumber
  <1>3. m # 0
    <2>1. Flat(seqs, 0, [i \in 1 .. 0 |-> 0])
      BY DEF Flat
    <2> QED
      BY <2>1
  <1>4. m - 1 \in Nat /\ m - 1 \notin T
    BY <1>2, <1>3
  <1>5. PICK g : Flat(seqs, m - 1, g)
    BY <1>4
  <1> DEFINE h == [i \in 1 .. m |-> IF i = m THEN (IF i = 1 THEN seqs[i] ELSE g[i - 1] \o seqs[i]) ELSE g[i]]
  <1>6. m \in Nat /\ 1 .. m - 1 = (1 .. m) \ {m}
    BY <1>3
  <1>7. \A i \in 1 .. m : h[i] = IF i = 1 THEN seqs[i] ELSE h[i - 1] \o seqs[i]
    <2> SUFFICES ASSUME NEW i \in 1 .. m
                 PROVE  h[i] = IF i = 1 THEN seqs[i] ELSE h[i - 1] \o seqs[i]
      OBVIOUS
    <2>1. i # 1 => h[i - 1] = g[i - 1]
      BY <1>6
    <2>2. i # m => g[i] = IF i = 1 THEN seqs[i] ELSE g[i - 1] \o seqs[i]
      BY <1>5, <1>6 DEF Flat
    <2> QED
      BY <2>1, <2>2
  <1>8. Flat(seqs, m, h)
    BY <1>7 DEF Flat
  <1> QED
    BY <1>6, <1>8

LEMMA FlattenIsFlat ==
  ASSUME NEW seqs, Len(seqs) \in Nat \ {0}
  PROVE  \E f : Flat(seqs, Len(seqs), f) /\ FlattenSeq(seqs) = f[Len(seqs)]
  <1> DEFINE c == CHOOSE f : Flat(seqs, Len(seqs), f)
  <1>1. Flat(seqs, Len(seqs), c)
    BY FlatExists
  <1>2. FlattenSeq(seqs) = c[Len(seqs)]
    BY DEF FlattenSeq, Flat
  <1> QED
    BY <1>1, <1>2

LEMMA FunctionIsSeq ==
  ASSUME NEW S, NEW n \in Nat, NEW f \in [1 .. n -> S]
  PROVE  f \in Seq(S) /\ Len(f) = n
  OBVIOUS

LEMMA ConcatGrows ==
  ASSUME NEW S, NEW s \in Seq(S), NEW t \in Seq(S)
  PROVE  /\ s \o t \in Seq(S) /\ Len(s \o t) = Len(s) + Len(t)
         /\ \A k \in 1 .. Len(s) : (s \o t)[k] = s[k]
         /\ \A k \in 1 .. Len(t) : (s \o t)[Len(s) + k] = t[k]
  OBVIOUS

(* Three sequences in one.                                                  *)
Encloses(whole, head, body, last) ==
  /\ Len(whole) = Len(head) + Len(body) + Len(last)
  /\ \A k \in 1 .. Len(head) : whole[k] = head[k]
  /\ \A k \in 1 .. Len(body) : whole[Len(head) + k] = body[k]
  /\ \A k \in 1 .. Len(last) : whole[Len(head) + Len(body) + k] = last[k]

LEMMA Enclosed ==
  ASSUME NEW S, NEW head \in Seq(S), NEW body \in Seq(S), NEW last \in Seq(S)
  PROVE  /\ head \o body \o last \in Seq(S)
         /\ Encloses(head \o body \o last, head, body, last)
  <1>1. Len(head) \in Nat /\ Len(body) \in Nat /\ Len(last) \in Nat
    OBVIOUS
  <1>2. /\ head \o body \in Seq(S) /\ Len(head \o body) = Len(head) + Len(body)
        /\ \A k \in 1 .. Len(head) : (head \o body)[k] = head[k]
        /\ \A k \in 1 .. Len(body) : (head \o body)[Len(head) + k] = body[k]
    BY ConcatGrows
  <1>3. ASSUME NEW s \in Seq(S)
        PROVE  /\ s \o last \in Seq(S) /\ Len(s \o last) = Len(s) + Len(last)
               /\ \A k \in 1 .. Len(s) : (s \o last)[k] = s[k]
               /\ \A k \in 1 .. Len(last) : (s \o last)[Len(s) + k] = last[k]
    BY ConcatGrows
  <1> QED
    BY <1>1, <1>2, <1>3 DEF Encloses

(* FlattenSeq keeps the types of the elements, and begins with the first    *)
(* sequence.                                                                *)
LEMMA FlattenTyped ==
  ASSUME NEW S, NEW seqs \in Seq(Seq(S))
  PROVE  /\ FlattenSeq(seqs) \in Seq(S)
         /\ seqs # <<>> => /\ Len(FlattenSeq(seqs)) >= Len(seqs[1])
                           /\ \A k \in 1 .. Len(seqs[1]) : FlattenSeq(seqs)[k] = seqs[1][k]
  <1>1. CASE seqs = <<>>
    BY <1>1 DEF FlattenSeq
  <1>2. CASE seqs # <<>>
    <2>1. Len(seqs) \in Nat \ {0}
      BY <1>2
    <2>2. PICK f : Flat(seqs, Len(seqs), f) /\ FlattenSeq(seqs) = f[Len(seqs)]
      BY <2>1, FlattenIsFlat
    <2> DEFINE Good(n) == /\ f[n] \in Seq(S) /\ Len(f[n]) >= Len(seqs[1])
                          /\ \A k \in 1 .. Len(seqs[1]) : f[n][k] = seqs[1][k]
               T == {n \in 1 .. Len(seqs) : ~ Good(n)}
    <2>3. SUFFICES ASSUME T # {} PROVE FALSE
      <3>1. T = {} => Good(Len(seqs))
        <4> HIDE DEF Good
        <4> QED
          BY <2>1
      <3> QED
        BY <1>2, <2>2, <3>1
    <2>4. PICK n \in T : \A m \in T : n <= m
      <3>1. T \in SUBSET Nat
        BY <2>1
      <3> HIDE DEF T
      <3> QED
        BY <2>3, <3>1, LeastNumber
    <2>5. n \in 1 .. Len(seqs) /\ ~ Good(n)
      BY <2>4
    <2>6. f[n] = IF n = 1 THEN seqs[n] ELSE f[n - 1] \o seqs[n]
      BY <2>2, <2>5 DEF Flat
    <2>7. seqs[n] \in Seq(S) /\ seqs[1] \in Seq(S)
      BY <2>1, <2>5
    <2>8. CASE n = 1
      <3> HIDE DEF T
      <3> QED
        BY <2>5, <2>6, <2>7, <2>8
    <2>9. CASE n # 1
      <3>1. n - 1 \in 1 .. Len(seqs) /\ n - 1 \notin T
        <4>1. n \in Nat /\ n - 1 \in 1 .. Len(seqs)
          BY <2>1, <2>5, <2>9
        <4> HIDE DEF T
        <4> QED
          BY <2>4, <4>1
      <3>2. Good(n - 1)
        BY <3>1
      <3> HIDE DEF T
      <3>3. f[n] = f[n - 1] \o seqs[n]
        BY <2>6, <2>9
      <3>4. /\ f[n] \in Seq(S) /\ Len(f[n]) = Len(f[n - 1]) + Len(seqs[n])
            /\ \A k \in 1 .. Len(f[n - 1]) : f[n][k] = f[n - 1][k]
        <4>1. f[n - 1] \in Seq(S)
          BY <3>2
        <4> HIDE DEF Good
        <4>2. /\ f[n - 1] \o seqs[n] \in Seq(S) /\ Len(f[n - 1] \o seqs[n]) = Len(f[n - 1]) + Len(seqs[n])
              /\ \A k \in 1 .. Len(f[n - 1]) : (f[n - 1] \o seqs[n])[k] = f[n - 1][k]
          <5>1. \A a, b \in Seq(S) :
                  /\ a \o b \in Seq(S) /\ Len(a \o b) = Len(a) + Len(b)
                  /\ \A k \in 1 .. Len(a) : (a \o b)[k] = a[k]
            BY ConcatGrows
          <5> QED
            BY <2>7, <4>1, <5>1, Zenon
        <4> QED
          BY <3>3, <4>2
      <3>5. Len(f[n - 1]) \in Nat /\ Len(seqs[n]) \in Nat /\ Len(seqs[1]) \in Nat
        BY <2>7, <3>2
      <3>6. Len(f[n]) >= Len(seqs[1])
        <4>1. Len(f[n - 1]) >= Len(seqs[1])
          BY <3>2
        <4>2. Len(f[n]) = Len(f[n - 1]) + Len(seqs[n])
          BY <3>4
        <4> HIDE DEF Good
        <4> QED
          <5>1. \A a, b, c \in Nat : b >= c => a + b >= c /\ b + a >= c
            OBVIOUS
          <5> QED
            BY <3>5, <4>1, <4>2, <5>1, Zenon
      <3>7. \A k \in 1 .. Len(seqs[1]) : f[n][k] = seqs[1][k]
        <4>1. /\ Len(f[n - 1]) >= Len(seqs[1])
              /\ \A k \in 1 .. Len(seqs[1]) : f[n - 1][k] = seqs[1][k]
          BY <3>2
        <4> HIDE DEF Good
        <4> SUFFICES ASSUME NEW k \in 1 .. Len(seqs[1]) PROVE f[n][k] = seqs[1][k]
          OBVIOUS
        <4>2. k \in 1 .. Len(f[n - 1])
          BY <3>5, <4>1
        <4>3. f[n][k] = f[n - 1][k]
          BY <3>4, <4>2, Zenon
        <4> QED
          BY <4>1, <4>3, Zenon
      <3> QED
        BY <2>5, <3>4, <3>6, <3>7
    <2> QED
      BY <2>8, <2>9
  <1> QED
    BY <1>1, <1>2

(* Where a word is in a sequence of sequences.  A place in units of len has *)
(* one number of the unit and one place in it.                              *)
LEMMA OneUnit ==
  ASSUME NEW len \in Nat, NEW m \in Int, NEW n \in Int, NEW j \in 1 .. len, NEW k \in 1 .. len,
         m * len + j = n * len + k
  PROVE  m = n /\ j = k
  <1>1. m * len - n * len = k - j /\ k - j < len /\ j - k < len
    OBVIOUS
  <1>2. (m - n) * len = k - j
    BY <1>1
  <1>3. m - n >= 1 => (m - n) * len >= len
    <2>1. ASSUME NEW d \in Int, d >= 1 PROVE d * len >= len
      BY <2>1
    <2> QED
      BY <2>1
  <1>4. n - m >= 1 => (n - m) * len >= len
    <2>1. ASSUME NEW d \in Int, d >= 1 PROVE d * len >= len
      BY <2>1
    <2> QED
      BY <2>1
  <1>5. (n - m) * len = - ((m - n) * len)
    OBVIOUS
  <1>6. m - n < 1 /\ n - m < 1
    <2>1. (m - n) * len \in Int /\ (n - m) * len \in Int
      OBVIOUS
    <2> QED
      BY <1>1, <1>2, <1>3, <1>4, <1>5, <2>1
  <1>7. m = n
    BY <1>6
  <1> QED
    BY <1>1, <1>7

(* count sequences one after another, all but the last of length len.       *)
LaidOut(whole, seqs, count, len) ==
  /\ Len(whole) = (count - 1) * len + Len(seqs[count])
  /\ \A i \in 1 .. count : \A k \in 1 .. Len(seqs[i]) : whole[(i - 1) * len + k] = seqs[i][k]

LEMMA FlattenAt ==
  ASSUME NEW S, NEW seqs \in Seq(Seq(S)), NEW len \in Nat, NEW count \in Nat \ {0}, Len(seqs) = count,
         \A i \in 1 .. count : i < count => Len(seqs[i]) = len
  PROVE  FlattenSeq(seqs) \in Seq(S) /\ LaidOut(FlattenSeq(seqs), seqs, count, len)
  <1>1. count \in Nat \ {0} /\ \A i \in 1 .. count : seqs[i] \in Seq(S)
    OBVIOUS
  <1>2. PICK f : Flat(seqs, count, f) /\ FlattenSeq(seqs) = f[count]
    BY FlattenIsFlat
  <1> DEFINE Good(n) == /\ f[n] \in Seq(S) /\ Len(f[n]) = (n - 1) * len + Len(seqs[n])
                        /\ \A i \in 1 .. n : \A k \in 1 .. Len(seqs[i]) :
                             f[n][(i - 1) * len + k] = seqs[i][k]
             T == {n \in 1 .. count : ~ Good(n)}
  <1>3. SUFFICES ASSUME T # {} PROVE FALSE
    <2>1. T = {} => Good(count)
      <3> HIDE DEF Good
      <3>1. count \in 1 .. count
        OBVIOUS
      <3> QED
        BY <3>1, Zenon
    <2>2. Good(count) => /\ f[count] \in Seq(S) /\ LaidOut(f[count], seqs, count, len)
      BY ZenonT(60) DEF LaidOut
    <2> HIDE DEF T, Good
    <2> QED
      BY <1>2, <2>1, <2>2, Zenon
  <1>4. PICK n \in T : \A m \in T : n <= m
    <2>1. T \in SUBSET Nat
      BY <1>1
    <2> HIDE DEF T
    <2> QED
      BY <1>3, <2>1, LeastNumber
  <1>5. n \in 1 .. count /\ ~ Good(n)
    BY <1>4
  <1>6. f[n] = IF n = 1 THEN seqs[n] ELSE f[n - 1] \o seqs[n]
    BY <1>2, <1>5 DEF Flat
  <1>7. seqs[n] \in Seq(S)
    BY <1>1, <1>5
  <1>8. n # 1
    <2> SUFFICES ASSUME n = 1 PROVE Good(n)
      BY <1>5
    <2> HIDE DEF T, Good
    <2>1. f[n] = seqs[n] /\ f[n] \in Seq(S)
      BY <1>6, <1>7
    <2>2. Len(f[n]) = (n - 1) * len + Len(seqs[n])
      <3>1. (n - 1) * len = 0 /\ Len(seqs[n]) \in Nat
        BY <1>7
      <3>2. Len(f[n]) = 0 + Len(seqs[n])
        BY <2>1, <3>1
      <3> QED
        BY <3>1, <3>2, Zenon
    <2>3. ASSUME NEW i \in 1 .. n, NEW k \in 1 .. Len(seqs[i])
          PROVE  f[n][(i - 1) * len + k] = seqs[i][k]
      <3>1. k \in Nat
        BY <1>1, <1>5
      <3>2. i = n /\ (i - 1) * len + k = k
        BY <3>1
      <3> QED
        BY <2>1, <3>2
    <2> QED
      BY <2>1, <2>2, <2>3, Zenon DEF Good
  <1>9. n - 1 \in 1 .. count /\ n - 1 \notin T
    <2> HIDE DEF T, Good
    <2> QED
      BY <1>1, <1>4, <1>5, <1>8
  <1>10. Good(n - 1)
    BY <1>9
  <1>11. f[n] = f[n - 1] \o seqs[n] /\ f[n - 1] \in Seq(S) /\ Len(f[n - 1]) = (n - 1) * len
    <2>1. Len(seqs[n - 1]) = len
      BY <1>5, <1>9
    <2>2. (n - 1 - 1) * len + len = (n - 1) * len
      BY <1>5
    <2> QED
      BY <1>6, <1>8, <1>10, <2>1, <2>2
  <1>12. \A i \in 1 .. n - 1 : \A k \in 1 .. Len(seqs[i]) : f[n - 1][(i - 1) * len + k] = seqs[i][k]
    BY <1>10
  <1> HIDE DEF T, Good
  <1> DEFINE s == f[n - 1]
             t == seqs[n]
  <1>13. s \in Seq(S) /\ t \in Seq(S) /\ f[n] = s \o t /\ Len(s) = (n - 1) * len
    BY <1>7, <1>11
  <1>14. \A i \in 1 .. n - 1 : Len(seqs[i]) = len
    BY <1>5
  <1>15. \A i \in 1 .. n - 1, k \in 1 .. len : (i - 1) * len + k \in 1 .. Len(s)
    <2> SUFFICES ASSUME NEW i \in 1 .. n - 1, NEW k \in 1 .. len
                 PROVE  (i - 1) * len + k \in 1 .. Len(s)
      OBVIOUS
    <2>1. (n - 1) * len = (i - 1) * len + (n - i) * len
      BY <1>5
    <2>2. (n - i) * len >= len
      BY <1>5
    <2> DEFINE x == (i - 1) * len
               y == (n - i) * len
               z == (n - 1) * len
    <2>3. x \in Nat /\ y \in Nat /\ z = x + y /\ y >= len
      BY <1>5, <2>1, <2>2
    <2>4. Len(s) = z
      BY <1>13
    <2> HIDE DEF x, y, z
    <2>5. x + k \in 1 .. Len(s)
      BY <2>3, <2>4
    <2> QED
      BY <2>5 DEF x
  <1> HIDE DEF s, t
  <1>16. /\ s \o t \in Seq(S) /\ Len(s \o t) = Len(s) + Len(t)
         /\ \A k \in 1 .. Len(s) : (s \o t)[k] = s[k]
         /\ \A k \in 1 .. Len(t) : (s \o t)[Len(s) + k] = t[k]
    <2>1. s \in Seq(S) /\ t \in Seq(S)
      BY <1>13
    <2> QED
      BY <2>1, ConcatGrows, SMTT(30)
  <1>17. \A i \in 1 .. n : \A k \in 1 .. Len(seqs[i]) : f[n][(i - 1) * len + k] = seqs[i][k]
    <2> SUFFICES ASSUME NEW i \in 1 .. n, NEW k \in 1 .. Len(seqs[i])
                 PROVE  f[n][(i - 1) * len + k] = seqs[i][k]
      OBVIOUS
    <2>1. CASE i = n
      BY <1>13, <1>16, <2>1 DEF t
    <2>2. CASE i # n
      <3>1. i \in 1 .. n - 1
        BY <1>5, <2>2
      <3>2. (i - 1) * len + k \in 1 .. Len(s)
        BY <1>14, <1>15, <3>1
      <3>3. s[(i - 1) * len + k] = seqs[i][k]
        BY <1>12, <3>1 DEF s
      <3> QED
        BY <1>13, <1>16, <3>2, <3>3
    <2> QED
      BY <2>1, <2>2
  <1>18. f[n] \in Seq(S) /\ Len(f[n]) = (n - 1) * len + Len(seqs[n])
    BY <1>13, <1>16 DEF t
  <1> QED
    BY <1>5, <1>17, <1>18 DEF Good

(* All sequences have the length len.                                       *)
LEMMA FlattenEven ==
  ASSUME NEW S, NEW seqs \in Seq(Seq(S)), NEW len \in Nat, NEW n \in Nat \ {0}, Len(seqs) = n,
         \A i \in 1 .. n : Len(seqs[i]) = len
  PROVE  /\ FlattenSeq(seqs) \in Seq(S) /\ Len(FlattenSeq(seqs)) = n * len
         /\ \A i \in 1 .. n, k \in 1 .. len : FlattenSeq(seqs)[(i - 1) * len + k] = seqs[i][k]
  <1>1. \A i \in 1 .. n : i < n => Len(seqs[i]) = len
    OBVIOUS
  <1>2. /\ FlattenSeq(seqs) \in Seq(S)
        /\ Len(FlattenSeq(seqs)) = (n - 1) * len + Len(seqs[n])
        /\ \A i \in 1 .. n : \A k \in 1 .. Len(seqs[i]) :
             FlattenSeq(seqs)[(i - 1) * len + k] = seqs[i][k]
    <2>1. FlattenSeq(seqs) \in Seq(S) /\ LaidOut(FlattenSeq(seqs), seqs, n, len)
      BY <1>1, FlattenAt, ZenonT(60)
    <2> QED
      BY <2>1, Zenon DEF LaidOut
  <1>3. Len(FlattenSeq(seqs)) = (n - 1) * len + len
    <2>1. n \in 1 .. n
      OBVIOUS
    <2> QED
      BY <1>2, <2>1, Zenon
  <1>4. (n - 1) * len + len = n * len
    OBVIOUS
  <1>5. ASSUME NEW i \in 1 .. n, NEW k \in 1 .. len
        PROVE  FlattenSeq(seqs)[(i - 1) * len + k] = seqs[i][k]
    BY <1>2, Zenon
  <1> QED
    BY <1>2, <1>3, <1>4, <1>5, Zenon

-----------------------------------------------------------------------------
(* What the packer makes: words, and those of waveforms are of one event.   *)
FormatWord == {"zero", "chanhead", "chantrail", "modhead", "modtrail", "CDF", "CDFtrailer",
               "AMC13", "AMC", "blocktail", "none"}
AnyWord == [kind : FormatWord \cup {"wave"}, num : Int, pos : Int, M : BOOLEAN, S : BOOLEAN]
WordsOf(ev) == {w \in AnyWord : w.kind = "wave" => w.num = ev}

LEMMA FormatWordTyped ==
  ASSUME NEW ev \in Int, NEW num \in Int, NEW pos \in Int, NEW kind \in FormatWord
  PROVE  Word(kind, num, pos) \in WordsOf(ev) /\ Word(kind, num, pos).kind = kind
  BY DEF Word, WordsOf, AnyWord, FormatWord

LEMMA SimWordTyped ==
  ASSUME NEW ev \in Int, NEW pos \in Int
  PROVE  SimWord(ev, pos) \in WordsOf(ev) /\ SimWord(ev, pos).kind = "wave"
  BY DEF SimWord, Word, WordsOf, AnyWord, FormatWord

LEMMA Sizes ==
  /\ nAMC \in Nat \ {0} /\ nCHAN \in Nat \ {0} /\ calo_segments \in Nat \ {0}
  /\ waveform_length \in Nat \ {0} /\ BlockWords \in Nat \ {0}
  BY LinkAssumption DEF LinkAssumption

LEMMA SimDataTyped ==
  ASSUME NEW ev \in Int
  PROVE  /\ SimData(ev) \in Seq(WordsOf(ev)) /\ Len(SimData(ev)) = calo_segments * waveform_length
         /\ calo_segments * waveform_length \in Nat \ {0}
         /\ \A x \in 1 .. calo_segments * waveform_length : SimData(ev)[x] = SimWord(ev, x)
  <1>1. calo_segments * waveform_length \in Nat /\ calo_segments * waveform_length >= 1
    BY Sizes
  <1>2. \A i \in Int : SimWord(ev, i) \in WordsOf(ev)
    BY SimWordTyped
  <1> QED
    BY <1>1, <1>2 DEF SimData

LEMMA ChannelTyped ==
  ASSUME NEW ev \in Int, NEW a \in Nat, NEW c \in Nat
  PROVE  /\ Channel(ev, a, c) \in Seq(WordsOf(ev)) /\ Len(Channel(ev, a, c)) = waveform_length + 4
         /\ \A q \in 1 .. waveform_length :
              a * nCHAN + c < calo_segments
                => Channel(ev, a, c)[2 + q] = SimWord(ev, (a * nCHAN + c) * waveform_length + q)
  <1> DEFINE iseg == a * nCHAN + c
             heads == << Word("chanhead", 0, c), Word("chanhead", 0, c) >>
             trails == << Word("chantrail", 0, 0), Word("chantrail", 0, 0) >>
             samples == [i \in 1 .. waveform_length |->
                           IF iseg < calo_segments THEN SimWord(ev, iseg * waveform_length + i)
                                                   ELSE Word("zero", 0, 0)]
  <1>1. iseg \in Nat
    BY Sizes
  <1>2. heads \in Seq(WordsOf(ev)) /\ Len(heads) = 2
    BY FormatWordTyped, SMTT(30) DEF FormatWord
  <1>3. trails \in Seq(WordsOf(ev)) /\ Len(trails) = 2
    BY FormatWordTyped, SMTT(30) DEF FormatWord
  <1>4. \A i \in Int : SimWord(ev, iseg * waveform_length + i) \in WordsOf(ev)
    <2>1. iseg * waveform_length \in Int
      BY <1>1, Sizes
    <2> HIDE DEF iseg
    <2> QED
      BY <2>1, SimWordTyped
  <1>5. Word("zero", 0, 0) \in WordsOf(ev)
    BY FormatWordTyped, SMTT(30) DEF FormatWord
  <1>6. /\ samples \in Seq(WordsOf(ev)) /\ Len(samples) = waveform_length
        /\ \A q \in 1 .. waveform_length :
             iseg < calo_segments => samples[q] = SimWord(ev, iseg * waveform_length + q)
    <2> HIDE DEF iseg
    <2> QED
      BY <1>1, <1>4, <1>5, Sizes
  <1>7. Channel(ev, a, c) = heads \o samples \o trails
    BY DEF Channel
  <1> HIDE DEF heads, trails, samples
  <1>8. /\ heads \o samples \o trails \in Seq(WordsOf(ev))
        /\ Encloses(heads \o samples \o trails, heads, samples, trails)
    BY <1>2, <1>3, <1>6, Enclosed, Zenon
  <1>9. \A q \in 1 .. waveform_length : (heads \o samples \o trails)[2 + q] = samples[q]
    BY <1>2, <1>6, <1>8 DEF Encloses
  <1>10. Len(heads \o samples \o trails) = waveform_length + 4
    BY <1>2, <1>3, <1>6, <1>8, Sizes DEF Encloses
  <1> QED
    BY <1>6, <1>7, <1>8, <1>9, <1>10, Zenon

(* The place of the first word of a waveform in the data of a fill.         *)
FirstSample(rider_header, a, c) ==
  IF rider_header THEN a * nt_words_store(TRUE) + (2 + (c * (waveform_length + 4) + 2))
                  ELSE (a * nCHAN + c) * waveform_length

LEMMA RiderSizes ==
  /\ nCHAN * (waveform_length + 4) \in Nat
  /\ nt_words_store(TRUE) = 2 + nCHAN * (waveform_length + 4) + 1
  /\ nt_words_store(TRUE) \in Nat \ {0}
  <1>1. nCHAN * waveform_length \in Nat /\ nCHAN * (waveform_length + 4) = nCHAN * waveform_length + 4 * nCHAN
    BY Sizes
  <1> QED
    BY <1>1, Sizes DEF nt_words_store

(* A module of the Rider format.                                            *)
RiderModule(ev, m) ==
  << Word("modhead", 0, 0), Word("modhead", 0, m) >>
    \o FlattenSeq([c \in 1 .. nCHAN |-> Channel(ev, m - 1, c - 1)]) \o << Word("modtrail", 0, 0) >>

LEMMA ModuleTyped ==
  ASSUME NEW ev \in Int, NEW m \in 1 .. nAMC
  PROVE  /\ RiderModule(ev, m) \in Seq(WordsOf(ev)) /\ Len(RiderModule(ev, m)) = nt_words_store(TRUE)
         /\ \A c \in Chan, q \in 1 .. waveform_length :
              (m - 1) * nCHAN + c < calo_segments
                => /\ 2 + (c * (waveform_length + 4) + 2) + q \in 1 .. nt_words_store(TRUE)
                   /\ RiderModule(ev, m)[2 + (c * (waveform_length + 4) + 2) + q]
                        = SimWord(ev, ((m - 1) * nCHAN + c) * waveform_length + q)
  <1> DEFINE len == waveform_length + 4
             channels == [c \in 1 .. nCHAN |-> Channel(ev, m - 1, c - 1)]
             heads == << Word("modhead", 0, 0), Word("modhead", 0, m) >>
             trail == << Word("modtrail", 0, 0) >>
             body == FlattenSeq(channels)
             whole == heads \o body \o trail
  <1>1. m - 1 \in Nat
    BY Sizes
  <1>2. /\ \A c \in 1 .. nCHAN : channels[c] = Channel(ev, m - 1, c - 1)
        /\ channels \in Seq(Seq(WordsOf(ev))) /\ Len(channels) = nCHAN /\ channels # <<>>
        /\ \A c \in 1 .. nCHAN : Len(channels[c]) = len
    <2>1. \A c \in 1 .. nCHAN : /\ Channel(ev, m - 1, c - 1) \in Seq(WordsOf(ev))
                                /\ Len(Channel(ev, m - 1, c - 1)) = len
      BY <1>1, ChannelTyped, Sizes
    <2>2. channels \in [1 .. nCHAN -> Seq(WordsOf(ev))]
      BY <2>1
    <2>3. channels \in Seq(Seq(WordsOf(ev))) /\ Len(channels) = nCHAN
      <3> HIDE DEF channels
      <3> QED
        BY <2>2, FunctionIsSeq, Sizes
    <2>4. \A c \in 1 .. nCHAN : channels[c] = Channel(ev, m - 1, c - 1)
      OBVIOUS
    <2> HIDE DEF channels
    <2> QED
      BY <2>1, <2>3, <2>4, Sizes
  <1>3. len \in Nat
    BY Sizes
  <1>4. heads \in Seq(WordsOf(ev)) /\ Len(heads) = 2
    BY FormatWordTyped, SMTT(30) DEF FormatWord
  <1>5. trail \in Seq(WordsOf(ev)) /\ Len(trail) = 1
    BY FormatWordTyped, SMTT(30) DEF FormatWord
  <1>6. RiderModule(ev, m) = whole
    BY DEF RiderModule
  <1> HIDE DEF channels, heads, trail
  <1>7. /\ body \in Seq(WordsOf(ev)) /\ Len(body) = nCHAN * len
        /\ \A c \in 1 .. nCHAN, k \in 1 .. len : body[(c - 1) * len + k] = channels[c][k]
    <2> HIDE DEF len
    <2> QED
      BY <1>2, <1>3, FlattenEven, Sizes, SMTT(30)
  <1> HIDE DEF body
  <1>9. whole \in Seq(WordsOf(ev)) /\ Encloses(whole, heads, body, trail)
    BY <1>4, <1>5, <1>7, Enclosed, Zenon
  <1> HIDE DEF whole
  <1>10. Len(whole) = nt_words_store(TRUE)
    <2>1. Len(whole) = 2 + nCHAN * len + 1
      BY <1>4, <1>5, <1>7, <1>9, Zenon DEF Encloses
    <2> QED
      BY <2>1, RiderSizes
  <1>11. ASSUME NEW c \in Chan, NEW q \in 1 .. waveform_length, (m - 1) * nCHAN + c < calo_segments
         PROVE  /\ 2 + (c * len + 2) + q \in 1 .. nt_words_store(TRUE)
                /\ whole[2 + (c * len + 2) + q] = SimWord(ev, ((m - 1) * nCHAN + c) * waveform_length + q)
    <2>1. c \in Nat /\ c + 1 \in 1 .. nCHAN /\ (c + 1) - 1 = c
      BY Sizes DEF Chan
    <2>2. 2 + q \in Nat /\ 2 + q \in 1 .. len
      BY Sizes
    <2>3. body[c * len + (2 + q)] = Channel(ev, m - 1, c)[2 + q]
      <3> HIDE DEF len
      <3>1. body[((c + 1) - 1) * len + (2 + q)] = channels[c + 1][2 + q]
        BY <1>7, <2>1, <2>2, Zenon
      <3>2. channels[c + 1] = Channel(ev, m - 1, (c + 1) - 1)
        BY <1>2, <2>1, Zenon
      <3> QED
        BY <2>1, <3>1, <3>2
    <2>4. Channel(ev, m - 1, c)[2 + q] = SimWord(ev, ((m - 1) * nCHAN + c) * waveform_length + q)
      BY <1>1, <1>11, <2>1, ChannelTyped
    <2>5. c * len + (2 + q) \in 1 .. Len(body)
      <3> HIDE DEF len
      <3> DEFINE x == c * len
                 y == nCHAN * len
      <3>1. x \in Nat /\ y \in Nat
        BY <1>3, <2>1, Sizes
      <3>2. x + len <= y
        <4>1. nCHAN * len = c * len + (nCHAN - c) * len /\ (nCHAN - c) * len >= len
          BY <1>3, <2>1, Sizes
        <4> QED
          BY <1>3, <2>1, <4>1, Sizes
      <3> HIDE DEF x, y
      <3>3. x + (2 + q) \in 1 .. y
        BY <1>3, <2>2, <3>1, <3>2
      <3> QED
        BY <1>7, <3>3 DEF x, y
    <2>6. whole[2 + (c * len + (2 + q))] = body[c * len + (2 + q)]
      BY <1>4, <1>9, <2>5, Zenon DEF Encloses
    <2>7. c * len \in Nat
      <3> HIDE DEF len
      <3> QED
        BY <1>3, <2>1
    <2> DEFINE z == c * len
    <2>8. z \in Nat /\ z + (2 + q) \in 1 .. Len(body)
      BY <2>5, <2>7
    <2> HIDE DEF z
    <2>9. 2 + (z + 2) + q = 2 + (z + (2 + q)) /\ 2 + (z + 2) + q \in 1 .. nt_words_store(TRUE)
      <3>1. Len(body) \in Nat /\ nt_words_store(TRUE) = 2 + Len(body) + 1
        <4>1. Len(body) \in Nat
          BY <1>7
        <4>2. nt_words_store(TRUE) = 2 + Len(body) + 1
          BY <1>7, RiderSizes, Zenon
        <4> QED
          BY <4>1, <4>2
      <3>2. q \in Nat
        BY Sizes
      <3> DEFINE n == nt_words_store(TRUE)
      <3>3. Len(body) \in Nat /\ n = 2 + Len(body) + 1
        BY <3>1, Zenon
      <3> HIDE DEF n
      <3>4. 2 + (z + 2) + q = 2 + (z + (2 + q)) /\ 2 + (z + 2) + q \in 1 .. n
        BY <2>8, <3>2, <3>3
      <3> QED
        BY <3>4 DEF n
    <2> QED
      BY <2>3, <2>4, <2>6, <2>9, Zenon DEF z
  <1> QED
    BY <1>6, <1>9, <1>10, <1>11, Zenon

LEMMA RiderTyped ==
  ASSUME NEW ev \in Int
  PROVE  /\ pack_rider_data(ev) \in Seq(WordsOf(ev))
         /\ Len(pack_rider_data(ev)) = nAMC * nt_words_store(TRUE)
         /\ \A a \in AMC, c \in Chan, q \in 1 .. waveform_length :
              a * nCHAN + c < calo_segments
                => pack_rider_data(ev)[FirstSample(TRUE, a, c) + q]
                     = SimWord(ev, (a * nCHAN + c) * waveform_length + q)
  <1> DEFINE modules == [m \in 1 .. nAMC |-> RiderModule(ev, m)]
             len == nt_words_store(TRUE)
             all == FlattenSeq(modules)
  <1>1. pack_rider_data(ev) = all
    BY DEF pack_rider_data, RiderModule
  <1>2. /\ \A m \in 1 .. nAMC : modules[m] = RiderModule(ev, m) /\ Len(modules[m]) = len
        /\ modules \in Seq(Seq(WordsOf(ev))) /\ Len(modules) = nAMC /\ modules # <<>>
    <2>1. \A m \in 1 .. nAMC : RiderModule(ev, m) \in Seq(WordsOf(ev)) /\ Len(RiderModule(ev, m)) = len
      BY ModuleTyped
    <2>2. modules \in [1 .. nAMC -> Seq(WordsOf(ev))]
      BY <2>1
    <2>3. \A m \in 1 .. nAMC : modules[m] = RiderModule(ev, m)
      OBVIOUS
    <2> HIDE DEF modules, len
    <2>4. modules \in Seq(Seq(WordsOf(ev))) /\ Len(modules) = nAMC
      BY <2>2, FunctionIsSeq, Sizes
    <2> QED
      BY <2>1, <2>3, <2>4, Sizes
  <1>3. len \in Nat
    BY RiderSizes
  <1> HIDE DEF modules, len
  <1>4. /\ all \in Seq(WordsOf(ev)) /\ Len(all) = nAMC * len
        /\ \A m \in 1 .. nAMC, k \in 1 .. len : all[(m - 1) * len + k] = modules[m][k]
    BY <1>2, <1>3, FlattenEven, Sizes, SMTT(30)
  <1> HIDE DEF all
  <1>6. ASSUME NEW a \in AMC, NEW c \in Chan, NEW q \in 1 .. waveform_length, a * nCHAN + c < calo_segments
        PROVE  all[FirstSample(TRUE, a, c) + q] = SimWord(ev, (a * nCHAN + c) * waveform_length + q)
    <2> DEFINE k == 2 + (c * (waveform_length + 4) + 2)
    <2>1. a \in Nat /\ a + 1 \in 1 .. nAMC /\ (a + 1) - 1 = a
      BY Sizes DEF AMC
    <2>2. k + q \in 1 .. len /\ RiderModule(ev, a + 1)[k + q] = SimWord(ev, (a * nCHAN + c) * waveform_length + q)
      <3>1. ((a + 1) - 1) * nCHAN + c < calo_segments
        BY <1>6, <2>1
      <3>2. /\ k + q \in 1 .. nt_words_store(TRUE)
            /\ RiderModule(ev, a + 1)[k + q] = SimWord(ev, (((a + 1) - 1) * nCHAN + c) * waveform_length + q)
        BY <2>1, <3>1, ModuleTyped
      <3> QED
        BY <2>1, <3>2 DEF len
    <2>3. c * (waveform_length + 4) \in Nat
      BY Sizes DEF Chan
    <2>4. k \in Nat /\ k + q \in Nat
      BY <2>3
    <2> HIDE DEF k
    <2>5. all[a * len + (k + q)] = RiderModule(ev, a + 1)[k + q]
      <3>1. all[((a + 1) - 1) * len + (k + q)] = modules[a + 1][k + q]
        BY <1>4, <2>1, <2>2, <2>4
      <3> QED
        BY <1>2, <2>1, <3>1
    <2>6. FirstSample(TRUE, a, c) + q = a * len + (k + q)
      <3>1. FirstSample(TRUE, a, c) = a * len + k
        BY DEF FirstSample, len, k
      <3> DEFINE x == a * len
      <3>2. x \in Nat /\ q \in Nat
        BY <1>3, <2>1, Sizes
      <3>4. FirstSample(TRUE, a, c) = x + k
        BY <3>1
      <3> HIDE DEF x
      <3>3. (x + k) + q = x + (k + q)
        BY <2>4, <3>2
      <3> QED
        BY <3>3, <3>4, Zenon DEF x
    <2> QED
      BY <2>2, <2>5, <2>6
  <1> QED
    BY <1>1, <1>4, <1>6 DEF len

(* Min is a CHOOSE; of two numbers it is one of them, and not above either. *)
LEMMA MinOfTwo ==
  ASSUME NEW a \in Int, NEW b \in Int
  PROVE  Min({a, b}) \in Int /\ Min({a, b}) \in {a, b} /\ Min({a, b}) <= a /\ Min({a, b}) <= b
  <1>1. \E x \in {a, b} : \A y \in {a, b} : x <= y
    <2>1. CASE a <= b
      BY <2>1
    <2>2. CASE b <= a
      BY <2>2
    <2> QED
      BY <2>1, <2>2
  <1>2. Min({a, b}) \in {a, b} /\ \A y \in {a, b} : Min({a, b}) <= y
    BY <1>1, Zenon DEF Min
  <1> QED
    BY <1>2

LEMMA PayloadTyped ==
  ASSUME NEW ev \in Int, NEW source \in Seq(WordsOf(ev)), NEW from \in Nat, NEW nb_words \in Int
  PROVE  /\ Payload(source, from, nb_words) \in Seq(WordsOf(ev))
         /\ nb_words \in Nat => Len(Payload(source, from, nb_words)) = nb_words
         /\ \A k \in 1 .. nb_words :
              4 * from + nb_words < 4 * Len(source) /\ from + k \in 1 .. Len(source)
                => Payload(source, from, nb_words)[k] = source[from + k]
  <1> DEFINE n == IF nb_words \in Nat THEN nb_words ELSE 0
  <1>1. n \in Nat /\ 1 .. nb_words = 1 .. n
    OBVIOUS
  <1>2. None \in WordsOf(ev)
    BY FormatWordTyped DEF None, FormatWord
  <1>3. Payload(source, from, nb_words) \in [1 .. n -> WordsOf(ev)]
    <2> HIDE DEF n
    <2>1. \A k \in 1 .. nb_words : from + k <= Len(source) => source[from + k] \in WordsOf(ev)
      OBVIOUS
    <2> QED
      BY <1>1, <1>2, <2>1 DEF Payload
  <1>4. /\ Payload(source, from, nb_words) \in Seq(WordsOf(ev))
        /\ Len(Payload(source, from, nb_words)) = n
    <2> HIDE DEF n
    <2> QED
      BY <1>1, <1>3, FunctionIsSeq
  <1> QED
    BY <1>4 DEF Payload

(* The header word of module i.                                             *)
AMCWord(nt_store, b, i) ==
  [Word("AMC", IF b = 0 THEN nt_store ELSE InBlock(nt_store, b), i)
     EXCEPT !.M = InBlock(nt_store, b) < nt_store - b * BlockWords, !.S = b > 0]

LEMMA InBlockTyped ==
  ASSUME NEW nt_store \in Nat, NEW b \in Nat, b * BlockWords < nt_store
  PROVE  /\ InBlock(nt_store, b) \in 1 .. BlockWords
         /\ b * BlockWords + InBlock(nt_store, b) <= nt_store
  <1> DEFINE x == b * BlockWords
             y == nt_store - x
  <1>1. x \in Nat /\ BlockWords \in Nat \ {0}
    BY Sizes
  <1>2. x < nt_store
    OBVIOUS
  <1>3. InBlock(nt_store, b) = IF y <= BlockWords THEN y ELSE BlockWords
    BY DEF InBlock
  <1> HIDE DEF x
  <1>4. y \in Nat \ {0} /\ x + y = nt_store
    BY <1>1, <1>2
  <1> HIDE DEF y
  <1>5. InBlock(nt_store, b) \in 1 .. BlockWords /\ x + InBlock(nt_store, b) <= nt_store
    BY <1>1, <1>3, <1>4
  <1> QED
    BY <1>5 DEF x

LEMMA AMCWordTyped ==
  ASSUME NEW ev \in Int, NEW nt_store \in Nat, NEW b \in Nat, b * BlockWords < nt_store, NEW i \in Int
  PROVE  AMCWord(nt_store, b, i) \in WordsOf(ev)
  <1> DEFINE num == IF b = 0 THEN nt_store ELSE InBlock(nt_store, b)
             more == InBlock(nt_store, b) < nt_store - b * BlockWords
  <1>1. num \in Int
    <2>1. InBlock(nt_store, b) \in 1 .. BlockWords
      BY InBlockTyped, Zenon
    <2>2. InBlock(nt_store, b) \in Int
      BY <2>1
    <2> QED
      BY <2>2
  <1>2. AMCWord(nt_store, b, i) = [Word("AMC", num, i) EXCEPT !.M = more, !.S = b > 0]
    BY DEF AMCWord
  <1>3. more \in BOOLEAN /\ (b > 0) \in BOOLEAN
    OBVIOUS
  <1> HIDE DEF num, more
  <1>4. Word("AMC", num, i) \in WordsOf(ev) /\ Word("AMC", num, i).kind = "AMC"
    BY <1>1, FormatWordTyped DEF FormatWord
  <1>5. \A w \in WordsOf(ev), p, q \in BOOLEAN :
          w.kind = "AMC" => [w EXCEPT !.M = p, !.S = q] \in WordsOf(ev)
    BY DEF WordsOf, AnyWord
  <1> QED
    BY <1>2, <1>3, <1>4, <1>5, Zenon

(* A block: one word, one of each module, the parts of the modules' data,   *)
(* and one word.                                                            *)
LEMMA BlockTyped ==
  ASSUME NEW ev \in Int, NEW source \in Seq(WordsOf(ev)), NEW nt_store \in Nat, NEW b \in Nat,
         NEW n \in Nat, b * BlockWords < nt_store
  PROVE  /\ Block(source, nt_store, b, n) \in Seq(WordsOf(ev))
         /\ Len(Block(source, nt_store, b, n)) = 1 + nAMC + nAMC * InBlock(nt_store, b) + 1
         /\ Block(source, nt_store, b, n)[1] = Word("AMC13", nAMC, 0)
         /\ \A i \in AMC : Block(source, nt_store, b, n)[1 + (i + 1)] = AMCWord(nt_store, b, i)
         /\ \A i \in AMC, k \in 1 .. InBlock(nt_store, b) :
              Block(source, nt_store, b, n)[1 + nAMC + (i * InBlock(nt_store, b) + k)]
                = Payload(source, b * BlockWords + i * nt_store, InBlock(nt_store, b))[k]
         /\ Block(source, nt_store, b, n)[1 + nAMC + nAMC * InBlock(nt_store, b) + 1].kind = "blocktail"
  <1> DEFINE nb == InBlock(nt_store, b)
             heads == << Word("AMC13", nAMC, 0) >>
             amcs == [i \in 1 .. nAMC |-> AMCWord(nt_store, b, i - 1)]
             payloads == [i \in 1 .. nAMC |-> Payload(source, b * BlockWords + (i - 1) * nt_store, nb)]
             tails == << Word("blocktail", n, b) >>
             front == heads \o amcs
             body == FlattenSeq(payloads)
             whole == front \o body \o tails
  <1>1. nb \in Nat /\ nb \in 1 .. BlockWords
    <2>1. nb \in 1 .. BlockWords
      BY InBlockTyped, Zenon
    <2> HIDE DEF nb
    <2>2. nb \in Nat
      BY <2>1
    <2> QED
      BY <2>1, <2>2, Zenon
  <1>2. Block(source, nt_store, b, n) = whole
    <2> DEFINE nt_words == nt_store - b * BlockWords
    <2>1. (IF b = 0 THEN nt_words ELSE nb) = (IF b = 0 THEN nt_store ELSE nb)
      BY Sizes
    <2> QED
      BY <2>1, Zenon DEF Block, AMCWord
  <1>3. heads \in Seq(WordsOf(ev)) /\ Len(heads) = 1 /\ heads[1] = Word("AMC13", nAMC, 0)
    BY FormatWordTyped, Sizes DEF FormatWord
  <1>4. tails \in Seq(WordsOf(ev)) /\ Len(tails) = 1 /\ tails[1].kind = "blocktail"
    BY FormatWordTyped, SMTT(30) DEF FormatWord
  <1>5. /\ amcs \in Seq(WordsOf(ev)) /\ Len(amcs) = nAMC
        /\ \A i \in AMC : i + 1 \in 1 .. nAMC /\ amcs[i + 1] = AMCWord(nt_store, b, i)
    <2>1. amcs \in [1 .. nAMC -> WordsOf(ev)]
      BY AMCWordTyped, Sizes
    <2>2. \A i \in AMC : i + 1 \in 1 .. nAMC /\ amcs[i + 1] = AMCWord(nt_store, b, i)
      <3>1. \A i \in AMC : i + 1 \in 1 .. nAMC /\ (i + 1) - 1 = i
        BY Sizes DEF AMC
      <3> QED
        BY <3>1
    <2> HIDE DEF amcs
    <2> QED
      BY <2>1, <2>2, FunctionIsSeq, Sizes
  <1>6. /\ payloads \in Seq(Seq(WordsOf(ev))) /\ Len(payloads) = nAMC
        /\ \A i \in 1 .. nAMC : Len(payloads[i]) = nb
    <2>1. ASSUME NEW i \in 1 .. nAMC
          PROVE  /\ Payload(source, b * BlockWords + (i - 1) * nt_store, nb) \in Seq(WordsOf(ev))
                 /\ Len(Payload(source, b * BlockWords + (i - 1) * nt_store, nb)) = nb
      <3> HIDE DEF nb
      <3>1. b * BlockWords + (i - 1) * nt_store \in Nat /\ nb \in Int
        BY <1>1, Sizes
      <3> QED
        BY <1>1, <3>1, PayloadTyped, SMTT(30)
    <2> HIDE DEF nb
    <2>2. payloads \in [1 .. nAMC -> Seq(WordsOf(ev))] /\ \A i \in 1 .. nAMC : Len(payloads[i]) = nb
      BY <2>1
    <2> HIDE DEF payloads
    <2> QED
      BY <2>2, FunctionIsSeq, Sizes
  <1>7. \A i \in AMC : (i + 1) - 1 = i /\ i + 1 \in 1 .. nAMC
                       /\ payloads[i + 1] = Payload(source, b * BlockWords + i * nt_store, nb)
    <2>1. \A i \in AMC : (i + 1) - 1 = i /\ i + 1 \in 1 .. nAMC
      BY Sizes DEF AMC
    <2> HIDE DEF nb
    <2> QED
      BY <2>1
  <1> HIDE DEF heads, amcs, tails, payloads, nb
  <1>8. /\ body \in Seq(WordsOf(ev)) /\ Len(body) = nAMC * nb
        /\ \A i \in 1 .. nAMC, k \in 1 .. nb : body[(i - 1) * nb + k] = payloads[i][k]
    <2> HIDE DEF body
    <2>1. nb \in Nat /\ nAMC \in Nat \ {0}
      BY <1>1, Sizes
    <2>2. /\ FlattenSeq(payloads) \in Seq(WordsOf(ev)) /\ Len(FlattenSeq(payloads)) = nAMC * nb
          /\ \A i \in 1 .. nAMC, k \in 1 .. nb :
               FlattenSeq(payloads)[(i - 1) * nb + k] = payloads[i][k]
      BY <1>6, <2>1, FlattenEven, SMTT(30)
    <2> QED
      BY <2>2 DEF body
  <1>10. /\ front \in Seq(WordsOf(ev)) /\ Len(front) = 1 + nAMC /\ front[1] = Word("AMC13", nAMC, 0)
         /\ \A i \in AMC : i + 1 \in 1 .. nAMC /\ front[1 + (i + 1)] = AMCWord(nt_store, b, i)
    <2>1. /\ heads \o amcs \in Seq(WordsOf(ev)) /\ Len(heads \o amcs) = Len(heads) + Len(amcs)
          /\ \A k \in 1 .. Len(heads) : (heads \o amcs)[k] = heads[k]
          /\ \A k \in 1 .. Len(amcs) : (heads \o amcs)[Len(heads) + k] = amcs[k]
      <3>1. heads \in Seq(WordsOf(ev)) /\ amcs \in Seq(WordsOf(ev))
        BY <1>3, <1>5
      <3> QED
        BY <3>1, ConcatGrows
    <2>2. 1 \in 1 .. Len(heads) /\ Len(heads) + Len(amcs) = 1 + nAMC
      BY <1>3, <1>5
    <2> QED
      BY <1>3, <1>5, <2>1, <2>2, Zenon
  <1> HIDE DEF front, body
  <1>11. whole \in Seq(WordsOf(ev)) /\ Encloses(whole, front, body, tails)
    BY <1>4, <1>8, <1>10, Enclosed, Zenon
  <1> HIDE DEF whole
  <1>12. Len(whole) = 1 + nAMC + nAMC * nb + 1
    BY <1>4, <1>8, <1>10, <1>11, Zenon DEF Encloses
  <1>13. whole[1] = Word("AMC13", nAMC, 0) /\ \A i \in AMC : whole[1 + (i + 1)] = AMCWord(nt_store, b, i)
    <2>1. \A k \in 1 .. 1 + nAMC : whole[k] = front[k]
      BY <1>10, <1>11, Zenon DEF Encloses
    <2>2. 1 \in 1 .. 1 + nAMC /\ \A i \in AMC : 1 + (i + 1) \in 1 .. 1 + nAMC
      BY Sizes DEF AMC
    <2> QED
      BY <1>10, <2>1, <2>2, Zenon
  <1>14. ASSUME NEW i \in AMC, NEW k \in 1 .. nb
         PROVE  whole[1 + nAMC + (i * nb + k)] = Payload(source, b * BlockWords + i * nt_store, nb)[k]
    <2>1. i \in Nat /\ i + 1 <= nAMC
      BY Sizes DEF AMC
    <2>2. body[i * nb + k] = payloads[i + 1][k]
      <3>1. body[((i + 1) - 1) * nb + k] = payloads[i + 1][k]
        BY <1>7, <1>8, Zenon
      <3> QED
        BY <1>7, <3>1, Zenon
    <2>3. i * nb + k \in 1 .. nAMC * nb
      <3> DEFINE x == i * nb
                 y == nAMC * nb
      <3>1. x \in Nat /\ y \in Nat /\ x + nb <= y
        <4>1. y = x + (nAMC - i) * nb /\ x \in Nat /\ y \in Nat
          BY <1>1, <2>1, Sizes, SMTT(30)
        <4>2. (nAMC - i) * nb >= nb /\ (nAMC - i) * nb \in Nat
          BY <1>1, <2>1, Sizes
        <4> DEFINE z == (nAMC - i) * nb
        <4> HIDE DEF x, y, z
        <4>3. y = x + z /\ z >= nb /\ z \in Nat
          BY <4>1, <4>2 DEF z
        <4> QED
          BY <1>1, <4>1, <4>3, SMTT(30)
      <3> HIDE DEF x, y
      <3>2. x + k \in 1 .. y
        BY <1>1, <3>1
      <3> QED
        BY <3>2 DEF x, y
    <2>4. whole[1 + nAMC + (i * nb + k)] = body[i * nb + k]
      BY <1>8, <1>10, <1>11, <2>3, Zenon DEF Encloses
    <2> QED
      BY <1>7, <2>2, <2>4
  <1>15. whole[1 + nAMC + nAMC * nb + 1].kind = "blocktail"
    <2>1. 1 \in 1 .. Len(tails)
      BY <1>4
    <2> QED
      BY <1>4, <1>8, <1>10, <1>11, <2>1, ZenonT(60) DEF Encloses
  <1> QED
    BY <1>2, <1>11, <1>12, <1>13, <1>14, <1>15, Zenon DEF nb

-----------------------------------------------------------------------------
(* A fill has as many blocks as take the data of a module.                  *)
LEMMA StoreTyped ==
  ASSUME NEW rider_header \in BOOLEAN
  PROVE  /\ nt_words_store(rider_header) \in Nat \ {0}
         /\ ~ rider_header => nt_words_store(rider_header) = nCHAN * waveform_length
         /\ rider_header => nt_words_store(rider_header) > 5
  <1>1. nCHAN * waveform_length \in Nat \ {0}
    BY Sizes
  <1> QED
    BY <1>1, Sizes DEF nt_words_store

LEMMA BlockCount ==
  ASSUME NEW rider_header \in BOOLEAN
  PROVE  /\ nBlocks(rider_header) \in Nat \ {0}
         /\ (nBlocks(rider_header) - 1) * BlockWords < nt_words_store(rider_header)
         /\ nt_words_store(rider_header) <= nBlocks(rider_header) * BlockWords
  <1> DEFINE nt == nt_words_store(rider_header)
             count == nBlocks(rider_header)
  <1>1. nt \in Nat \ {0} /\ BlockWords \in Nat \ {0} /\ count = (nt + BlockWords - 1) \div BlockWords
    BY StoreTyped, Sizes DEF nBlocks
  <1> HIDE DEF nt, count
  <1>2. \A a \in Nat, b \in Nat \ {0} : /\ a \div b \in Nat /\ a % b \in 0 .. b - 1
                                       /\ a = b * (a \div b) + (a % b)
    OBVIOUS
  <1>3. nt + BlockWords - 1 \in Nat
    BY <1>1
  <1>4. PICK r \in 0 .. BlockWords - 1 : count \in Nat /\ nt + BlockWords - 1 = BlockWords * count + r
    BY <1>1, <1>2, <1>3
  <1>5. BlockWords * count = count * BlockWords /\ (count - 1) * BlockWords = count * BlockWords - BlockWords
        /\ count * BlockWords \in Nat
    BY <1>1, <1>4
  <1>6. (count - 1) * BlockWords < nt /\ nt <= count * BlockWords
    BY <1>1, <1>4, <1>5
  <1>7. count # 0
    BY <1>1, <1>4, <1>6
  <1> QED
    BY <1>4, <1>6, <1>7 DEF nt, count

(* The blocks before the last are full, the last has the rest.              *)
LEMMA BlocksOfFill ==
  ASSUME NEW nt \in Nat, NEW count \in Nat \ {0}, (count - 1) * BlockWords < nt, nt <= count * BlockWords,
         NEW b \in 0 .. count - 1
  PROVE  /\ b * BlockWords < nt /\ b * BlockWords \in Nat
         /\ InBlock(nt, b) \in 1 .. BlockWords
         /\ b * BlockWords + InBlock(nt, b) <= nt
         /\ b < count - 1 => InBlock(nt, b) = BlockWords /\ InBlock(nt, b) < nt - b * BlockWords
         /\ b = count - 1 => b * BlockWords + InBlock(nt, b) = nt
  <1> DEFINE x == b * BlockWords
             y == (count - 1) * BlockWords
  <1>1. b \in Nat /\ count - 1 - b \in Nat /\ BlockWords \in Nat \ {0}
    BY Sizes
  <1>2. y = x + (count - 1 - b) * BlockWords /\ x \in Nat /\ y \in Nat
    BY <1>1
  <1>3. (count - 1 - b) * BlockWords \in Nat /\ (b < count - 1 => (count - 1 - b) * BlockWords >= BlockWords)
    BY <1>1
  <1> DEFINE z == (count - 1 - b) * BlockWords
  <1>4. count * BlockWords = y + BlockWords
    BY <1>1
  <1>5. InBlock(nt, b) = IF nt - x <= BlockWords THEN nt - x ELSE BlockWords
    BY DEF InBlock
  <1>6. y < nt /\ nt <= count * BlockWords
    OBVIOUS
  <1>7. z \in Nat /\ y = x + z /\ (b < count - 1 => z >= BlockWords) /\ (b = count - 1 => z = 0)
    BY <1>1, <1>2, <1>3
  <1> HIDE DEF x, y, z
  <1>8. x < nt /\ nt <= y + BlockWords
    BY <1>2, <1>4, <1>6, <1>7
  <1>9. /\ InBlock(nt, b) \in 1 .. BlockWords /\ x + InBlock(nt, b) <= nt
        /\ b < count - 1 => InBlock(nt, b) = BlockWords /\ InBlock(nt, b) < nt - x
        /\ b = count - 1 => x + InBlock(nt, b) = nt
    BY <1>1, <1>2, <1>5, <1>6, <1>7, <1>8
  <1> QED
    BY <1>2, <1>8, <1>9 DEF x

(* What the packer takes the data of a fill from: the waveform of a segment *)
(* is where FirstSample says.                                               *)
Source(rider_header, ev) == IF rider_header THEN pack_rider_data(ev) ELSE SimData(ev)

LEMMA SourceTyped ==
  ASSUME NEW rider_header \in BOOLEAN, NEW ev \in Int
  PROVE  /\ Source(rider_header, ev) \in Seq(WordsOf(ev))
         /\ rider_header => Len(Source(rider_header, ev)) = nAMC * nt_words_store(rider_header)
         /\ ~ rider_header => Len(Source(rider_header, ev)) = calo_segments * waveform_length
         /\ \A a \in AMC, c \in Chan, q \in 1 .. waveform_length :
              a * nCHAN + c < calo_segments
                => Source(rider_header, ev)[FirstSample(rider_header, a, c) + q]
                     = SimWord(ev, (a * nCHAN + c) * waveform_length + q)
  <1>1. CASE rider_header
    <2>1. rider_header = TRUE /\ Source(rider_header, ev) = pack_rider_data(ev)
      BY <1>1, Zenon DEF Source
    <2> QED
      BY <2>1, RiderTyped, ZenonT(60)
  <1>2. CASE ~ rider_header
    <2>1. Source(rider_header, ev) = SimData(ev)
      BY <1>2, Zenon DEF Source
    <2>2. \A a \in AMC, c \in Chan : FirstSample(rider_header, a, c) = (a * nCHAN + c) * waveform_length
      BY <1>2, Zenon DEF FirstSample
    <2>3. ASSUME NEW a \in AMC, NEW c \in Chan, NEW q \in 1 .. waveform_length, a * nCHAN + c < calo_segments
          PROVE  (a * nCHAN + c) * waveform_length + q \in 1 .. calo_segments * waveform_length
      <3> DEFINE i == a * nCHAN + c
      <3>1. i \in Nat /\ i + 1 <= calo_segments
        BY <2>3, Sizes DEF AMC, Chan
      <3> HIDE DEF i
      <3> DEFINE x == i * waveform_length
                 y == calo_segments * waveform_length
                 z == (calo_segments - (i + 1)) * waveform_length
      <3>2. x \in Nat /\ y \in Nat /\ z \in Nat
        BY <3>1, Sizes
      <3>3. y = x + waveform_length + z
        BY <3>1, Sizes
      <3> HIDE DEF x, y, z
      <3>4. x + q \in 1 .. y
        BY <3>2, <3>3, Sizes
      <3> QED
        BY <3>4 DEF x, y, i
    <2> QED
      BY <1>2, <2>1, <2>2, <2>3, SimDataTyped, Zenon
  <1> QED
    BY <1>1, <1>2, Zenon

-----------------------------------------------------------------------------
(* Where the words of a fill are: block b comes after Before(b) words, and  *)
(* has BlockLen words if it is not the last.                                *)
BlockLen == nAMC * BlockWords + (nAMC + 2)
Before(b) == b * BlockLen + 1
DataAt(b) == Before(b) + (1 + nAMC)
TailAt(nt, b) == DataAt(b) + nAMC * InBlock(nt, b) + 1
FillLen(nt, count) == TailAt(nt, count - 1) + 1

LEMMA PlacesTyped ==
  ASSUME NEW nt \in Nat, NEW count \in Nat \ {0}, (count - 1) * BlockWords < nt, nt <= count * BlockWords,
         NEW b \in 0 .. count - 1
  PROVE  /\ Before(b) \in Nat \ {0} /\ nAMC * InBlock(nt, b) \in Nat
         /\ DataAt(b) = Before(b) + 1 + nAMC
         /\ TailAt(nt, b) \in Nat /\ TailAt(nt, b) = DataAt(b) + nAMC * InBlock(nt, b) + 1
         /\ b < count - 1 => Before(b + 1) = TailAt(nt, b)
         /\ b = count - 1 => FillLen(nt, count) = TailAt(nt, b) + 1
         /\ TailAt(nt, b) < FillLen(nt, count)
  <1>1. b \in Nat /\ InBlock(nt, b) \in Nat /\ (b < count - 1 => InBlock(nt, b) = BlockWords)
    <2>1. InBlock(nt, b) \in 1 .. BlockWords /\ (b < count - 1 => InBlock(nt, b) = BlockWords)
      BY BlocksOfFill
    <2> QED
      BY <2>1
  <1>2. nAMC * BlockWords \in Nat /\ BlockLen \in Nat /\ BlockLen = nAMC * BlockWords + (nAMC + 2)
    BY Sizes DEF BlockLen
  <1>3. nAMC * InBlock(nt, b) \in Nat
    BY <1>1, Sizes
  <1>4. b * BlockLen \in Nat /\ (b + 1) * BlockLen = b * BlockLen + BlockLen
    BY <1>1, <1>2
  <1>5. /\ Before(b) = b * BlockLen + 1 /\ Before(b + 1) = b * BlockLen + BlockLen + 1
        /\ DataAt(b) = Before(b) + (1 + nAMC)
        /\ TailAt(nt, b) = DataAt(b) + nAMC * InBlock(nt, b) + 1
    BY <1>4 DEF Before, DataAt, TailAt
  <1> DEFINE x == b * BlockLen
             y == nAMC * InBlock(nt, b)
             z == nAMC * BlockWords
  <1>6. /\ x \in Nat /\ y \in Nat /\ z \in Nat /\ Before(b) = x + 1 /\ Before(b + 1) = x + BlockLen + 1
        /\ BlockLen = z + (nAMC + 2) /\ nAMC \in Nat /\ TailAt(nt, b) = DataAt(b) + y + 1
        /\ DataAt(b) = Before(b) + (1 + nAMC)
        /\ b < count - 1 => y = z
    <2>1. b < count - 1 => nAMC * InBlock(nt, b) = nAMC * BlockWords
      BY <1>1
    <2> QED
      BY <1>2, <1>3, <1>4, <1>5, <2>1, Sizes
  <1>7. FillLen(nt, count) = TailAt(nt, count - 1) + 1
    BY DEF FillLen
  <1>8. b < count - 1 => (count - 1) * BlockLen >= x + BlockLen
    <2> SUFFICES ASSUME b < count - 1 PROVE (count - 1) * BlockLen >= x + BlockLen
      OBVIOUS
    <2>1. (count - 1) * BlockLen = (b + 1) * BlockLen + (count - 2 - b) * BlockLen
      BY <1>1, <1>2
    <2>2. count - 2 - b \in Nat
      BY <1>1
    <2>3. (count - 2 - b) * BlockLen \in Nat
      BY <1>2, <2>2
    <2>4. (count - 1) * BlockLen = (x + BlockLen) + (count - 2 - b) * BlockLen
      BY <1>4, <2>1
    <2> HIDE DEF x
    <2> DEFINE u == (count - 2 - b) * BlockLen
               v == (count - 1) * BlockLen
    <2>5. u \in Nat /\ v = (x + BlockLen) + u
      BY <2>3, <2>4
    <2> HIDE DEF u, v
    <2>6. v >= x + BlockLen
      BY <1>2, <1>6, <2>5
    <2> QED
      BY <2>6 DEF v
  <1>9. TailAt(nt, count - 1) >= (count - 1) * BlockLen + 1 /\ TailAt(nt, count - 1) \in Nat
    <2> DEFINE e == count - 1
    <2>1. e \in 0 .. count - 1 /\ e * BlockWords < nt
      OBVIOUS
    <2>2. InBlock(nt, count - 1) \in 1 .. BlockWords
      BY <2>1, BlocksOfFill
    <2>3. InBlock(nt, e) \in Nat /\ nAMC * InBlock(nt, e) \in Nat
      BY <2>2, Sizes
    <2>4. e * BlockLen \in Nat
      BY <1>2, <2>1
    <2>5. TailAt(nt, e) = e * BlockLen + 1 + (1 + nAMC) + nAMC * InBlock(nt, e) + 1
      BY DEF TailAt, DataAt, Before
    <2> HIDE DEF e
    <2> DEFINE u == nAMC * InBlock(nt, e)
               v == e * BlockLen
    <2>6. u \in Nat /\ v \in Nat /\ TailAt(nt, e) = v + 1 + (1 + nAMC) + u + 1
      BY <2>3, <2>4, <2>5
    <2> HIDE DEF u, v
    <2>7. TailAt(nt, e) >= v + 1 /\ TailAt(nt, e) \in Nat
      BY <2>6, Sizes
    <2> QED
      BY <2>7 DEF v, e
  <1> DEFINE w == (count - 1) * BlockLen
  <1>10. /\ b < count - 1 => w >= x + BlockLen
         /\ TailAt(nt, count - 1) >= w + 1 /\ w \in Nat
    <2>1. (count - 1) * BlockLen \in Nat
      BY <1>2
    <2> QED
      BY <1>8, <1>9, <2>1
  <1> HIDE DEF x, y, z, w
  <1>11. /\ Before(b) \in Nat \ {0} /\ DataAt(b) = Before(b) + 1 + nAMC
         /\ TailAt(nt, b) \in Nat
         /\ b < count - 1 => Before(b + 1) = TailAt(nt, b)
    BY <1>6
  <1>12. b = count - 1 => FillLen(nt, count) = TailAt(nt, b) + 1
    BY <1>7
  <1>13. TailAt(nt, b) < FillLen(nt, count)
    <2>1. CASE b = count - 1
      BY <1>11, <1>12, <2>1
    <2>2. CASE b < count - 1
      <3>1. TailAt(nt, b) = x + BlockLen + 1
        BY <1>6, <1>11, <2>2
      <3> QED
        BY <1>2, <1>6, <1>7, <1>9, <1>10, <2>2, <3>1
    <2> QED
      BY <1>1, <2>1, <2>2
  <1> QED
    BY <1>3, <1>5, <1>11, <1>12, <1>13

LEMMA PackedTyped ==
  ASSUME NEW rider_header \in BOOLEAN, NEW ev \in Int, NEW n \in Nat
  PROVE  LET nt == nt_words_store(rider_header)
             count == nBlocks(rider_header)
             words == pack_amc13_data(rider_header, ev, n)
         IN /\ words \in Seq(WordsOf(ev)) /\ Len(words) = FillLen(nt, count)
            /\ words[1] = Word("CDF", n, 0) /\ words[FillLen(nt, count)].kind = "CDFtrailer"
            /\ \A b \in 0 .. count - 1, k \in 1 .. BlockLen :
                 k <= Len(Block(Source(rider_header, ev), nt, b, n))
                   => words[Before(b) + k] = Block(Source(rider_header, ev), nt, b, n)[k]
  <1> DEFINE nt == nt_words_store(rider_header)
             count == nBlocks(rider_header)
             source == Source(rider_header, ev)
             all == [b \in 1 .. count |-> Block(source, nt, b - 1, n)]
             blocks == FlattenSeq(all)
             heads == << Word("CDF", n, 0) >>
             tails == << Word("CDFtrailer", 1 + Len(blocks), 0) >>
             words == heads \o blocks \o tails
  <1>1. /\ nt \in Nat /\ count \in Nat \ {0} /\ (count - 1) * BlockWords < nt /\ nt <= count * BlockWords
        /\ source \in Seq(WordsOf(ev))
    BY StoreTyped, BlockCount, SourceTyped
  <1>2. pack_amc13_data(rider_header, ev, n) = words
    BY Zenon DEF pack_amc13_data, Source
  <1> HIDE DEF nt, count, source
  <1>3. ASSUME NEW b \in 0 .. count - 1
        PROVE  /\ Block(source, nt, b, n) \in Seq(WordsOf(ev))
               /\ Len(Block(source, nt, b, n)) \in Nat
               /\ Len(Block(source, nt, b, n)) = nAMC + nAMC * InBlock(nt, b) + 2
               /\ b < count - 1 => Len(Block(source, nt, b, n)) = BlockLen
    <2>1. b \in Nat /\ b * BlockWords < nt /\ (b < count - 1 => InBlock(nt, b) = BlockWords)
      BY <1>1, BlocksOfFill
    <2>2. /\ Block(source, nt, b, n) \in Seq(WordsOf(ev))
          /\ Len(Block(source, nt, b, n)) = 1 + nAMC + nAMC * InBlock(nt, b) + 1
      <3>1. source \in Seq(WordsOf(ev)) /\ nt \in Nat /\ b \in Nat /\ b * BlockWords < nt
        BY <1>1, <2>1
      <3> QED
        BY <3>1, BlockTyped, SMTT(30)
    <2>3. nAMC * InBlock(nt, b) \in Nat
      BY <1>1, PlacesTyped
    <2>4. Len(Block(source, nt, b, n)) = nAMC + nAMC * InBlock(nt, b) + 2
      <3> DEFINE y == nAMC * InBlock(nt, b)
      <3>1. y \in Nat /\ Len(Block(source, nt, b, n)) = 1 + nAMC + y + 1
        BY <2>2, <2>3
      <3> HIDE DEF y
      <3>2. Len(Block(source, nt, b, n)) = nAMC + y + 2
        BY <3>1, Sizes
      <3> QED
        BY <3>2 DEF y
    <2>5. b < count - 1 => Len(Block(source, nt, b, n)) = BlockLen
      <3> SUFFICES ASSUME b < count - 1 PROVE Len(Block(source, nt, b, n)) = BlockLen
        OBVIOUS
      <3>1. InBlock(nt, b) = BlockWords
        BY <2>1
      <3> DEFINE y == nAMC * BlockWords
      <3>2. y \in Nat /\ Len(Block(source, nt, b, n)) = nAMC + y + 2 /\ BlockLen = y + (nAMC + 2)
        BY <2>3, <2>4, <3>1 DEF BlockLen
      <3> HIDE DEF y
      <3> QED
        BY <3>2, Sizes
    <2>6. Len(Block(source, nt, b, n)) \in Nat
      BY <2>2
    <2> QED
      BY <2>2, <2>4, <2>5, <2>6
  <1>4. BlockLen \in Nat
    <2>1. nAMC * BlockWords \in Nat
      BY Sizes
    <2> QED
      BY <2>1, Sizes DEF BlockLen
  <1>5. \A b \in 0 .. count - 1 : b + 1 \in 1 .. count /\ all[b + 1] = Block(source, nt, b, n)
    <2>1. \A b \in 0 .. count - 1 : b + 1 \in 1 .. count /\ (b + 1) - 1 = b
      BY <1>1
    <2> QED
      BY <2>1
  <1>6. all \in Seq(Seq(WordsOf(ev))) /\ Len(all) = count
        /\ \A i \in 1 .. count : i < count => Len(all[i]) = BlockLen
    <2>1. \A i \in 1 .. count : /\ all[i] \in Seq(WordsOf(ev))
                                /\ i < count => Len(all[i]) = BlockLen
      <3> SUFFICES ASSUME NEW i \in 1 .. count
                   PROVE  /\ all[i] \in Seq(WordsOf(ev))
                          /\ i < count => Len(all[i]) = BlockLen
        OBVIOUS
      <3>1. i - 1 \in 0 .. count - 1 /\ (i < count => i - 1 < count - 1) /\ all[i] = Block(source, nt, i - 1, n)
        BY <1>1
      <3> HIDE DEF all
      <3> QED
        BY <1>3, <3>1
    <2>2. all = [b \in 1 .. count |-> all[b]]
      OBVIOUS
    <2> HIDE DEF all
    <2>3. all \in [1 .. count -> Seq(WordsOf(ev))]
      BY <2>1, <2>2
    <2> QED
      BY <1>1, <2>1, <2>3, FunctionIsSeq
  <1> HIDE DEF all
  <1>7. blocks \in Seq(WordsOf(ev)) /\ LaidOut(blocks, all, count, BlockLen)
    BY <1>1, <1>4, <1>6, FlattenAt, ZenonT(60)
  <1> HIDE DEF blocks
  <1>8. Len(blocks) \in Nat /\ Len(blocks) = (count - 1) * BlockLen + Len(Block(source, nt, count - 1, n))
    <2> DEFINE e == count - 1
    <2>1. e \in 0 .. count - 1 /\ e + 1 = count
      BY <1>1
    <2>2. all[count] = Block(source, nt, count - 1, n)
      <3>1. all[e + 1] = Block(source, nt, e, n)
        BY <1>5, <2>1, Zenon
      <3> QED
        BY <2>1, <3>1
    <2>3. Len(blocks) \in Nat
      BY <1>7
    <2> QED
      BY <1>7, <2>2, <2>3, Zenon DEF LaidOut
  <1>9. heads \in Seq(WordsOf(ev)) /\ Len(heads) = 1 /\ heads[1] = Word("CDF", n, 0)
    BY FormatWordTyped, SMTT(30) DEF FormatWord
  <1>10. tails \in Seq(WordsOf(ev)) /\ Len(tails) = 1 /\ tails[1].kind = "CDFtrailer"
    <2>1. 1 + Len(blocks) \in Int
      BY <1>8
    <2> QED
      BY <2>1, FormatWordTyped DEF FormatWord
  <1> HIDE DEF heads, tails
  <1>11. words \in Seq(WordsOf(ev)) /\ Encloses(words, heads, blocks, tails)
    BY <1>7, <1>9, <1>10, Enclosed, Zenon
  <1> HIDE DEF words
  <1>12. 1 + Len(blocks) + 1 = FillLen(nt, count)
    <2> DEFINE e == count - 1
               x == e * BlockLen
               y == nAMC * InBlock(nt, e)
    <2>1. e \in 0 .. count - 1
      BY <1>1
    <2>2. Len(Block(source, nt, e, n)) = nAMC + y + 2 /\ y \in Nat /\ x \in Nat
      BY <1>1, <1>3, <1>4, <2>1, PlacesTyped
    <2>3. FillLen(nt, count) = (x + 1) + (1 + nAMC) + y + 1 + 1
      BY DEF FillLen, TailAt, DataAt, Before
    <2>4. Len(blocks) = x + Len(Block(source, nt, e, n))
      BY <1>8
    <2> HIDE DEF e, x, y
    <2> QED
      BY <2>2, <2>3, <2>4, Sizes
  <1>13. Len(words) = FillLen(nt, count) /\ words[1] = Word("CDF", n, 0)
         /\ words[FillLen(nt, count)].kind = "CDFtrailer"
    <2>1. Len(words) = 1 + Len(blocks) + 1 /\ words[1 + Len(blocks) + 1] = tails[1] /\ words[1] = heads[1]
      <3>1. 1 \in 1 .. Len(tails) /\ 1 \in 1 .. Len(heads)
        BY <1>9, <1>10
      <3> QED
        BY <1>9, <1>10, <1>11, <3>1, Zenon DEF Encloses
    <2> QED
      BY <1>9, <1>10, <1>12, <2>1, Zenon
  <1>14. ASSUME NEW b \in 0 .. count - 1, NEW k \in 1 .. BlockLen, k <= Len(Block(source, nt, b, n))
         PROVE  words[Before(b) + k] = Block(source, nt, b, n)[k]
    <2>1. k \in 1 .. Len(Block(source, nt, b, n))
      BY <1>3, <1>4, <1>14
    <2>2. blocks[((b + 1) - 1) * BlockLen + k] = all[b + 1][k]
      <3>1. k \in 1 .. Len(all[b + 1]) /\ b + 1 \in 1 .. count
        BY <1>5, <2>1, Zenon
      <3> QED
        BY <1>7, <3>1, Zenon DEF LaidOut
    <2>3. (b + 1) - 1 = b
      OBVIOUS
    <2>4. blocks[b * BlockLen + k] = Block(source, nt, b, n)[k]
      BY <1>5, <2>2, <2>3
    <2>5. b * BlockLen + k \in 1 .. Len(blocks)
      <3> DEFINE x == b * BlockLen
                 w == (count - 1) * BlockLen
                 len == Len(Block(source, nt, b, n))
      <3>1. x \in Nat /\ w \in Nat /\ len \in Nat /\ k \in 1 .. len
        BY <1>1, <1>3, <1>4, <2>1
      <3>2. CASE b = count - 1
        <4>1. Len(blocks) = x + len
          BY <1>8, <3>2
        <4> HIDE DEF x, len
        <4>2. x + k \in 1 .. Len(blocks)
          BY <3>1, <4>1
        <4> QED
          BY <4>2 DEF x
      <3>3. CASE b < count - 1
        <4>1. len = BlockLen
          BY <1>3, <3>3
        <4>2. Len(blocks) >= w
          <5>1. count - 1 \in 0 .. count - 1
            BY <1>1
          <5>2. Len(Block(source, nt, count - 1, n)) \in Nat
            BY <1>3, <5>1
          <5>3. Len(blocks) = w + Len(Block(source, nt, count - 1, n))
            BY <1>8
          <5> HIDE DEF w
          <5> QED
            BY <3>1, <5>2, <5>3
        <4>3. w = x + (count - 1 - b) * BlockLen /\ (count - 1 - b) * BlockLen >= BlockLen
          <5>1. count - 1 - b \in Nat /\ count - 1 - b >= 1
            BY <1>1, <3>3
          <5>2. \A d \in Nat : d >= 1 => d * BlockLen >= BlockLen
            BY <1>4
          <5> QED
            BY <1>1, <1>4, <5>1, <5>2
        <4> DEFINE u == (count - 1 - b) * BlockLen
        <4>4. w = x + u /\ u >= BlockLen /\ u \in Int
          BY <1>1, <1>4, <4>3
        <4> HIDE DEF x, w, u, len
        <4>5. x + k \in 1 .. Len(blocks)
          BY <1>4, <1>8, <3>1, <4>1, <4>2, <4>4
        <4> QED
          BY <4>5 DEF x
      <3>4. b < count - 1 \/ b = count - 1
        BY <1>1
      <3> QED
        BY <3>2, <3>3, <3>4
    <2>6. words[1 + (b * BlockLen + k)] = blocks[b * BlockLen + k]
      BY <1>9, <1>11, <2>5, Zenon DEF Encloses
    <2>7. Before(b) + k = 1 + (b * BlockLen + k)
      <3>1. b * BlockLen \in Nat
        BY <1>4
      <3> DEFINE x == b * BlockLen
      <3>2. x \in Nat /\ Before(b) = x + 1
        BY <3>1 DEF Before
      <3> HIDE DEF x
      <3>3. Before(b) + k = 1 + (x + k)
        BY <3>2
      <3> QED
        BY <3>3 DEF x
    <2> QED
      BY <2>4, <2>6, <2>7
  <1> QED
    BY <1>2, <1>11, <1>13, <1>14, Zenon DEF nt, count, source

LEMMA PackedBlock ==
  ASSUME NEW rider_header \in BOOLEAN, NEW ev \in Int, NEW n \in Nat,
         NEW b \in 0 .. nBlocks(rider_header) - 1
  PROVE  LET nt == nt_words_store(rider_header)
             words == pack_amc13_data(rider_header, ev, n)
         IN /\ words[Before(b) + 1] = Word("AMC13", nAMC, 0)
            /\ \A i \in AMC : words[Before(b) + (1 + (i + 1))] = AMCWord(nt, b, i)
            /\ \A i \in AMC, k \in 1 .. InBlock(nt, b) :
                 words[DataAt(b) + (i * InBlock(nt, b) + k)]
                   = Payload(Source(rider_header, ev), b * BlockWords + i * nt, InBlock(nt, b))[k]
            /\ words[TailAt(nt, b)].kind = "blocktail"
  <1> DEFINE nt == nt_words_store(rider_header)
             count == nBlocks(rider_header)
             words == pack_amc13_data(rider_header, ev, n)
             source == Source(rider_header, ev)
             nb == InBlock(nt, b)
             block == Block(source, nt, b, n)
  <1>1. /\ nt \in Nat /\ count \in Nat \ {0} /\ (count - 1) * BlockWords < nt /\ nt <= count * BlockWords
        /\ source \in Seq(WordsOf(ev)) /\ b \in 0 .. count - 1
    BY StoreTyped, BlockCount, SourceTyped
  <1>2. \A k \in 1 .. BlockLen : k <= Len(block) => words[Before(b) + k] = block[k]
    BY PackedTyped, ZenonT(60)
  <1> HIDE DEF nt, count, words, source
  <1>3. b \in Nat /\ b * BlockWords < nt /\ nb \in 1 .. BlockWords /\ nb \in Nat /\ nb <= BlockWords
    <2>1. b \in Nat /\ b * BlockWords < nt /\ nb \in 1 .. BlockWords
      BY <1>1, BlocksOfFill
    <2> HIDE DEF nb
    <2> QED
      BY <2>1
  <1>4. /\ Len(block) = 1 + nAMC + nAMC * nb + 1
        /\ block[1] = Word("AMC13", nAMC, 0)
        /\ \A i \in AMC : block[1 + (i + 1)] = AMCWord(nt, b, i)
        /\ \A i \in AMC, k \in 1 .. nb :
             block[1 + nAMC + (i * nb + k)] = Payload(source, b * BlockWords + i * nt, nb)[k]
        /\ block[1 + nAMC + nAMC * nb + 1].kind = "blocktail"
    <2>1. source \in Seq(WordsOf(ev)) /\ nt \in Nat /\ b \in Nat /\ b * BlockWords < nt
      BY <1>1, <1>3
    <2> QED
      BY <2>1, BlockTyped, SMTT(30)
  <1>5. /\ Before(b) \in Nat /\ nAMC * nb \in Nat /\ DataAt(b) = Before(b) + (1 + nAMC)
        /\ TailAt(nt, b) = DataAt(b) + nAMC * nb + 1
    BY <1>1, PlacesTyped DEF DataAt
  <1> HIDE DEF nb, block
  <1>6. /\ nAMC * BlockWords \in Nat /\ nAMC * nb <= nAMC * BlockWords
        /\ BlockLen = nAMC * BlockWords + (nAMC + 2)
    <2>1. nAMC * BlockWords = nAMC * nb + nAMC * (BlockWords - nb) /\ BlockWords - nb \in Nat
      BY <1>3, Sizes
    <2>2. nAMC * BlockWords \in Nat /\ nAMC * (BlockWords - nb) \in Nat
      BY <2>1, Sizes
    <2> DEFINE x == nAMC * BlockWords
               y == nAMC * nb
               z == nAMC * (BlockWords - nb)
    <2>3. x = y + z /\ y \in Nat /\ z \in Nat
      BY <1>5, <2>1, <2>2
    <2> HIDE DEF x, y, z
    <2>4. y <= x
      BY <2>3
    <2> QED
      BY <2>2, <2>4 DEF x, y, BlockLen
  <1> DEFINE x == nAMC * BlockWords
             y == nAMC * nb
  <1>7. x \in Nat /\ y \in Nat /\ y <= x /\ BlockLen = x + (nAMC + 2) /\ Len(block) = 1 + nAMC + y + 1
    BY <1>4, <1>5, <1>6
  <1>8. words[Before(b) + 1] = Word("AMC13", nAMC, 0)
    <2> HIDE DEF x, y
    <2>1. 1 \in 1 .. BlockLen /\ 1 <= Len(block)
      BY <1>7, Sizes
    <2> QED
      BY <1>2, <1>4, <2>1, Zenon
  <1>9. ASSUME NEW i \in AMC PROVE words[Before(b) + (1 + (i + 1))] = AMCWord(nt, b, i)
    <2> HIDE DEF x, y
    <2>1. 1 + (i + 1) \in 1 .. BlockLen /\ 1 + (i + 1) <= Len(block)
      BY <1>7, Sizes DEF AMC
    <2> QED
      BY <1>2, <1>4, <2>1, Zenon
  <1>10. ASSUME NEW i \in AMC, NEW k \in 1 .. nb
         PROVE  words[DataAt(b) + (i * nb + k)] = Payload(source, b * BlockWords + i * nt, nb)[k]
    <2>1. i * nb \in Nat /\ i * nb + nb <= y
      <3>1. i \in Nat /\ nAMC - (i + 1) \in Nat
        BY Sizes DEF AMC
      <3>2. nAMC * nb = i * nb + nb + (nAMC - (i + 1)) * nb
        BY <1>3, <3>1, Sizes
      <3>3. i * nb \in Nat /\ (nAMC - (i + 1)) * nb \in Nat
        BY <1>3, <3>1
      <3> DEFINE u == i * nb
                 v == (nAMC - (i + 1)) * nb
      <3>4. y = u + nb + v /\ u \in Nat /\ v \in Nat
        BY <3>2, <3>3
      <3> HIDE DEF u, v, y
      <3>5. u \in Nat /\ u + nb <= y
        BY <1>3, <3>4
      <3> QED
        BY <3>5 DEF u
    <2> DEFINE u == i * nb
    <2>2. u \in Nat /\ u + nb <= y
      BY <2>1
    <2> HIDE DEF u, x, y
    <2>3. 1 + nAMC + (u + k) \in 1 .. BlockLen /\ 1 + nAMC + (u + k) <= Len(block)
      BY <1>3, <1>7, <2>2, Sizes
    <2>4. DataAt(b) + (u + k) = Before(b) + (1 + nAMC + (u + k))
      BY <1>3, <1>5, <2>2, Sizes
    <2>5. words[Before(b) + (1 + nAMC + (u + k))] = block[1 + nAMC + (u + k)]
      BY <1>2, <2>3, Zenon
    <2>6. block[1 + nAMC + (u + k)] = Payload(source, b * BlockWords + i * nt, nb)[k]
      BY <1>4, Zenon DEF u
    <2> QED
      BY <2>4, <2>5, <2>6 DEF u
  <1>11. words[TailAt(nt, b)].kind = "blocktail"
    <2> HIDE DEF x, y
    <2>1. 1 + nAMC + y + 1 \in 1 .. BlockLen /\ 1 + nAMC + y + 1 <= Len(block)
      BY <1>7, Sizes
    <2>2. TailAt(nt, b) = Before(b) + (1 + nAMC + y + 1)
      <3>1. TailAt(nt, b) = DataAt(b) + y + 1
        BY <1>5 DEF y
      <3> QED
        BY <1>5, <1>7, <3>1, Sizes
    <2>3. words[Before(b) + (1 + nAMC + y + 1)] = block[1 + nAMC + y + 1]
      BY <1>2, <2>1, Zenon
    <2>4. block[1 + nAMC + y + 1].kind = "blocktail"
      BY <1>4 DEF y
    <2> QED
      BY <2>2, <2>3, <2>4
  <1> QED
    BY <1>8, <1>9, <1>10, <1>11, Zenon DEF nt, words, source, nb

-----------------------------------------------------------------------------
(* Word x of the data of a fill is sample q of a waveform of event ev, if   *)
(* it is a sample at all.                                                   *)
Wanted(w, rider_header, ev, x) ==
  PartsCopied =>
    \A a \in AMC, c \in Chan, q \in 1 .. waveform_length :
      a * nCHAN + c < calo_segments /\ FirstSample(rider_header, a, c) + q = x
        => w = Word("wave", ev, (a * nCHAN + c) * waveform_length + q)

(* w can be word j of fill n with event ev.                                 *)
Inside(w, rider_header, ev, j) ==
  LET nt == nt_words_store(rider_header) IN
  /\ \A b \in 0 .. nBlocks(rider_header) - 1 :
       /\ j = Before(b) + 1 => w = Word("AMC13", nAMC, 0)
       /\ \A i \in AMC : j = Before(b) + (1 + (i + 1)) => w = AMCWord(nt, b, i)
       /\ \A i \in AMC, k \in 1 .. InBlock(nt, b) :
            j = DataAt(b) + (i * InBlock(nt, b) + k)
              => Wanted(w, rider_header, ev, b * BlockWords + i * nt + k)
       /\ j = TailAt(nt, b) => w.kind = "blocktail"
  /\ j = FillLen(nt, nBlocks(rider_header)) => w.kind = "CDFtrailer"

Fits(w, rider_header, ev, n, j) ==
  /\ w \in AnyWord
  /\ j = 1 => w = Word("CDF", n, 0)
  /\ j > 1 => Inside(w, rider_header, ev, j)

Shape(words, rider_header, ev, n) ==
  /\ words \in Seq(AnyWord) /\ Len(words) = FillLen(nt_words_store(rider_header), nBlocks(rider_header))
  /\ \A j \in 1 .. Len(words) : Fits(words[j], rider_header, ev, n, j)

(* The protection does not leave out what is wanted.                        *)
LEMMA PartIsWanted ==
  ASSUME NEW rider_header \in BOOLEAN, NEW ev \in Int, NEW b \in 0 .. nBlocks(rider_header) - 1,
         NEW i \in AMC, NEW k \in 1 .. InBlock(nt_words_store(rider_header), b)
  PROVE  Wanted(Payload(Source(rider_header, ev), b * BlockWords + i * nt_words_store(rider_header),
                        InBlock(nt_words_store(rider_header), b))[k],
                rider_header, ev, b * BlockWords + i * nt_words_store(rider_header) + k)
  <1> DEFINE nt == nt_words_store(rider_header)
             source == Source(rider_header, ev)
             nb == InBlock(nt, b)
             from == b * BlockWords + i * nt
  <1>1. /\ nt \in Nat /\ source \in Seq(WordsOf(ev)) /\ Len(source) \in Nat
        /\ rider_header => Len(source) = nAMC * nt
        /\ ~ rider_header => Len(source) = calo_segments * waveform_length
    <2>1. /\ nt \in Nat /\ source \in Seq(WordsOf(ev))
          /\ rider_header => Len(source) = nAMC * nt
          /\ ~ rider_header => Len(source) = calo_segments * waveform_length
      BY StoreTyped, SourceTyped, Zenon
    <2> HIDE DEF source
    <2>2. Len(source) \in Nat
      BY <2>1
    <2> QED
      BY <2>1, <2>2, Zenon
  <1>2. \A a \in AMC, c \in Chan, q \in 1 .. waveform_length :
          a * nCHAN + c < calo_segments
            => source[FirstSample(rider_header, a, c) + q]
                 = SimWord(ev, (a * nCHAN + c) * waveform_length + q)
    BY SourceTyped, Zenon
  <1>3. /\ b \in Nat /\ b * BlockWords < nt /\ b * BlockWords \in Nat
        /\ nb \in 1 .. BlockWords /\ b * BlockWords + nb <= nt
    BY StoreTyped, BlockCount, BlocksOfFill
  <1>4. i \in Nat /\ i + 1 <= nAMC
    BY Sizes DEF AMC
  <1> HIDE DEF source
  <1>5. from \in Nat /\ nb \in Nat /\ k \in Nat /\ k <= nb /\ nb >= 1
    <2>1. k \in 1 .. nb
      OBVIOUS
    <2>2. i * nt \in Nat
      <3> HIDE DEF nt
      <3> QED
        BY <1>1, <1>4
    <2> HIDE DEF nt, nb
    <2> QED
      BY <1>3, <2>1, <2>2
  <1>6. rider_header => 4 * from + nb < 4 * Len(source)
    <2> SUFFICES ASSUME rider_header PROVE 4 * from + nb < 4 * Len(source)
      OBVIOUS
    <2>0. Len(source) = nAMC * nt
      BY <1>1
    <2> HIDE DEF nt, nb
    <2>1. nAMC * nt = i * nt + nt + (nAMC - (i + 1)) * nt
      BY <1>1, <1>4, Sizes
    <2>2. i * nt \in Nat /\ (nAMC - (i + 1)) * nt \in Nat
      BY <1>1, <1>4, Sizes
    <2> DEFINE u == i * nt
               v == (nAMC - (i + 1)) * nt
               x == b * BlockWords
    <2>3. /\ Len(source) = u + nt + v /\ u \in Nat /\ v \in Nat /\ x \in Nat /\ x + nb <= nt /\ from = x + u
      BY <1>3, <2>0, <2>1, <2>2
    <2> HIDE DEF u, v, x, from
    <2> QED
      BY <1>1, <1>5, <2>3
  <1>7. ASSUME PartsCopied, NEW a \in AMC, NEW c \in Chan, NEW q \in 1 .. waveform_length,
               a * nCHAN + c < calo_segments, FirstSample(rider_header, a, c) + q = from + k
        PROVE  Payload(source, from, nb)[k] = Word("wave", ev, (a * nCHAN + c) * waveform_length + q)
    <2>1. source[from + k] = SimWord(ev, (a * nCHAN + c) * waveform_length + q)
      BY <1>2, <1>7
    <2>2. from + k \in 1 .. Len(source)
      <3>1. CASE rider_header
        <4> HIDE DEF from, nb
        <4>1. 4 * from + nb < 4 * Len(source)
          BY <1>6, <3>1
        <4>2. from + nb <= Len(source)
          <5>1. Len(source) = nAMC * nt /\ from = b * BlockWords + i * nt
            BY <1>1, <3>1 DEF from
          <5> HIDE DEF nt
          <5>2. nAMC * nt = i * nt + nt + (nAMC - (i + 1)) * nt
            BY <1>1, <1>4, Sizes
          <5>3. i * nt \in Nat /\ (nAMC - (i + 1)) * nt \in Nat
            BY <1>1, <1>4, Sizes
          <5>4. b * BlockWords \in Nat /\ b * BlockWords + nb <= nt
            BY <1>3 DEF nb, nt
          <5> DEFINE u == i * nt
                     v == (nAMC - (i + 1)) * nt
                     x == b * BlockWords
          <5>5. Len(source) = u + nt + v /\ u \in Nat /\ v \in Nat /\ x \in Nat /\ x + nb <= nt /\ from = x + u
            BY <5>1, <5>2, <5>3, <5>4
          <5> HIDE DEF u, v, x
          <5> QED
            BY <1>1, <1>5, <5>5
        <4> QED
          BY <1>1, <1>5, <4>2
      <3>2. CASE ~ rider_header
        <4>1. FirstSample(rider_header, a, c) = (a * nCHAN + c) * waveform_length
          BY <3>2, Zenon DEF FirstSample
        <4> DEFINE s == a * nCHAN + c
        <4>2. s \in Nat /\ s + 1 <= calo_segments
          BY <1>7, Sizes DEF AMC, Chan
        <4> HIDE DEF s
        <4> DEFINE u == s * waveform_length
                   v == (calo_segments - (s + 1)) * waveform_length
                   y == calo_segments * waveform_length
        <4>3. u \in Nat /\ v \in Nat /\ y = u + waveform_length + v
          BY <4>2, Sizes
        <4>4. from + k = u + q /\ Len(source) = y
          BY <1>1, <1>7, <3>2, <4>1 DEF s
        <4> HIDE DEF u, v, y, from
        <4> QED
          BY <1>5, <4>3, <4>4, Sizes
      <3> QED
        BY <3>1, <3>2
    <2>3. 4 * from + nb < 4 * Len(source)
      <3>1. CASE rider_header
        BY <1>6, <3>1
      <3>2. CASE ~ rider_header
        <4>0. rider_header = FALSE
          BY <3>2, Zenon
        <4>1. nt = nt_words_store(FALSE) /\ Len(source) = calo_segments * waveform_length
          BY <1>1, <4>0, Zenon
        <4> HIDE DEF nb
        <4>2. from < Len(source)
          <5> HIDE DEF from
          <5> QED
            BY <1>1, <1>5, <2>2
        <4>3. b \in 0 .. nBlocks(FALSE) - 1 /\ from = b * BlockWords + i * nt_words_store(FALSE)
              /\ from < calo_segments * waveform_length
          BY <4>0, <4>1, <4>2, Zenon
        <4>4. 4 * from + InBlock(nt_words_store(FALSE), b) < 4 * (calo_segments * waveform_length)
          BY <1>7, <4>3, Zenon DEF PartsCopied
        <4> QED
          BY <4>1, <4>4, Zenon DEF nb
      <3> QED
        BY <3>1, <3>2
    <2> HIDE DEF from, nb
    <2>4. Payload(source, from, nb)[k] = source[from + k]
      BY <1>1, <1>5, <2>2, <2>3, PayloadTyped, SMTT(30)
    <2> QED
      BY <2>1, <2>4, Zenon DEF SimWord
  <1> QED
    BY <1>7, Zenon DEF Wanted, nt, source, nb, from

LEMMA PackedShape ==
  ASSUME NEW rider_header \in BOOLEAN, NEW ev \in Int, NEW n \in Nat
  PROVE  Shape(pack_amc13_data(rider_header, ev, n), rider_header, ev, n)
  <1> DEFINE nt == nt_words_store(rider_header)
             count == nBlocks(rider_header)
             words == pack_amc13_data(rider_header, ev, n)
             Source1 == Source(rider_header, ev)
  <1>1. /\ words \in Seq(WordsOf(ev)) /\ Len(words) = FillLen(nt, count)
        /\ words[1] = Word("CDF", n, 0) /\ words[FillLen(nt, count)].kind = "CDFtrailer"
    BY PackedTyped, ZenonT(60)
  <1>2. \A b \in 0 .. count - 1 :
          /\ words[Before(b) + 1] = Word("AMC13", nAMC, 0)
          /\ \A i \in AMC : words[Before(b) + (1 + (i + 1))] = AMCWord(nt, b, i)
          /\ \A i \in AMC, k \in 1 .. InBlock(nt, b) :
               words[DataAt(b) + (i * InBlock(nt, b) + k)]
                 = Payload(Source1, b * BlockWords + i * nt, InBlock(nt, b))[k]
          /\ words[TailAt(nt, b)].kind = "blocktail"
    BY PackedBlock, Zenon
  <1>3. \A b \in 0 .. count - 1, i \in AMC : \A k \in 1 .. InBlock(nt, b) :
          Wanted(Payload(Source1, b * BlockWords + i * nt, InBlock(nt, b))[k], rider_header, ev,
                 b * BlockWords + i * nt + k)
    BY PartIsWanted, Zenon
  <1> HIDE DEF words, nt, count, Source1
  <1>4. words \in Seq(AnyWord) /\ \A j \in 1 .. Len(words) : words[j] \in AnyWord
    BY <1>1 DEF WordsOf
  <1>5. ASSUME NEW j \in 1 .. Len(words)
        PROVE  Inside(words[j], rider_header, ev, j)
    <2>1. ASSUME NEW b \in 0 .. count - 1, NEW i \in AMC, NEW k \in 1 .. InBlock(nt, b),
                 j = DataAt(b) + (i * InBlock(nt, b) + k)
          PROVE  Wanted(words[j], rider_header, ev, b * BlockWords + i * nt + k)
      <3>1. words[j] = Payload(Source1, b * BlockWords + i * nt, InBlock(nt, b))[k]
        BY <1>2, <2>1, Zenon
      <3> QED
        BY <1>3, <3>1, Zenon
    <2> QED
      BY <1>1, <1>2, <2>1, ZenonT(60) DEF Inside, nt, count
  <1>6. \A j \in 1 .. Len(words) : Fits(words[j], rider_header, ev, n, j)
    BY <1>1, <1>4, <1>5, Zenon DEF Fits
  <1> QED
    BY <1>1, <1>4, <1>6, Zenon DEF Shape, words, nt, count

(* A fill that is sent again fits under its new number.                     *)
LEMMA RenumberedShape ==
  ASSUME NEW rider_header \in BOOLEAN, NEW words, NEW ev, NEW n, NEW again \in Int,
         Shape(words, rider_header, ev, n), 1 \in 1 .. Len(words)
  PROVE  Shape([words EXCEPT ![1] = Word("CDF", again, 0)], rider_header, ev, again)
  <1> DEFINE new == [words EXCEPT ![1] = Word("CDF", again, 0)]
  <1>1. words \in Seq(AnyWord) /\ Len(words) = FillLen(nt_words_store(rider_header), nBlocks(rider_header))
        /\ \A j \in 1 .. Len(words) : Fits(words[j], rider_header, ev, n, j)
    BY Zenon DEF Shape
  <1>2. Word("CDF", again, 0) \in AnyWord
    BY DEF Word, AnyWord, FormatWord
  <1>3. /\ new \in Seq(AnyWord) /\ Len(new) = Len(words)
        /\ 1 \in 1 .. Len(words) => new[1] = Word("CDF", again, 0)
        /\ \A j \in 1 .. Len(words) : j # 1 => new[j] = words[j]
        /\ \A j \in 1 .. Len(words) : j # 1 => j > 1
    <2>1. words \in Seq(AnyWord)
      BY <1>1
    <2>2. new \in Seq(AnyWord) /\ Len(new) = Len(words)
      BY <1>2, <2>1
    <2>3. \A j \in 1 .. Len(words) : new[j] = IF j = 1 THEN Word("CDF", again, 0) ELSE words[j]
      BY <2>1
    <2>4. \A j \in 1 .. Len(words) : j # 1 => j > 1
      BY <2>1
    <2> HIDE DEF new
    <2> QED
      BY <2>2, <2>3, <2>4
  <1> HIDE DEF new
  <1>4. ASSUME NEW j \in 1 .. Len(new) PROVE Fits(new[j], rider_header, ev, again, j)
    <2>1. CASE j = 1
      <3>1. ~ (1 > 1)
        OBVIOUS
      <3> QED
        BY <1>2, <1>3, <2>1, <3>1, Zenon DEF Fits
    <2>2. CASE j # 1
      BY <1>1, <1>3, <2>2, Zenon DEF Fits
    <2> QED
      BY <2>1, <2>2
  <1>5. Shape(new, rider_header, ev, again)
    BY <1>1, <1>3, <1>4, Zenon DEF Shape
  <1> QED
    BY <1>5 DEF new

-----------------------------------------------------------------------------
(* A packed fill with waveforms of event ev and of no other.                *)
FillOf(words, ev) ==
  /\ words \in Seq(WordsOf(ev))
  /\ 1 \in 1 .. Len(words) /\ words[1].kind = "CDF"
  /\ \E i \in 1 .. Len(words) : words[i].kind = "wave"

LEMMA PackedIsFill ==
  ASSUME FirstBlockHasData, NEW rider_header \in BOOLEAN, NEW ev \in Int, NEW n \in Nat
  PROVE  FillOf(pack_amc13_data(rider_header, ev, n), ev)
  <1> DEFINE nt == nt_words_store(rider_header)
             count == nBlocks(rider_header)
             words == pack_amc13_data(rider_header, ev, n)
             source == Source(rider_header, ev)
             nb == InBlock(nt, 0)
             k == IF rider_header THEN 5 ELSE 1
  <1>1. /\ words \in Seq(WordsOf(ev)) /\ Len(words) = FillLen(nt, count)
        /\ words[1] = Word("CDF", n, 0)
    BY PackedTyped, ZenonT(60)
  <1>2. /\ nt \in Nat \ {0} /\ count \in Nat \ {0}
        /\ (count - 1) * BlockWords < nt /\ nt <= count * BlockWords
        /\ ~ rider_header => nt = nCHAN * waveform_length
        /\ rider_header => nt > 5
    BY StoreTyped, BlockCount
  <1>3. /\ source \in Seq(WordsOf(ev))
        /\ rider_header => Len(source) = nAMC * nt
        /\ ~ rider_header => Len(source) = calo_segments * waveform_length
    BY SourceTyped, Zenon
  <1>4. source[k].kind = "wave"
    <2>1. 0 \in AMC /\ 0 \in Chan /\ 1 \in 1 .. waveform_length /\ 0 * nCHAN + 0 < calo_segments
      BY Sizes DEF AMC, Chan
    <2>2. FirstSample(rider_header, 0, 0) + 1 = k
      <3>1. CASE rider_header
        <4> DEFINE m == nt_words_store(TRUE)
        <4>1. FirstSample(rider_header, 0, 0) = 0 * m + (2 + (0 * (waveform_length + 4) + 2)) /\ m \in Nat
          BY <3>1, RiderSizes, Zenon DEF FirstSample
        <4> HIDE DEF m
        <4>2. FirstSample(rider_header, 0, 0) + 1 = 5
          BY <4>1, Sizes
        <4> QED
          BY <3>1, <4>2
      <3>2. CASE ~ rider_header
        <4>1. FirstSample(rider_header, 0, 0) = (0 * nCHAN + 0) * waveform_length
          BY <3>2, Zenon DEF FirstSample
        <4> QED
          BY <3>2, <4>1, Sizes
      <3> QED
        BY <3>1, <3>2
    <2>3. source[k] = SimWord(ev, (0 * nCHAN + 0) * waveform_length + 1)
      <3>1. source[FirstSample(rider_header, 0, 0) + 1] = SimWord(ev, (0 * nCHAN + 0) * waveform_length + 1)
        BY <2>1, SourceTyped, ZenonT(60)
      <3> QED
        BY <2>2, <3>1
    <2> QED
      BY <2>3 DEF SimWord, Word
  <1> HIDE DEF words, nt, count, source
  <1>5. 0 \in 0 .. count - 1 /\ nb \in 1 .. BlockWords /\ nb <= nt /\ (nb = nt \/ nb = BlockWords)
    <2>1. 0 \in 0 .. count - 1
      BY <1>2
    <2>2. nb \in 1 .. BlockWords /\ 0 * BlockWords + nb <= nt
      BY <1>2, <2>1, BlocksOfFill
    <2>3. nb = nt \/ nb = BlockWords
      BY <1>2, Sizes DEF InBlock
    <2> HIDE DEF nb
    <2> QED
      BY <1>2, <2>1, <2>2, <2>3, Sizes
  <1>6. nb \in Nat /\ k \in 1 .. nb /\ 4 * 0 + nb < 4 * Len(source) /\ 0 + k \in 1 .. Len(source)
    <2>1. CASE rider_header
      <3>1. nAMC * nt >= nt /\ nAMC * nt \in Nat
        BY <1>2, Sizes
      <3>2. k = 5 /\ Len(source) = nAMC * nt /\ nt > 5
        BY <1>2, <1>3, <2>1
      <3> HIDE DEF nb, k
      <3> QED
        BY <1>2, <1>5, <3>1, <3>2, Sizes DEF FirstBlockHasData
    <2>2. CASE ~ rider_header
      <3>1. nt = nCHAN * waveform_length /\ Len(source) = calo_segments * waveform_length /\ k = 1
        BY <1>2, <1>3, <2>2
      <3>2. /\ nCHAN * waveform_length < 4 * (calo_segments * waveform_length)
            /\ calo_segments * waveform_length >= 1
        BY Sizes DEF FirstBlockHasData
      <3> HIDE DEF nb, k
      <3> QED
        BY <1>2, <1>5, <3>1, <3>2, Sizes
    <2> QED
      BY <2>1, <2>2
  <1>7. Payload(source, 0, nb)[k] = source[k]
    <2>1. 0 \in Nat /\ nb \in Int
      BY <1>6
    <2> HIDE DEF nb, k
    <2>2. Payload(source, 0, nb)[k] = source[0 + k]
      BY <1>3, <1>6, <2>1, PayloadTyped
    <2>3. 0 + k = k
      BY <1>6
    <2> QED
      BY <2>2, <2>3
  <1>8. words[DataAt(0) + (0 * nb + k)] = Payload(source, 0, nb)[k]
    <2>1. 0 \in AMC /\ 0 * BlockWords + 0 * nt = 0
      BY <1>2, Sizes DEF AMC
    <2> DEFINE Here(b) == \A i \in AMC, q \in 1 .. InBlock(nt, b) :
                            words[DataAt(b) + (i * InBlock(nt, b) + q)]
                              = Payload(source, b * BlockWords + i * nt, InBlock(nt, b))[q]
    <2>3. Here(0)
      <3>1. 0 \in 0 .. nBlocks(rider_header) - 1
        BY <1>5 DEF count
      <3> QED
        BY <3>1, PackedBlock, ZenonT(60) DEF words, nt, source
    <2>2. words[DataAt(0) + (0 * nb + k)] = Payload(source, 0 * BlockWords + 0 * nt, nb)[k]
      BY <1>6, <2>1, <2>3, Zenon
    <2> HIDE DEF nb, k
    <2> QED
      BY <2>1, <2>2
  <1>9. DataAt(0) + (0 * nb + k) \in 1 .. Len(words) /\ 1 \in 1 .. Len(words)
    <2>1. /\ Before(0) \in Nat \ {0} /\ DataAt(0) = Before(0) + 1 + nAMC /\ nAMC * nb \in Nat
          /\ TailAt(nt, 0) = DataAt(0) + nAMC * nb + 1 /\ TailAt(nt, 0) \in Nat
          /\ TailAt(nt, 0) < FillLen(nt, count)
      BY <1>2, <1>5, PlacesTyped
    <2>2. Len(words) \in Nat
      BY <1>1
    <2> HIDE DEF nb, k
    <2>3. nAMC * nb >= nb
      BY <1>6, Sizes
    <2>4. 0 * nb = 0
      BY <1>6
    <2> DEFINE y == nAMC * nb
    <2>5. y \in Nat /\ y >= nb /\ TailAt(nt, 0) = DataAt(0) + y + 1 /\ 0 * nb + k = k
      BY <1>6, <2>1, <2>3, <2>4
    <2> HIDE DEF y
    <2>6. Len(words) > DataAt(0) + y + 1 /\ DataAt(0) \in Nat
      BY <1>1, <2>1, <2>5, Sizes, SMTT(30)
    <2>7. DataAt(0) + k \in 1 .. Len(words) /\ 1 \in 1 .. Len(words)
      <3>1. k \in Nat /\ k >= 1 /\ k <= nb /\ nb \in Nat
        BY <1>6
      <3> QED
        BY <2>2, <2>5, <2>6, <3>1
    <2> QED
      BY <2>5, <2>7
  <1>10. words[1].kind = "CDF"
    BY <1>1 DEF Word
  <1> HIDE DEF nb, k
  <1>11. \E i \in 1 .. Len(words) : words[i].kind = "wave"
    BY <1>4, <1>7, <1>8, <1>9
  <1> QED
    BY <1>1, <1>9, <1>10, <1>11, Zenon DEF FillOf, words

LEMMA EventOfFill ==
  ASSUME NEW words, NEW ev \in Int, FillOf(words, ev)
  PROVE  EventIn(words) = ev
  <1> DEFINE i == CHOOSE i \in DOMAIN words : words[i].kind = "wave"
  <1>1. words \in Seq(WordsOf(ev)) /\ \E j \in DOMAIN words : words[j].kind = "wave"
    BY DEF FillOf
  <1>2. i \in DOMAIN words /\ words[i].kind = "wave"
    BY <1>1
  <1> HIDE DEF i
  <1>3. words[i] \in WordsOf(ev)
    BY <1>1, <1>2
  <1>4. words[i].num = ev
    BY <1>2, <1>3 DEF WordsOf
  <1> QED
    BY <1>4 DEF EventIn, i

(* A fill that is sent again gets the number of the new fill.               *)
LEMMA RenumberedIsFill ==
  ASSUME NEW words, NEW ev \in Int, FillOf(words, ev), NEW n \in Nat
  PROVE  FillOf([words EXCEPT ![1] = Word("CDF", n, 0)], ev)
  <1> DEFINE again == [words EXCEPT ![1] = Word("CDF", n, 0)]
  <1>1. Word("CDF", n, 0) \in WordsOf(ev) /\ Word("CDF", n, 0).kind = "CDF"
    BY FormatWordTyped, SMTT(30) DEF FormatWord
  <1>2. words \in Seq(WordsOf(ev)) /\ 1 \in 1 .. Len(words) /\ words[1].kind = "CDF"
    BY DEF FillOf
  <1>3. PICK i \in 1 .. Len(words) : words[i].kind = "wave"
    BY DEF FillOf
  <1>4. again \in Seq(WordsOf(ev)) /\ Len(again) = Len(words)
    BY <1>1, <1>2
  <1>5. again[1] = Word("CDF", n, 0) /\ again[i] = words[i]
    BY <1>2, <1>3
  <1> HIDE DEF again
  <1>6. FillOf(again, ev)
    BY <1>1, <1>2, <1>3, <1>4, <1>5 DEF FillOf
  <1> QED
    BY <1>6 DEF again

-----------------------------------------------------------------------------
(* Who holds mutex_data, and what that says of the event in the making.     *)
Locked ==
  /\ pcSim \in {"lock", "lockdata", "generate"}
  /\ pcFe \in {"ready", "lock", "packed", "release", "write", "data_avail", "failed"}
  /\ mutex \in BOOLEAN /\ mutex_data \in BOOLEAN
  /\ mutex_data <=> pcSim = "generate" \/ pcFe = "packed"
  /\ ~ (pcSim = "generate" /\ pcFe = "packed")
  /\ generated \in Nat /\ data \in [event : Nat, whole : BOOLEAN]
  /\ data.whole <=> pcSim # "generate"
  /\ data.event = IF pcSim = "generate" THEN generated + 1 ELSE generated

(* The steps that leave simulator thread and tcp_write alone.               *)
Elsewhere == UNCHANGED <<settings, run, simVars, feVars>>

LEMMA ElsewhereSteps ==
  LinkBreaks \/ tcp_thread \/ UNCHANGED vars => Elsewhere
  BY DEF LinkBreaks, tcp_thread, Read, ReadFails, Publish, vars, Elsewhere

LEMMA NextLocked == Locked /\ [Next]_vars => Locked'
  <1> SUFFICES ASSUME Locked, [Next]_vars PROVE Locked'
    OBVIOUS
  <1> USE DEF Locked
  <1>1. CASE SimLock
    BY <1>1 DEF SimLock, feVars
  <1>2. CASE SimKeepsEvent
    BY <1>2 DEF SimKeepsEvent, feVars
  <1>3. CASE SimStartsEvent
    <2>1. data' = [event |-> generated + 1, whole |-> FALSE]
      BY <1>3 DEF SimStartsEvent
    <2>2. data' \in [event : Nat, whole : BOOLEAN] /\ ~ data'.whole /\ data'.event = generated + 1
      BY <2>1
    <2> QED
      BY <1>3, <2>2 DEF SimStartsEvent, feVars
  <1>4. CASE SimEndsEvent
    BY <1>4 DEF SimEndsEvent, feVars
  <1>5. CASE rpc_g2_end_of_fill
    BY <1>5 DEF rpc_g2_end_of_fill, simVars
  <1>6. CASE PackFill
    BY <1>6 DEF PackFill
  <1>7. CASE ReleaseData
    BY <1>7 DEF ReleaseData
  <1>8. CASE ReleaseSimulator
    BY <1>8 DEF ReleaseSimulator
  <1>9. CASE WriteFill
    BY <1>9 DEF WriteFill, simVars
  <1>10. CASE read_trigger_event
    BY <1>10 DEF read_trigger_event, simVars
  <1>11. CASE BeginRun
    BY <1>11 DEF BeginRun, simVars
  <1>12. CASE Elsewhere
    BY <1>12 DEF Elsewhere, simVars, feVars
  <1> QED
    BY <1>1, <1>2, <1>3, <1>4, <1>5, <1>6, <1>7, <1>8, <1>9, <1>10, <1>11, <1>12, ElsewhereSteps
    DEF Next, Simulator, tcp_write

LEMMA AlwaysLocked == Spec => []Locked
  <1>1. Init => Locked
    <2> SUFFICES ASSUME Init PROVE Locked
      OBVIOUS
    <2>1. data \in [event : Nat, whole : BOOLEAN] /\ data.whole /\ data.event = 0
      BY DEF Init
    <2> QED
      BY <2>1 DEF Init, Locked
  <1> QED
    BY <1>1, NextLocked, PTL DEF Spec

(* mutex_data is locked while the simulator thread writes an event or       *)
(* tcp_write packs one, and never by both (simulator.cpp:197,               *)
(* tcp_server.cpp:299).                                                     *)
THEOREM EventIsLocked ==
  Spec => [](/\ mutex_data <=> pcSim = "generate" \/ pcFe = "packed"
             /\ ~ (pcSim = "generate" /\ pcFe = "packed"))
  <1>1. Locked => /\ mutex_data <=> pcSim = "generate" \/ pcFe = "packed"
                  /\ ~ (pcSim = "generate" /\ pcFe = "packed")
    BY DEF Locked
  <1> QED
    BY <1>1, AlwaysLocked, PTL

-----------------------------------------------------------------------------
(* Fills and events are counted: there is at most one event more than fills *)
(* whose packing has let the simulator thread go on.                        *)
Unwritten == pcFe \in {"packed", "release", "write", "failed"}
Released ==
  (run - 1) * MaxFills + Len(sent) - (IF pcFe \in {"packed", "release"} THEN 1 ELSE 0)
Started ==
  data.event + (IF mutex THEN 0 ELSE 1) + (IF pcSim = "lockdata" THEN 1 ELSE 0)

Counted ==
  /\ settings.rider_header \in BOOLEAN
  /\ run \in 1 .. MaxRuns /\ sent \in Seq(Int) /\ Len(sent) <= MaxFills
  /\ pcFe = "lock" => Len(sent) < MaxFills
  /\ EMULATORfillnumber \in Nat
  /\ Len(sent) = EMULATORfillnumber + (IF Unwritten THEN 1 ELSE 0)
  /\ Started <= 1 + Released

LEMMA NextCounted == Locked /\ Counted /\ (PackFill => EventIn(packed') \in Int) /\ [Next]_vars => Counted'
  <1> SUFFICES ASSUME Locked, Counted, PackFill => EventIn(packed') \in Int, [Next]_vars PROVE Counted'
    OBVIOUS
  <1>0. MaxFills \in Nat /\ MaxRuns \in Nat
    BY LinkAssumption DEF LinkAssumption
  <1>a. (run - 1) * MaxFills \in Nat
    BY <1>0 DEF Counted
  <1>b. Len(sent) \in Nat
    BY DEF Counted
  <1> USE DEF Locked, Counted, Unwritten, Released, Started
  <1>1. CASE SimLock
    <2>1. Started' = Started
      BY <1>1 DEF SimLock
    <2>2. Released' = Released
      BY <1>1 DEF SimLock, feVars
    <2> HIDE DEF Started, Released
    <2> QED
      BY <1>1, <2>1, <2>2 DEF SimLock, feVars
  <1>2. CASE SimKeepsEvent
    <2>0. /\ pcSim = "lockdata" /\ pcSim' # "lockdata" /\ UNCHANGED <<data, mutex>>
          /\ UNCHANGED <<run, sent, pcFe>>
      BY <1>2, Zenon DEF SimKeepsEvent, feVars
    <2>1. Started' = Started - 1 /\ Started \in Int
      BY <2>0
    <2>2. Released' = Released
      <3> HIDE DEF Locked, Counted, Started, Unwritten
      <3> QED
        BY <2>0
    <2>4. Released \in Int
      <3> HIDE DEF Locked, Counted, Started, Unwritten
      <3> QED
        BY <1>a, <1>b
    <2>3. Started' <= 1 + Released'
      <3>1. Started <= 1 + Released
        BY DEF Counted
      <3> HIDE DEF Started, Released
      <3> QED
        BY <2>1, <2>2, <2>4, <3>1
    <2> HIDE DEF Started, Released
    <2> QED
      BY <1>2, <2>3 DEF SimKeepsEvent, feVars
  <1>3. CASE SimStartsEvent
    <2>1. data'.event = generated + 1 /\ data.event = generated
      BY <1>3 DEF SimStartsEvent
    <2> QED
      <3>1. Started' = Started
        BY <1>3, <2>1 DEF SimStartsEvent
      <3>2. Released' = Released
        BY <1>3 DEF SimStartsEvent, feVars
      <3> HIDE DEF Started, Released
      <3> QED
        BY <1>3, <3>1, <3>2 DEF SimStartsEvent, feVars
  <1>4. CASE SimEndsEvent
    BY <1>4, <1>a, <1>b DEF SimEndsEvent, feVars
  <1>5. CASE rpc_g2_end_of_fill
    BY <1>5, <1>0, <1>a, <1>b DEF rpc_g2_end_of_fill, simVars
  <1>6. CASE PackFill
    <2>1. sent' = Append(sent, EventIn(packed')) /\ EventIn(packed') \in Int
      BY <1>6 DEF PackFill, Pack
    <2>2. sent' \in Seq(Int) /\ Len(sent') = Len(sent) + 1
      BY <2>1
    <2> QED
      BY <1>6, <1>0, <1>a, <1>b, <2>2 DEF PackFill
  <1>7. CASE ReleaseData
    BY <1>7, <1>a, <1>b DEF ReleaseData
  <1>8. CASE ReleaseSimulator
    <2>1. Started' <= Started + 1 /\ Started' \in Nat /\ Started \in Nat
      <3>1. data.event \in Nat /\ UNCHANGED <<data, pcSim>> /\ ~ mutex'
        BY <1>8 DEF ReleaseSimulator
      <3>2. Started' = data.event + 1 + (IF pcSim = "lockdata" THEN 1 ELSE 0)
        BY <3>1
      <3>3. Started = data.event + (IF mutex THEN 0 ELSE 1) + (IF pcSim = "lockdata" THEN 1 ELSE 0)
        OBVIOUS
      <3> HIDE DEF Started, Released, Counted, Locked
      <3> QED
        BY <3>1, <3>2, <3>3
    <2>2. Released' = Released + 1 /\ Released \in Int
      BY <1>8, <1>0, <1>a, <1>b, SMTT(30) DEF ReleaseSimulator
    <2>3. Started' <= 1 + Released'
      <3>1. Started <= 1 + Released
        BY DEF Counted
      <3> HIDE DEF Started, Released
      <3> QED
        BY <2>1, <2>2, <3>1
    <2> QED
      BY <1>8, <1>0, <1>b, <2>3 DEF ReleaseSimulator
  <1>9. CASE WriteFill
    <2>1. Started' = Started /\ Released' = Released
      BY <1>9 DEF WriteFill, simVars
    <2>2. EMULATORfillnumber' \in Nat /\ Len(sent') = EMULATORfillnumber' + (IF Unwritten' THEN 1 ELSE 0)
      BY <1>9, <1>b, SMTT(30) DEF WriteFill
    <2>3. UNCHANGED <<settings, run, sent>> /\ pcFe' # "lock"
      BY <1>9 DEF WriteFill
    <2>4. Started <= 1 + Released
      BY DEF Counted
    <2> HIDE DEF Started, Released, Unwritten, Locked
    <2> QED
      BY <2>1, <2>2, <2>3, <2>4
  <1>10. CASE read_trigger_event
    BY <1>10, <1>a, <1>b DEF read_trigger_event, simVars
  <1>11. CASE BeginRun
    <2>1. (run' - 1) * MaxFills = (run - 1) * MaxFills + MaxFills
      BY <1>11, <1>0 DEF BeginRun
    <2>2. sent' = <<>> /\ Len(sent') = 0
      BY <1>11 DEF BeginRun
    <2> QED
      BY <1>11, <1>0, <1>a, <1>b, <2>1, <2>2 DEF BeginRun, simVars
  <1>12. CASE Elsewhere
    BY <1>12 DEF Elsewhere, simVars, feVars
  <1> QED
    BY <1>1, <1>2, <1>3, <1>4, <1>5, <1>6, <1>7, <1>8, <1>9, <1>10, <1>11, <1>12, ElsewhereSteps
    DEF Next, Simulator, tcp_write

-----------------------------------------------------------------------------
(* The packed fill is of the event that was sent last, one that was made.   *)
Kept ==
  /\ repeating => \E ev \in Nat : FillOf(packed, ev)
  /\ \A k \in 1 .. Len(sent) : sent[k] \in Nat
  /\ sent # <<>> => FillOf(packed, sent[Len(sent)])

(* What is packed anew is the event there is.                               *)
LEMMA PackedAnew ==
  ASSUME Locked, Counted, PackFill, ~ (settings.repeat_first_event /\ repeating)
  PROVE  /\ data.event \in Nat /\ settings.rider_header \in BOOLEAN /\ EMULATORfillnumber \in Nat
         /\ packed' = pack_amc13_data(settings.rider_header, data.event, EMULATORfillnumber)
  <1>0. packed' = Repack /\ data.whole
    BY DEF PackFill, Pack, Locked
  <1>1. data.event \in Nat /\ settings.rider_header \in BOOLEAN /\ EMULATORfillnumber \in Nat
    BY DEF Locked, Counted
  <1>2. packed' = PackedFill[settings.rider_header][data.event][EMULATORfillnumber]
    <2>1. (IF data.whole THEN data.event ELSE -1) = data.event
      BY <1>0
    <2> QED
      BY <1>0, <2>1, Zenon DEF Repack
  <1>3. data.event \in -1 .. MaxFills * MaxRuns + 1 /\ EMULATORfillnumber \in 0 .. MaxFills - 1
    <2>1. MaxFills \in Nat /\ MaxRuns \in Nat /\ Len(sent) \in Nat
      BY LinkAssumption DEF LinkAssumption, Counted
    <2>2. Len(sent) < MaxFills /\ EMULATORfillnumber = Len(sent)
      BY <1>1, <2>1 DEF PackFill, Counted, Unwritten
    <2>3. data.event <= 1 + (run - 1) * MaxFills + Len(sent)
      <3>1. (run - 1) * MaxFills \in Nat
        BY <2>1 DEF Counted
      <3>2. data.event <= Started /\ Started \in Nat
        BY <1>1 DEF Started
      <3>3. Released = (run - 1) * MaxFills + Len(sent)
        BY <2>1, <3>1 DEF PackFill, Released
      <3>4. Started <= 1 + Released
        BY DEF Counted
      <3> QED
        BY <1>1, <2>1, <3>1, <3>2, <3>3, <3>4
    <2>4. (run - 1) * MaxFills + MaxFills = MaxFills * run /\ MaxFills * run <= MaxFills * MaxRuns
      <3>1. run \in Nat /\ MaxRuns - run \in Nat
        BY <2>1 DEF Counted
      <3>2. (run - 1) * MaxFills + MaxFills = MaxFills * run
        BY <2>1, <3>1
      <3>3. MaxFills * MaxRuns = MaxFills * run + MaxFills * (MaxRuns - run)
        BY <2>1, <3>1
      <3>4. MaxFills * (MaxRuns - run) \in Nat /\ MaxFills * run \in Nat
        BY <2>1, <3>1
      <3> QED
        BY <2>1, <3>2, <3>3, <3>4
    <2>5. (run - 1) * MaxFills \in Nat /\ MaxFills * run \in Nat /\ MaxFills * MaxRuns \in Nat
      BY <2>1 DEF Counted
    <2> QED
      BY <1>1, <2>1, <2>2, <2>3, <2>4, <2>5, SMTT(30)
  <1>4. packed' = pack_amc13_data(settings.rider_header, data.event, EMULATORfillnumber)
    <2>1. \A r \in BOOLEAN, ev \in -1 .. MaxFills * MaxRuns + 1, n \in 0 .. MaxFills - 1 :
            PackedFill[r][ev][n] = pack_amc13_data(r, ev, n)
      BY DEF PackedFill
    <2> QED
      BY <1>1, <1>2, <1>3, <2>1, Zenon
  <1> QED
    BY <1>1, <1>4

LEMMA PackedWhole ==
  ASSUME FirstBlockHasData, Locked, Counted, Kept, PackFill
  PROVE  EventIn(packed') \in Nat /\ FillOf(packed', EventIn(packed'))
  <1>1. packed' = Repack /\ data.whole
    BY DEF PackFill, Pack, Locked
  <1>2. CASE settings.repeat_first_event /\ repeating
    <2>1. PICK ev \in Int : ev \in Nat /\ FillOf(packed, ev)
      BY <1>2 DEF Kept
    <2>2. FillOf(packed', ev)
      <3>1. packed' = [packed EXCEPT ![1] = Word("CDF", EMULATORfillnumber, 0)]
        BY <1>1, <1>2, Zenon DEF Repack
      <3>2. EMULATORfillnumber \in Nat
        BY DEF Counted
      <3> QED
        BY <2>1, <3>1, <3>2, RenumberedIsFill, Zenon
    <2> QED
      BY <2>1, <2>2, EventOfFill
  <1>3. CASE ~ (settings.repeat_first_event /\ repeating)
    <2>1. /\ data.event \in Nat /\ settings.rider_header \in BOOLEAN /\ EMULATORfillnumber \in Nat
          /\ packed' = pack_amc13_data(settings.rider_header, data.event, EMULATORfillnumber)
      BY <1>3, PackedAnew
    <2>2. FillOf(packed', data.event)
      BY <2>1, PackedIsFill
    <2> QED
      BY <2>1, <2>2, EventOfFill
  <1> QED
    BY <1>2, <1>3

LEMMA NextKept ==
  ASSUME FirstBlockHasData, Locked, Counted, Kept, [Next]_vars
  PROVE  Kept'
  <1>1. CASE PackFill
    <2>1. sent' = Append(sent, EventIn(packed'))
      BY <1>1 DEF PackFill, Pack
    <2>2. EventIn(packed') \in Nat /\ FillOf(packed', EventIn(packed'))
      BY <1>1, PackedWhole
    <2>3. sent \in Seq(Int) /\ \A k \in 1 .. Len(sent) : sent[k] \in Nat
      BY DEF Counted, Kept
    <2>4. Len(sent') = Len(sent) + 1 /\ sent'[Len(sent')] = EventIn(packed') /\ Len(sent) \in Nat
          /\ \A k \in 1 .. Len(sent) : sent'[k] = sent[k]
      BY <2>1, <2>2, <2>3
    <2>5. \A k \in 1 .. Len(sent') : sent'[k] \in Nat
      BY <2>2, <2>3, <2>4
    <2> QED
      BY <2>2, <2>4, <2>5 DEF Kept
  <1>2. CASE BeginRun
    <2>1. sent' = <<>> /\ UNCHANGED packed /\ UNCHANGED repeating
      BY <1>2 DEF BeginRun
    <2> QED
      BY <2>1 DEF Kept
  <1>3. CASE UNCHANGED <<packed, repeating, sent>>
    BY <1>3 DEF Kept
  <1>4. Simulator \/ rpc_g2_end_of_fill \/ ReleaseData \/ ReleaseSimulator \/ WriteFill
          \/ read_trigger_event \/ Elsewhere
        => UNCHANGED <<packed, repeating, sent>>
    BY DEF Simulator, SimLock, SimKeepsEvent, SimStartsEvent, SimEndsEvent, rpc_g2_end_of_fill,
           ReleaseData, ReleaseSimulator, WriteFill, read_trigger_event, Elsewhere, feVars
  <1> QED
    BY <1>1, <1>2, <1>3, <1>4, ElsewhereSteps DEF Next, tcp_write

LEMMA AlwaysKept == ASSUME FirstBlockHasData PROVE Spec => [](Counted /\ Kept)
  <1>1. Init => Counted /\ Kept
    <2> SUFFICES ASSUME Init PROVE Counted /\ Kept
      OBVIOUS
    <2>1. settings.rider_header \in BOOLEAN
      BY LinkAssumption DEF Init, LinkAssumption
    <2>2. MaxFills \in Nat /\ MaxRuns \in Nat \ {0}
      BY LinkAssumption DEF LinkAssumption
    <2>3. sent = <<>> /\ Len(sent) = 0 /\ sent \in Seq(Int) /\ ~ repeating
      BY DEF Init
    <2>4. Started = 1 /\ Released = 0
      BY <2>2, <2>3 DEF Init, Started, Released
    <2> QED
      BY <2>1, <2>2, <2>3, <2>4 DEF Init, Counted, Kept, Unwritten
  <1>2. Locked /\ Counted /\ Kept /\ [Next]_vars => Counted' /\ Kept'
    <2> SUFFICES ASSUME Locked, Counted, Kept, [Next]_vars PROVE Counted' /\ Kept'
      OBVIOUS
    <2>1. PackFill => EventIn(packed') \in Int
      BY PackedWhole
    <2> QED
      BY <2>1, NextCounted, NextKept
  <1> QED
    BY <1>1, <1>2, AlwaysLocked, PTL DEF Spec

(* A fill is sent with the waveforms of an event that is complete, never    *)
(* with those of one that calo_simulator_thread is still making             *)
(* (tcp_server.cpp:299).                                                    *)
THEOREM FillsAreWhole == ASSUME FirstBlockHasData PROVE Spec => []SentWhole
  <1>1. Counted /\ Kept => SentWhole
    BY DEF Counted, Kept, SentWhole
  <1> QED
    BY <1>1, AlwaysKept, PTL

(* All waveforms of the fill sent last are of the one event that was sent:  *)
(* no mixture of two events (tcp_server.cpp:71), also when the first event  *)
(* is repeated under a new number.                                          *)
THEOREM FillIsOneEvent ==
  ASSUME FirstBlockHasData
  PROVE  Spec => [](sent # <<>> => FillOf(packed, sent[Len(sent)]))
  <1>1. Kept => (sent # <<>> => FillOf(packed, sent[Len(sent)]))
    BY DEF Kept
  <1> QED
    BY <1>1, AlwaysKept, PTL

-----------------------------------------------------------------------------
(* The packed fill has the shape that the reader counts on, under the       *)
(* number it is written with.                                               *)
Shaped ==
  /\ repeating => \E n \in Nat : Shape(packed, settings.rider_header, EventIn(packed), n)
  /\ pcFe \in {"packed", "release", "write"}
       => Shape(packed, settings.rider_header, sent[Len(sent)], EMULATORfillnumber)

LEMMA PackedFits ==
  ASSUME FirstBlockHasData, Locked, Counted, Kept, Shaped, PackFill
  PROVE  Shape(packed', settings.rider_header, EventIn(packed'), EMULATORfillnumber)
  <1>1. packed' = Repack
    BY DEF PackFill, Pack
  <1>2. settings.rider_header \in BOOLEAN /\ EMULATORfillnumber \in Nat
    BY DEF Counted
  <1>3. CASE settings.repeat_first_event /\ repeating
    <2>1. PICK ev \in Int : ev \in Nat /\ FillOf(packed, ev)
      BY <1>3 DEF Kept
    <2>2. PICK n \in Nat : Shape(packed, settings.rider_header, EventIn(packed), n)
      BY <1>3 DEF Shaped
    <2>3. packed' = [packed EXCEPT ![1] = Word("CDF", EMULATORfillnumber, 0)]
      BY <1>1, <1>3, Zenon DEF Repack
    <2>4. FillOf(packed', ev)
      BY <1>2, <2>1, <2>3, RenumberedIsFill, Zenon
    <2>5. EventIn(packed) = ev /\ EventIn(packed') = ev
      BY <2>1, <2>4, EventOfFill
    <2>6. 1 \in 1 .. Len(packed)
      BY <2>1, Zenon DEF FillOf
    <2>7. Shape(packed', settings.rider_header, ev, EMULATORfillnumber)
      <3>1. Shape(packed, settings.rider_header, ev, n) /\ EMULATORfillnumber \in Int
        BY <1>2, <2>2, <2>5
      <3>2. Shape([packed EXCEPT ![1] = Word("CDF", EMULATORfillnumber, 0)], settings.rider_header, ev,
                  EMULATORfillnumber)
        BY <1>2, <2>6, <3>1, RenumberedShape, Zenon
      <3> QED
        BY <2>3, <3>2, Zenon
    <2> QED
      BY <2>5, <2>7, Zenon
  <1>4. CASE ~ (settings.repeat_first_event /\ repeating)
    <2>1. /\ data.event \in Nat
          /\ packed' = pack_amc13_data(settings.rider_header, data.event, EMULATORfillnumber)
      BY <1>4, PackedAnew
    <2>2. data.event \in Int
      BY <2>1
    <2>3. FillOf(packed', data.event)
      BY <1>2, <2>1, <2>2, PackedIsFill, Zenon
    <2>4. EventIn(packed') = data.event
      BY <2>2, <2>3, EventOfFill
    <2>5. Shape(packed', settings.rider_header, data.event, EMULATORfillnumber)
      BY <1>2, <2>1, <2>2, PackedShape, Zenon
    <2> QED
      BY <2>4, <2>5, Zenon
  <1> QED
    BY <1>3, <1>4

LEMMA NextShaped ==
  ASSUME FirstBlockHasData, Locked, Counted, Kept, Shaped, [Next]_vars
  PROVE  Shaped'
  <1>1. CASE PackFill
    <2>1. Shape(packed', settings.rider_header, EventIn(packed'), EMULATORfillnumber)
      BY <1>1, PackedFits
    <2>2. UNCHANGED <<settings, EMULATORfillnumber>> /\ sent' = Append(sent, EventIn(packed'))
      BY <1>1, Zenon DEF PackFill, Pack
    <2>3. sent \in Seq(Int) /\ EMULATORfillnumber \in Nat
      BY DEF Counted
    <2>4. sent'[Len(sent')] = EventIn(packed')
      BY <2>2, <2>3
    <2> QED
      BY <2>1, <2>2, <2>3, <2>4, Zenon DEF Shaped
  <1>2. CASE BeginRun
    <2>1. UNCHANGED <<settings, packed, repeating>> /\ ~ (pcFe' \in {"packed", "release", "write"})
      BY <1>2 DEF BeginRun
    <2> QED
      BY <2>1, Zenon DEF Shaped
  <1>3. CASE WriteFill
    <2>1. UNCHANGED <<settings, packed, repeating>> /\ ~ (pcFe' \in {"packed", "release", "write"})
      BY <1>3 DEF WriteFill
    <2> QED
      BY <2>1, Zenon DEF Shaped
  <1>4. CASE UNCHANGED <<settings, packed, repeating, sent, EMULATORfillnumber>>
             /\ (pcFe' \in {"packed", "release", "write"} => pcFe \in {"packed", "release", "write"})
    BY <1>4, ZenonT(60) DEF Shaped
  <1>5. Simulator \/ rpc_g2_end_of_fill \/ ReleaseData \/ ReleaseSimulator
          \/ read_trigger_event \/ Elsewhere
        => /\ UNCHANGED <<settings, packed, repeating, sent, EMULATORfillnumber>>
           /\ pcFe' \in {"packed", "release", "write"} => pcFe \in {"packed", "release", "write"}
    BY DEF Simulator, SimLock, SimKeepsEvent, SimStartsEvent, SimEndsEvent, rpc_g2_end_of_fill,
           ReleaseData, ReleaseSimulator, read_trigger_event, Elsewhere, feVars
  <1> QED
    BY <1>1, <1>2, <1>3, <1>4, <1>5, ElsewhereSteps DEF Next, tcp_write
-----------------------------------------------------------------------------
(* What is on the way to the reader: S are the words of the fills from      *)
(* first on, but for cut of the first; fills up to last (last is not one of *)
(* them) were written, with the events in events; all of it is there while  *)
(* the connection is whole.                                                 *)
Carries(S, cut, first, last, len, whole, rider_header, events) ==
  /\ S \in Seq(AnyWord)
  /\ cut + Len(S) <= (last - first) * len
  /\ whole => cut + Len(S) = (last - first) * len
  /\ \A m \in Nat, j \in 1 .. len, p \in 1 .. Len(S) :
       cut + p = (m - first) * len + j /\ m < last => Fits(S[p], rider_header, events[m + 1], m, j)

Joined(both, s, t) ==
  /\ both \in Seq(AnyWord) /\ Len(both) = Len(s) + Len(t)
  /\ \A k \in 1 .. Len(s) : both[k] = s[k]
  /\ \A k \in 1 .. Len(t) : both[Len(s) + k] = t[k]

LEMMA JoinedWords ==
  ASSUME NEW s \in Seq(AnyWord), NEW t \in Seq(AnyWord)
  PROVE  Joined(s \o t, s, t)
  BY ConcatGrows DEF Joined

LEMMA Written ==
  ASSUME NEW S, NEW cut \in Nat, NEW first \in Nat, NEW last \in Nat, NEW len \in Nat,
         NEW rider_header, NEW events, NEW words \in Seq(AnyWord), Len(words) = len,
         Carries(S, cut, first, last, len, TRUE, rider_header, events),
         \A j \in 1 .. len : Fits(words[j], rider_header, events[last + 1], last, j)
  PROVE  Carries(S \o words, cut, first, last + 1, len, TRUE, rider_header, events)
  <1> DEFINE new == S \o words
             x == (last - first) * len
  <1>1. /\ S \in Seq(AnyWord) /\ cut + Len(S) = x
        /\ \A m \in Nat, j \in 1 .. len, p \in 1 .. Len(S) :
             cut + p = (m - first) * len + j /\ m < last => Fits(S[p], rider_header, events[m + 1], m, j)
    BY Zenon DEF Carries
  <1>2. /\ new \in Seq(AnyWord) /\ Len(new) = Len(S) + Len(words)
        /\ \A k \in 1 .. Len(S) : new[k] = S[k]
        /\ \A k \in 1 .. Len(words) : new[Len(S) + k] = words[k]
    <2>1. Joined(new, S, words)
      BY <1>1, JoinedWords, Zenon
    <2> QED
      BY <2>1 DEF Joined
  <1> HIDE DEF new
  <1>3. ((last + 1) - first) * len = x + len /\ x \in Int
    OBVIOUS
  <1> HIDE DEF x
  <1>4. Len(S) \in Nat /\ cut + Len(new) = x + len /\ cut + Len(S) = x
    <2>1. Len(S) \in Nat
      BY <1>1
    <2>2. Len(new) = Len(S) + len /\ cut + Len(S) = x
      BY <1>1, <1>2, Zenon
    <2> DEFINE l == Len(S)
               k == Len(new)
    <2>3. l \in Nat /\ k = l + len /\ cut + l = x
      BY <2>1, <2>2
    <2> HIDE DEF l, k
    <2>4. cut + k = x + len
      BY <1>3, <2>3
    <2> QED
      BY <2>1, <2>2, <2>4 DEF k
  <1>5. ASSUME NEW m \in Nat, NEW j \in 1 .. len, NEW p \in 1 .. Len(new),
               cut + p = (m - first) * len + j, m < last + 1
        PROVE  Fits(new[p], rider_header, events[m + 1], m, j)
    <2> DEFINE y == (m - first) * len
    <2>1. CASE m = last
      <3>1. y = x /\ cut + p = y + j
        BY <1>5, <2>1 DEF x
      <3> HIDE DEF y
      <3>2. p = Len(S) + j
        <4>1. p \in Int /\ x + j = cut + p
          <5>1. Len(new) \in Nat
            BY <1>2
          <5>2. p \in Int
            BY <5>1
          <5> QED
            BY <3>1, <5>2
        <4> DEFINE l == Len(S)
        <4>2. l \in Nat /\ cut + l = x /\ j \in Int
          BY <1>4
        <4> HIDE DEF l
        <4>3. p = l + j
          BY <1>3, <4>1, <4>2
        <4> QED
          BY <4>3 DEF l
      <3> QED
        BY <1>2, <2>1, <3>2
    <2>2. CASE m < last
      <3>1. y + len <= x /\ y \in Int
        <4>1. x = y + len + (last - (m + 1)) * len
          BY DEF x
        <4>2. last - (m + 1) \in Nat
          BY <2>2
        <4>3. (last - (m + 1)) * len \in Nat /\ y \in Int
          BY <4>2
        <4> DEFINE z == (last - (m + 1)) * len
        <4>4. x = y + len + z /\ z \in Nat /\ y \in Int
          BY <4>1, <4>3
        <4> HIDE DEF y, z
        <4> QED
          BY <4>4
      <3>2. cut + p = y + j
        BY <1>5
      <3> HIDE DEF y
      <3>3. p \in 1 .. Len(S)
        BY <1>1, <1>3, <1>4, <3>1, <3>2
      <3> QED
        BY <1>1, <1>2, <1>5, <2>2, <3>3
    <2> QED
      BY <1>5, <2>1, <2>2
  <1>6. cut + Len(new) = ((last + 1) - first) * len /\ cut + Len(new) <= ((last + 1) - first) * len
        /\ new \in Seq(AnyWord)
    BY <1>2, <1>3, <1>4
  <1> QED
    <2>1. Carries(new, cut, first, last + 1, len, TRUE, rider_header, events)
      BY <1>5, <1>6, Zenon DEF Carries
    <2> QED
      BY <2>1, Zenon DEF new

RestOf(T, S, n) == T \in Seq(AnyWord) /\ Len(S) = n + Len(T) /\ \A p \in 1 .. Len(T) : T[p] = S[n + p]

Amounts(cut, n, first, last, len, whole) ==
  {cut, n, first, last, len} \subseteq Nat /\ whole \in BOOLEAN

LEMMA Taken ==
  ASSUME NEW S, NEW cut, NEW first, NEW last, NEW len, NEW whole, NEW rider_header, NEW events, NEW T, NEW n,
         Amounts(cut, n, first, last, len, whole),
         Carries(S, cut, first, last, len, whole, rider_header, events), RestOf(T, S, n)
  PROVE  Carries(T, cut + n, first, last, len, whole, rider_header, events)
  <1>a. cut \in Nat /\ n \in Nat /\ first \in Nat /\ last \in Nat /\ len \in Nat /\ whole \in BOOLEAN
    BY DEF Amounts
  <1> SUFFICES ASSUME cut \in Nat, n \in Nat, first \in Nat, last \in Nat, len \in Nat, whole \in BOOLEAN,
                      T \in Seq(AnyWord), Len(S) = n + Len(T), \A p \in 1 .. Len(T) : T[p] = S[n + p]
               PROVE  Carries(T, cut + n, first, last, len, whole, rider_header, events)
    BY <1>a, Zenon DEF RestOf
  <1> DEFINE x == (last - first) * len
  <1>1. /\ S \in Seq(AnyWord) /\ cut + Len(S) <= x /\ (whole => cut + Len(S) = x)
        /\ \A m \in Nat, j \in 1 .. len, p \in 1 .. Len(S) :
             cut + p = (m - first) * len + j /\ m < last => Fits(S[p], rider_header, events[m + 1], m, j)
    BY Zenon DEF Carries
  <1>2. x \in Int /\ Len(T) \in Nat
    OBVIOUS
  <1> HIDE DEF x
  <1>3. (cut + n) + Len(T) <= x /\ (whole => (cut + n) + Len(T) = x)
    <2> DEFINE k == Len(S)
               l == Len(T)
    <2>1. k = n + l /\ l \in Nat /\ cut + k <= x /\ (whole => cut + k = x)
      BY <1>1, <1>2, Zenon
    <2> HIDE DEF k, l
    <2>2. (cut + n) + l <= x /\ (cut + n) + l = cut + k
      BY <1>2, <2>1
    <2>3. whole => (cut + n) + l = x
      BY <2>1, <2>2, Zenon
    <2> QED
      BY <2>2, <2>3 DEF l
  <1>4. ASSUME NEW m \in Nat, NEW j \in 1 .. len, NEW p \in 1 .. Len(T),
               (cut + n) + p = (m - first) * len + j, m < last
        PROVE  Fits(T[p], rider_header, events[m + 1], m, j)
    <2>1. n + p \in 1 .. Len(S) /\ T[p] = S[n + p]
      <3> DEFINE l == Len(T)
                 k == Len(S)
      <3>1. p \in 1 .. l /\ l \in Nat /\ k = n + l
        BY <1>2
      <3> HIDE DEF k, l
      <3>2. n + p \in 1 .. k
        BY <3>1
      <3> QED
        BY <3>2 DEF k
    <2>2. cut + (n + p) = (m - first) * len + j
      <3>1. cut + (n + p) = (cut + n) + p
        BY <1>2
      <3> QED
        BY <1>4, <3>1
    <2> QED
      BY <1>1, <1>4, <2>1, <2>2
  <1> QED
    BY <1>3, <1>4, Zenon DEF Carries, x

(* The words that come next are those of fill first.                        *)
LEMMA NextWord ==
  ASSUME NEW S, NEW cut \in Nat, NEW first \in Nat, NEW last \in Nat, NEW len \in Nat,
         NEW whole \in BOOLEAN, NEW rider_header, NEW events,
         Carries(S, cut, first, last, len, whole, rider_header, events),
         NEW k \in 1 .. Len(S), cut + k <= len
  PROVE  first < last /\ Fits(S[k], rider_header, events[first + 1], first, cut + k)
  <1> DEFINE x == (last - first) * len
  <1>1. /\ S \in Seq(AnyWord) /\ cut + Len(S) <= x
        /\ \A m \in Nat, j \in 1 .. len, p \in 1 .. Len(S) :
             cut + p = (m - first) * len + j /\ m < last => Fits(S[p], rider_header, events[m + 1], m, j)
    BY Zenon DEF Carries
  <1>2. x \in Int /\ Len(S) \in Nat
    BY <1>1
  <1>3. first < last
    <2>1. x <= 0 \/ first < last
      <3> SUFFICES ASSUME last - first <= 0 PROVE x <= 0
        OBVIOUS
      <3>1. \A d, e \in Nat : (-d) * e = -(d * e) /\ d * e \in Nat
        OBVIOUS
      <3>2. first - last \in Nat /\ last - first = -(first - last)
        OBVIOUS
      <3>3. x = -((first - last) * len) /\ (first - last) * len \in Nat
        BY <3>1, <3>2
      <3> QED
        BY <1>2, <3>3
    <2> HIDE DEF x
    <2> QED
      BY <1>1, <1>2, <2>1
  <1>4. cut + k = (first - first) * len + (cut + k) /\ cut + k \in 1 .. len
    BY <1>2
  <1> QED
    BY <1>1, <1>3, <1>4, Zenon

(* A fill is done with.                                                     *)
LEMMA NextFill ==
  ASSUME NEW S, NEW first \in Nat, NEW last \in Nat, NEW len \in Nat \ {0},
         NEW whole \in BOOLEAN, NEW rider_header, NEW events,
         Carries(S, len, first, last, len, whole, rider_header, events)
  PROVE  Carries(S, 0, first + 1, last, len, whole, rider_header, events)
  <1> DEFINE x == (last - first) * len
  <1>1. /\ S \in Seq(AnyWord) /\ len + Len(S) <= x /\ (whole => len + Len(S) = x)
        /\ \A m \in Nat, j \in 1 .. len, p \in 1 .. Len(S) :
             len + p = (m - first) * len + j /\ m < last => Fits(S[p], rider_header, events[m + 1], m, j)
    BY Zenon DEF Carries
  <1>2. x \in Int /\ Len(S) \in Nat /\ (last - (first + 1)) * len = x - len
    BY <1>1
  <1> HIDE DEF x
  <1>3. 0 + Len(S) <= x - len /\ (whole => 0 + Len(S) = x - len)
    BY <1>1, <1>2
  <1>4. ASSUME NEW m \in Nat, NEW j \in 1 .. len, NEW p \in 1 .. Len(S),
               0 + p = (m - (first + 1)) * len + j, m < last
        PROVE  Fits(S[p], rider_header, events[m + 1], m, j)
    <2> DEFINE y == (m - first) * len
    <2>1. (m - (first + 1)) * len = y - len /\ y \in Int
      OBVIOUS
    <2>2. 0 + p = (y - len) + j
      BY <1>4, <2>1
    <2> HIDE DEF y
    <2>3. len + p = y + j
      BY <1>2, <2>1, <2>2
    <2> QED
      BY <1>1, <1>4, <2>3, Zenon DEF y
  <1> QED
    BY <1>1, <1>2, <1>3, <1>4, Zenon DEF Carries

(* A part of what is on the way, with more events to come.                  *)
PartOf(T, S, still, whole) ==
  /\ T \in Seq(AnyWord) /\ Len(T) <= Len(S) /\ \A p \in 1 .. Len(T) : T[p] = S[p]
  /\ still \in BOOLEAN /\ (still => whole /\ Len(T) = Len(S))

SameEvents(later, events, last) == \A m \in 1 .. last : later[m] = events[m]

LEMMA PartOfIt ==
  ASSUME NEW S, NEW cut \in Nat, NEW first \in Nat, NEW last \in Nat, NEW len \in Nat,
         NEW whole \in BOOLEAN, NEW rider_header, NEW events, NEW later, NEW T, NEW still,
         Carries(S, cut, first, last, len, whole, rider_header, events),
         PartOf(T, S, still, whole), SameEvents(later, events, last)
  PROVE  Carries(T, cut, first, last, len, still, rider_header, later)
  <1> SUFFICES ASSUME T \in Seq(AnyWord), Len(T) <= Len(S), \A p \in 1 .. Len(T) : T[p] = S[p],
                      still \in BOOLEAN, still => whole /\ Len(T) = Len(S),
                      \A m \in 1 .. last : later[m] = events[m]
               PROVE  Carries(T, cut, first, last, len, still, rider_header, later)
    BY Zenon DEF PartOf, SameEvents
  <1> DEFINE x == (last - first) * len
  <1>1. /\ S \in Seq(AnyWord) /\ cut + Len(S) <= x /\ (whole => cut + Len(S) = x)
        /\ \A m \in Nat, j \in 1 .. len, p \in 1 .. Len(S) :
             cut + p = (m - first) * len + j /\ m < last => Fits(S[p], rider_header, events[m + 1], m, j)
    BY Zenon DEF Carries
  <1>2. x \in Int /\ Len(S) \in Nat /\ Len(T) \in Nat
    BY <1>1
  <1> HIDE DEF x
  <1>3. cut + Len(T) <= x /\ (still => cut + Len(T) = x)
    <2> DEFINE k == Len(S)
               l == Len(T)
    <2>1. k \in Nat /\ l \in Nat /\ l <= k /\ (still => whole /\ l = k) /\ cut + k <= x /\ (whole => cut + k = x)
      BY <1>1, <1>2, Zenon
    <2> HIDE DEF k, l
    <2>2. cut + l <= x
      BY <1>2, <2>1
    <2>3. still => cut + l = x
      <3> SUFFICES ASSUME still PROVE cut + l = x
        OBVIOUS
      <3>1. l = k /\ cut + k = x
        BY <2>1
      <3> QED
        BY <3>1
    <2> QED
      BY <2>2, <2>3 DEF l
  <1>4. ASSUME NEW m \in Nat, NEW j \in 1 .. len, NEW p \in 1 .. Len(T),
               cut + p = (m - first) * len + j, m < last
        PROVE  Fits(T[p], rider_header, later[m + 1], m, j)
    <2>1. m + 1 \in 1 .. last /\ p \in 1 .. Len(S)
      BY <1>2, <1>4
    <2>2. later[m + 1] = events[m + 1] /\ T[p] = S[p]
      BY <2>1
    <2>3. Fits(S[p], rider_header, events[m + 1], m, j)
      BY <1>1, <1>4, <2>1, Zenon
    <2> QED
      BY <2>2, <2>3
  <1> QED
    BY <1>3, <1>4, Zenon DEF Carries, x

-----------------------------------------------------------------------------
(* The reader: how far it is with a fill.                                   *)
Store == nt_words_store(settings.rider_header)
Count == nBlocks(settings.rider_header)
Fill == FillLen(Store, Count)
Event == sent[TCPfillnumber + 1]

LEMMA FillSizes ==
  ASSUME settings.rider_header \in BOOLEAN
  PROVE  /\ Store \in Nat \ {0} /\ Count \in Nat \ {0} /\ Fill \in Nat \ {0}
         /\ (Count - 1) * BlockWords < Store /\ Store <= Count * BlockWords
  <1>1. /\ Store \in Nat \ {0} /\ Count \in Nat \ {0}
        /\ (Count - 1) * BlockWords < Store /\ Store <= Count * BlockWords
    BY StoreTyped, BlockCount DEF Store, Count
  <1>2. Fill \in Nat \ {0}
    <2> DEFINE e == Count - 1
    <2>1. e \in 0 .. Count - 1 /\ e = Count - 1
      BY <1>1
    <2>2. TailAt(Store, e) \in Nat /\ (e = Count - 1 => FillLen(Store, Count) = TailAt(Store, e) + 1)
      BY <1>1, <2>1, PlacesTyped
    <2> QED
      BY <2>1, <2>2 DEF Fill
  <1> QED
    BY <1>1, <1>2

LEMMA BlockOfStore ==
  ASSUME settings.rider_header \in BOOLEAN, NEW b \in 0 .. Count - 1
  PROVE  /\ b \in Nat /\ Count \in Nat /\ Store \in Nat \ {0}
         /\ b * BlockWords < Store /\ b * BlockWords \in Nat
         /\ InBlock(Store, b) \in 1 .. BlockWords /\ b * BlockWords + InBlock(Store, b) <= Store
         /\ b < Count - 1 => InBlock(Store, b) = BlockWords
         /\ b = Count - 1 => b * BlockWords + InBlock(Store, b) = Store
         /\ Before(b) \in Nat \ {0} /\ nAMC * InBlock(Store, b) \in Nat
         /\ DataAt(b) = Before(b) + 1 + nAMC
         /\ TailAt(Store, b) = DataAt(b) + nAMC * InBlock(Store, b) + 1
         /\ b < Count - 1 => Before(b + 1) = TailAt(Store, b)
         /\ b = Count - 1 => Fill = TailAt(Store, b) + 1
  <1>1. /\ Store \in Nat \ {0} /\ Count \in Nat \ {0} /\ Store \in Nat
        /\ (Count - 1) * BlockWords < Store /\ Store <= Count * BlockWords
    BY FillSizes
  <1> DEFINE nt == Store
             count == Count
  <1>2. b \in Nat /\ Count \in Nat
    BY <1>1
  <1>3. /\ nt \in Nat /\ count \in Nat \ {0} /\ b \in 0 .. count - 1
        /\ (count - 1) * BlockWords < nt /\ nt <= count * BlockWords
    BY <1>1, Zenon
  <1> HIDE DEF nt, count
  <1>4. /\ b * BlockWords < nt /\ b * BlockWords \in Nat
        /\ InBlock(nt, b) \in 1 .. BlockWords /\ b * BlockWords + InBlock(nt, b) <= nt
        /\ b < count - 1 => InBlock(nt, b) = BlockWords
        /\ b = count - 1 => b * BlockWords + InBlock(nt, b) = nt
    BY <1>3, BlocksOfFill, Zenon
  <1>5. /\ Before(b) \in Nat \ {0} /\ nAMC * InBlock(nt, b) \in Nat
        /\ DataAt(b) = Before(b) + 1 + nAMC
        /\ TailAt(nt, b) = DataAt(b) + nAMC * InBlock(nt, b) + 1
        /\ b < count - 1 => Before(b + 1) = TailAt(nt, b)
        /\ b = count - 1 => FillLen(nt, count) = TailAt(nt, b) + 1
    BY <1>3, PlacesTyped, SMTT(30)
  <1> QED
    BY <1>1, <1>2, <1>4, <1>5, Zenon DEF nt, count, Fill

(* Word x of block d in the header bank.                                    *)
HeadWord(w, rider_header, d, x) ==
  /\ x = 1 => w = Word("AMC13", nAMC, 0)
  /\ \A i \in AMC : x = 1 + (i + 1) => w = AMCWord(nt_words_store(rider_header), d, i)
  /\ x = nAMC + 2 => w.kind = "blocktail"

(* The bank has its first word, the words of the blocks before b, and r     *)
(* words of block b.                                                        *)
HeadsGood(bank, rider_header, fill, b, r) ==
  /\ bank[0] = Word("CDF", fill, 0)
  /\ \A d \in 0 .. nBlocks(rider_header) - 1, x \in 1 .. nAMC + 2 :
       d < b \/ (d = b /\ x <= r) => HeadWord(bank[d * (nAMC + 2) + x], rider_header, d, x)

(* The buffer has what is wanted in the first offset[i] words of module i.  *)
Found(place, offset, rider_header, ev) ==
  \A i \in AMC, o \in 0 .. nt_words_store(rider_header) - 1 :
    o < offset[i] => Wanted(place[i * nt_words_store(rider_header) + o], rider_header, ev,
                            i * nt_words_store(rider_header) + o + 1)

(* The reader has r header words of block b, and the data of the first i    *)
(* modules.                                                                 *)
Has(b, r, i) ==
  /\ TCPfillnumber < EMULATORfillnumber
  /\ HeadsGood(header, settings.rider_header, TCPfillnumber, b, r)
  /\ nextHeader = b * (nAMC + 2) + r + 1
  /\ b > 0 \/ r > 1 => dataAMCoffset = [a \in AMC |-> a * Store]
  /\ datablockoffset = [a \in AMC |-> b * BlockWords + (IF a < i THEN InBlock(Store, b) ELSE 0)]
  /\ databytes = nAMC * (b * BlockWords) + i * InBlock(Store, b)
  /\ Found(tcp_buf, datablockoffset, settings.rider_header, Event)
  /\ r >= 1 => nWords = nAMC
  /\ r > 1 => amc_header_info = [a \in AMC |-> AMCWord(Store, b, a)]

Held ==
  /\ pcTcp \in {"CDF", "AMC13", "AMCs", "data", "blocktail", "tail", "publish"}
  /\ header \in [0 .. Count * (nAMC + 2) -> AnyWord] /\ tail \in AnyWord
  /\ amc_header_info \in [AMC -> AnyWord] /\ nWords \in Int /\ iAMC \in AMC
  /\ DOMAIN tcp_buf = 0 .. nAMC * Store - 1

Stage(b) ==
  /\ Held
  /\ pcTcp = "AMC13" => Has(b, 0, 0)
  /\ pcTcp = "AMCs" => Has(b, 1, 0)
  /\ pcTcp = "data" => Has(b, nAMC + 1, iAMC)
  /\ pcTcp = "blocktail" => Has(b, nAMC + 1, nAMC)
  /\ pcTcp \in {"tail", "publish"} => b = Count - 1 /\ Has(b, nAMC + 2, nAMC)
  /\ pcTcp = "publish" => tail.kind = "CDFtrailer"

(* Words of this fill before the next that ReadXBytes is to return.         *)
Place(b) ==
  CASE pcTcp = "CDF" -> 0
    [] pcTcp = "AMC13" -> Before(b)
    [] pcTcp = "AMCs" -> Before(b) + 1
    [] pcTcp = "data" -> DataAt(b) + iAMC * InBlock(Store, b)
    [] pcTcp = "blocktail" -> DataAt(b) + nAMC * InBlock(Store, b)
    [] pcTcp = "tail" -> Fill - 1
    [] pcTcp = "publish" -> Fill

LEMMA AskedTyped == Held => Asked \in Int
  <1> SUFFICES ASSUME Held PROVE Asked \in Int
    OBVIOUS
  <1>1. amc_header_info[iAMC].num \in Int /\ amc_block_size \in Int /\ nWords \in Int
    BY LinkAssumption DEF Held, AnyWord, LinkAssumption
  <1>2. blockdatabytes \in Int
    BY <1>1 DEF blockdatabytes
  <1> QED
    BY <1>1, <1>2 DEF Asked

(* What each read is asked for, and that it is in the fill.                 *)
LEMMA AskedSize ==
  ASSUME ReaderKnowsBlocks, settings.rider_header \in BOOLEAN, NEW b \in 0 .. Count - 1, Stage(b)
  PROVE  /\ Place(b) \in Nat /\ Asked \in Nat /\ Place(b) + Asked <= Fill
         /\ pcTcp = "AMCs" => Asked = nAMC
         /\ pcTcp = "data" => blockdatabytes = InBlock(Store, b) /\ Asked = InBlock(Store, b)
         /\ pcTcp \in {"CDF", "AMC13", "blocktail", "tail"} => Asked = 1
         /\ pcTcp = "publish" => Asked = 0
  <1>1. /\ Store \in Nat \ {0} /\ Count \in Nat \ {0} /\ Fill \in Nat \ {0} /\ b \in Nat
        /\ (Count - 1) * BlockWords < Store /\ Store <= Count * BlockWords
    BY FillSizes
  <1>2. /\ b * BlockWords < Store /\ InBlock(Store, b) \in 1 .. BlockWords
        /\ b < Count - 1 => InBlock(Store, b) = BlockWords
        /\ b * BlockWords + InBlock(Store, b) <= Store
    BY <1>1, BlocksOfFill
  <1>3. /\ Before(b) \in Nat \ {0} /\ nAMC * InBlock(Store, b) \in Nat
        /\ DataAt(b) = Before(b) + 1 + nAMC
        /\ TailAt(Store, b) \in Nat /\ TailAt(Store, b) = DataAt(b) + nAMC * InBlock(Store, b) + 1
        /\ TailAt(Store, b) < Fill
    BY <1>1, PlacesTyped DEF Fill
  <1> DEFINE nb == InBlock(Store, b)
             y == nAMC * nb
  <1>4. nb \in Nat /\ nb >= 1 /\ y \in Nat /\ TailAt(Store, b) = DataAt(b) + y + 1
    <2>1. nb \in 1 .. BlockWords
      BY <1>2
    <2> HIDE DEF nb
    <2>2. nb \in Nat /\ nb >= 1
      BY <2>1, Sizes
    <2> QED
      BY <1>3, <2>2 DEF nb
  <1>5. CASE pcTcp = "CDF"
    BY <1>1, <1>5 DEF Place, Asked
  <1>6. CASE pcTcp = "AMC13"
    <2>1. Asked = 1 /\ Place(b) = Before(b)
      BY <1>6 DEF Place, Asked
    <2> HIDE DEF y, nb
    <2> QED
      BY <1>1, <1>3, <1>4, <1>6, <2>1, Sizes
  <1>7. CASE pcTcp = "AMCs"
    <2>1. Asked = nAMC /\ Place(b) = Before(b) + 1
      BY <1>7 DEF Place, Asked, Stage, Has
    <2> HIDE DEF y, nb
    <2> QED
      BY <1>1, <1>3, <1>4, <1>7, <2>1, Sizes
  <1>8. CASE pcTcp = "data"
    <2>1. Has(b, nAMC + 1, iAMC) /\ iAMC \in AMC /\ 0 \in AMC /\ nAMC + 1 > 1
      BY <1>8, Sizes DEF Stage, Held, AMC
    <2>2. amc_header_info = [a \in AMC |-> AMCWord(Store, b, a)]
      BY <2>1 DEF Has
    <2>3. Info = AMCWord(Store, b, 0) /\ amc_header_info[iAMC] = AMCWord(Store, b, iAMC)
      BY <2>1, <2>2 DEF Info
    <2>4. /\ Info.M <=> nb < Store - b * BlockWords
          /\ Info.S <=> b > 0
          /\ amc_header_info[iAMC].num = IF b = 0 THEN Store ELSE nb
      BY <2>3 DEF AMCWord, Word
    <2>5. blockdatabytes = nb
      <3>1. CASE nb < Store - b * BlockWords /\ ~ (b > 0)
        <4>1. blockdatabytes = amc_block_size
          BY <2>4, <3>1 DEF blockdatabytes
        <4>2. nb = BlockWords
          <5>1. InBlock(Store, b) = IF Store - b * BlockWords <= BlockWords THEN Store - b * BlockWords ELSE BlockWords
            BY DEF InBlock
          <5>2. b * BlockWords \in Nat
            BY <1>1, Sizes
          <5> DEFINE x == b * BlockWords
          <5>3. nb = (IF Store - x <= BlockWords THEN Store - x ELSE BlockWords) /\ nb < Store - x /\ x \in Nat
            BY <3>1, <5>1, <5>2
          <5> HIDE DEF x, nb
          <5> QED
            BY <1>1, <5>3, Sizes
        <4> QED
          BY <4>1, <4>2 DEF ReaderKnowsBlocks
      <3>2. CASE ~ (nb < Store - b * BlockWords /\ ~ (b > 0))
        <4>1. blockdatabytes = IF b = 0 THEN Store ELSE nb
          BY <2>4, <3>2 DEF blockdatabytes
        <4>2. b = 0 => nb = Store
          <5> SUFFICES ASSUME b = 0 PROVE nb = Store
            OBVIOUS
          <5>1. ~ (nb < Store - 0 * BlockWords) /\ 0 * BlockWords + nb <= Store
            BY <1>2, <3>2
          <5> HIDE DEF nb
          <5> QED
            BY <1>1, <1>4, <5>1, Sizes
        <4> QED
          BY <4>1, <4>2
      <3> QED
        BY <3>1, <3>2
    <2>6. Asked = nb /\ Place(b) = DataAt(b) + iAMC * nb
      BY <1>8, <2>5 DEF Place, Asked
    <2>7. iAMC * nb \in Nat /\ iAMC * nb + nb <= y
      <3> HIDE DEF nb
      <3>1. iAMC \in Nat /\ nAMC - (iAMC + 1) \in Nat
        BY <2>1, Sizes DEF AMC
      <3>2. nAMC * nb = iAMC * nb + nb + (nAMC - (iAMC + 1)) * nb
        BY <1>4, <3>1, Sizes
      <3>3. iAMC * nb \in Nat /\ (nAMC - (iAMC + 1)) * nb \in Nat
        BY <1>4, <3>1
      <3> DEFINE u == iAMC * nb
                 v == (nAMC - (iAMC + 1)) * nb
      <3>4. y = u + nb + v /\ u \in Nat /\ v \in Nat
        BY <3>2, <3>3
      <3> HIDE DEF u, v, y
      <3>5. u \in Nat /\ u + nb <= y
        BY <1>4, <3>4
      <3> QED
        BY <3>5 DEF u
    <2> DEFINE u == iAMC * nb
    <2>8. u \in Nat /\ u + nb <= y /\ Place(b) = DataAt(b) + u /\ Asked = nb
      BY <2>6, <2>7
    <2> HIDE DEF y, u
    <2>9. blockdatabytes = InBlock(Store, b) /\ Asked = InBlock(Store, b)
      BY <2>5, <2>8
    <2> HIDE DEF nb
    <2>10. Place(b) \in Nat /\ Asked \in Nat /\ Place(b) + Asked <= Fill
      BY <1>1, <1>3, <1>4, <2>8, Sizes
    <2> QED
      BY <1>8, <2>9, <2>10
  <1>9. CASE pcTcp = "blocktail"
    <2>1. Asked = 1 /\ Place(b) = DataAt(b) + y
      BY <1>9 DEF Place, Asked
    <2> HIDE DEF y, nb
    <2> QED
      BY <1>1, <1>3, <1>4, <1>9, <2>1, Sizes
  <1>10. CASE pcTcp = "tail"
    BY <1>1, <1>10 DEF Place, Asked
  <1>11. CASE pcTcp = "publish"
    BY <1>1, <1>11 DEF Place, Asked
  <1> QED
    BY <1>5, <1>6, <1>7, <1>8, <1>9, <1>10, <1>11 DEF Stage, Held

(* The places of the modules if all have n words.                           *)
LEMMA OffsetsEven ==
  ASSUME NEW info, NEW n \in Nat, \A i \in AMC : info[i].num = n
  PROVE  \A i \in AMC : AMCoffset(info)[i] = i * n
  <1> DEFINE Right(g) == g = [i \in AMC |-> IF i = 0 THEN 0 ELSE g[i - 1] + info[i - 1].num]
             even == [i \in AMC |-> i * n]
             c == CHOOSE g : Right(g)
  <1>1. Right(even)
    <2> DEFINE h == [i \in AMC |-> IF i = 0 THEN 0 ELSE even[i - 1] + info[i - 1].num]
    <2>1. ASSUME NEW i \in AMC PROVE h[i] = even[i]
      <3>1. CASE i = 0
        <4>1. h[i] = 0 /\ even[i] = i * n
          BY <3>1
        <4>2. 0 * n = 0
          OBVIOUS
        <4> QED
          BY <3>1, <4>1, <4>2
      <3>2. CASE i # 0
        <4>1. i \in Nat /\ i - 1 \in AMC
          BY <3>2, Sizes DEF AMC
        <4>2. h[i] = even[i - 1] + n /\ even[i - 1] = (i - 1) * n /\ even[i] = i * n
          BY <3>2, <4>1
        <4>3. (i - 1) * n + n = i * n
          BY <4>1
        <4> HIDE DEF h, even
        <4> QED
          BY <4>2, <4>3
      <3> QED
        BY <3>1, <3>2
    <2> QED
      BY <2>1
  <1>2. Right(c)
    <2> HIDE DEF even, Right
    <2> QED
      BY <1>1
  <1>3. AMCoffset(info) = c
    BY DEF AMCoffset
  <1>4. \A i \in AMC : c[i] = IF i = 0 THEN 0 ELSE c[i - 1] + info[i - 1].num
    <2> HIDE DEF c, even
    <2> QED
      BY <1>2
  <1> HIDE DEF c, Right, even
  <1> DEFINE T == {i \in AMC : c[i] # i * n}
  <1>5. SUFFICES ASSUME T # {} PROVE FALSE
    BY <1>3
  <1>6. PICK i \in T : \A k \in T : i <= k
    <2>1. T \in SUBSET Nat
      BY Sizes DEF AMC
    <2> HIDE DEF T
    <2> QED
      BY <1>5, <2>1, LeastNumber
  <1>7. i \in AMC /\ c[i] # i * n
    BY <1>6
  <1>8. i # 0
    <2>1. 0 * n = 0
      OBVIOUS
    <2>2. i = 0 => c[i] = 0
      BY <1>4, <1>7
    <2> QED
      BY <1>7, <2>1, <2>2
  <1>9. i \in Nat /\ i - 1 \in AMC /\ ~ (i <= i - 1)
    BY <1>7, <1>8, Sizes DEF AMC
  <1>10. c[i - 1] = (i - 1) * n
    BY <1>6, <1>9
  <1>11. c[i] = c[i - 1] + n
    BY <1>4, <1>7, <1>8, <1>9
  <1>12. (i - 1) * n + n = i * n
    BY <1>9
  <1> QED
    BY <1>7, <1>10, <1>11, <1>12

(* Words of block b go to the header bank after those there are.            *)
LEMMA HeaderGrows ==
  ASSUME settings.rider_header \in BOOLEAN, Held, NEW b \in 0 .. Count - 1, NEW r \in Nat,
         NEW words \in Seq(AnyWord), r + Len(words) <= nAMC + 2, nextHeader = b * (nAMC + 2) + r + 1,
         HeadsGood(header, settings.rider_header, TCPfillnumber, b, r), ToHeader(words),
         \A k \in 1 .. Len(words) : HeadWord(words[k], settings.rider_header, b, r + k)
  PROVE  /\ header' \in [0 .. Count * (nAMC + 2) -> AnyWord]
         /\ HeadsGood(header', settings.rider_header, TCPfillnumber, b, r + Len(words))
  <1> DEFINE h == nAMC + 2
             n == Len(words)
             rh == settings.rider_header
  <1>1. /\ h \in Nat /\ Count \in Nat \ {0} /\ b \in Nat /\ b * h \in Nat /\ Count * h \in Nat
        /\ n \in Nat /\ r + n <= h /\ nextHeader = b * h + r + 1
    <2>1. h \in Nat /\ Count \in Nat \ {0} /\ b \in Nat
      BY FillSizes, Sizes
    <2> HIDE DEF h
    <2>2. b * h \in Nat /\ Count * h \in Nat
      BY <2>1
    <2> QED
      BY <2>1, <2>2 DEF h
  <1>2. header \in [0 .. Count * h -> AnyWord] /\ DOMAIN words = 1 .. n
        /\ \A k \in 1 .. n : words[k] \in AnyWord
    BY DEF Held
  <1>3. header' = [w \in 0 .. Count * h |-> IF w - nextHeader + 1 \in 1 .. n
                                            THEN words[w - nextHeader + 1] ELSE header[w]]
    <2>1. DOMAIN header = 0 .. Count * h /\ DOMAIN words = 1 .. n
      BY <1>2
    <2> QED
      BY <2>1, Zenon DEF ToHeader
  <1> HIDE DEF h, n
  <1>4. header' \in [0 .. Count * h -> AnyWord]
    BY <1>2, <1>3
  <1>5. header'[0] = Word("CDF", TCPfillnumber, 0)
    <2>1. header[0] = Word("CDF", TCPfillnumber, 0)
      BY Zenon DEF HeadsGood
    <2>2. ~ (0 - nextHeader + 1 \in 1 .. n) /\ 0 \in 0 .. Count * h
      <3> DEFINE x == b * h
      <3>1. x \in Nat /\ nextHeader = x + r + 1
        BY <1>1
      <3> HIDE DEF x
      <3> QED
        BY <1>1, <3>1
    <2> QED
      BY <1>3, <2>1, <2>2
  <1>6. ASSUME NEW d \in 0 .. Count - 1, NEW x \in 1 .. h, d < b \/ (d = b /\ x <= r + n)
        PROVE  HeadWord(header'[d * h + x], rh, d, x)
    <2> DEFINE pos == d * h + x
    <2>1. d \in Nat /\ d * h \in Nat /\ x \in Nat
      BY <1>1
    <2>2. pos \in 0 .. Count * h
      <3> DEFINE u == d * h
                 v == (Count - (d + 1)) * h
                 y == Count * h
      <3>1. Count - (d + 1) \in Nat
        BY <1>1
      <3>2. y = u + h + v /\ u \in Nat /\ v \in Nat
        BY <1>1, <2>1, <3>1
      <3> HIDE DEF u, v, y
      <3>3. u + x \in 0 .. y
        BY <1>1, <2>1, <3>2
      <3> QED
        BY <3>3 DEF u, y
    <2>3. \A e \in 0 .. Count - 1, z \in 1 .. h :
            e < b \/ (e = b /\ z <= r) => HeadWord(header[e * h + z], rh, e, z)
      BY Zenon DEF HeadsGood, Count, h
    <2>4. CASE d < b
      <3>1. ~ (pos - nextHeader + 1 \in 1 .. n)
        <4> DEFINE u == d * h
                   v == (b - (d + 1)) * h
                   y == b * h
        <4>1. b - (d + 1) \in Nat
          BY <1>1, <2>1, <2>4
        <4>3. b * h = d * h + h + (b - (d + 1)) * h /\ (b - (d + 1)) * h \in Nat
          BY <1>1, <2>1, <4>1
        <4>2. y = u + h + v /\ u \in Nat /\ v \in Nat /\ nextHeader = y + r + 1 /\ pos = u + x
          BY <1>1, <2>1, <4>3
        <4> HIDE DEF u, v, y, pos
        <4> QED
          BY <1>1, <2>1, <4>2
      <3>2. header'[pos] = header[pos]
        BY <1>3, <2>2, <3>1
      <3> QED
        BY <2>3, <2>4, <3>2
    <2>5. CASE d = b
      <3>1. pos - nextHeader + 1 = x - r
        <4> DEFINE y == b * h
        <4>1. pos = y + x /\ nextHeader = y + r + 1 /\ y \in Nat
          BY <1>1, <2>5
        <4> HIDE DEF pos, y
        <4> QED
          BY <2>1, <4>1, SMTT(30)
      <3>2. CASE x <= r
        <4>1. ~ (x - r \in 1 .. n)
          BY <1>1, <2>1, <3>2
        <4>2. header'[pos] = header[pos]
          BY <1>3, <2>2, <3>1, <4>1
        <4> QED
          BY <2>3, <2>5, <3>2, <4>2
      <3>3. CASE ~ (x <= r)
        <4>1. x - r \in 1 .. n /\ r + (x - r) = x
          BY <1>1, <1>6, <2>1, <2>4, <2>5, <3>3
        <4>2. header'[pos] = words[x - r]
          BY <1>3, <2>2, <3>1, <4>1
        <4>3. HeadWord(words[x - r], rh, b, r + (x - r))
          BY <4>1, Zenon DEF n
        <4> QED
          BY <2>5, <4>1, <4>2, <4>3
      <3> QED
        BY <3>2, <3>3
    <2> QED
      BY <1>6, <2>4, <2>5
  <1>7. HeadsGood(header', rh, TCPfillnumber, b, r + n)
    BY <1>5, <1>6, Zenon DEF HeadsGood, Count, h
  <1> QED
    BY <1>4, <1>7 DEF h, n

(* The words of a read are those that come next in the fill.                *)
Fed(words, b) ==
  /\ settings.rider_header \in BOOLEAN /\ b \in 0 .. Count - 1 /\ Stage(b)
  /\ TCPfillnumber \in Nat /\ TCPfillnumber < EMULATORfillnumber
  /\ words \in Seq(AnyWord) /\ Len(words) = Asked
  /\ \A k \in 1 .. Len(words) :
       Fits(words[k], settings.rider_header, Event, TCPfillnumber, Place(b) + k)

Frame == UNCHANGED <<settings, sent, EMULATORfillnumber, TCPfillnumber>>

Advanced(b) == \E c \in 0 .. Count - 1 : Stage(c)' /\ Place(c)' = Place(b) + Asked

LEMMA WordInside ==
  ASSUME NEW w, NEW rider_header, NEW ev, NEW n, NEW j, j > 1, Fits(w, rider_header, ev, n, j),
         NEW b \in 0 .. nBlocks(rider_header) - 1
  PROVE  /\ w \in AnyWord
         /\ j = Before(b) + 1 => w = Word("AMC13", nAMC, 0)
         /\ \A i \in AMC : j = Before(b) + (1 + (i + 1)) => w = AMCWord(nt_words_store(rider_header), b, i)
         /\ \A i \in AMC, k \in 1 .. InBlock(nt_words_store(rider_header), b) :
              j = DataAt(b) + (i * InBlock(nt_words_store(rider_header), b) + k)
                => Wanted(w, rider_header, ev, b * BlockWords + i * nt_words_store(rider_header) + k)
         /\ j = TailAt(nt_words_store(rider_header), b) => w.kind = "blocktail"
         /\ j = FillLen(nt_words_store(rider_header), nBlocks(rider_header)) => w.kind = "CDFtrailer"
  BY Zenon DEF Fits, Inside

LEMMA FedCDF ==
  ASSUME ReaderKnowsBlocks, NEW words, NEW b, Fed(words, b), Frame, GotCDF(words)
  PROVE  Advanced(b)
  <1>1. /\ settings.rider_header \in BOOLEAN /\ b \in 0 .. Count - 1 /\ Stage(b) /\ Held
        /\ pcTcp = "CDF" /\ pcTcp' = "AMC13" /\ TCPfillnumber < EMULATORfillnumber
    BY Zenon DEF Fed, GotCDF, Stage
  <1>2. Asked = 1 /\ Place(b) = 0 /\ Len(words) = 1
    BY <1>1, AskedSize DEF Fed, Place
  <1>3. words[1] = Word("CDF", TCPfillnumber, 0) /\ words[1] \in AnyWord
    <2>1. Fits(words[1], settings.rider_header, Event, TCPfillnumber, 0 + 1) /\ 0 + 1 = 1
      BY <1>2 DEF Fed
    <2> QED
      BY <2>1, Zenon DEF Fits
  <1>4. UNCHANGED <<settings, sent, EMULATORfillnumber, TCPfillnumber, nWords, iAMC, tcp_buf, tail>>
        /\ Count' = Count /\ Store' = Store
    BY Zenon DEF Frame, GotCDF, Count, Store
  <1>5. /\ Count \in Nat \ {0} /\ Store \in Nat \ {0} /\ 0 \in 0 .. Count - 1 /\ 0 \in AMC
        /\ Count * (nAMC + 2) \in Nat
    BY <1>1, FillSizes, Sizes DEF AMC
  <1>6. header' = [header EXCEPT ![0] = words[1]] /\ header \in [0 .. Count * (nAMC + 2) -> AnyWord]
        /\ amc_header_info' = [amc_header_info EXCEPT ![0].M = TRUE]
        /\ amc_header_info \in [AMC -> AnyWord]
        /\ nextHeader' = 1 /\ databytes' = 0 /\ datablockoffset' = [i \in AMC |-> 0]
    BY <1>1, Zenon DEF GotCDF, Held
  <1>7. header' \in [0 .. Count * (nAMC + 2) -> AnyWord] /\ header'[0] = Word("CDF", TCPfillnumber, 0)
    BY <1>3, <1>5, <1>6
  <1>8. amc_header_info' \in [AMC -> AnyWord]
    <2>1. \A w \in AnyWord : [w EXCEPT !.M = TRUE] \in AnyWord
      BY DEF AnyWord
    <2> HIDE DEF AnyWord
    <2> QED
      BY <1>5, <1>6, <2>1
  <1>9. Held'
    BY <1>1, <1>4, <1>7, <1>8, Zenon DEF Held
  <1>10. HeadsGood(header', settings'.rider_header, TCPfillnumber', 0, 0)
    <2>1. \A d \in 0 .. Count - 1, x \in 1 .. nAMC + 2 : ~ (d < 0 \/ (d = 0 /\ x <= 0))
      BY <1>5, Sizes
    <2> QED
      BY <1>4, <1>7, <2>1, Zenon DEF HeadsGood, Count
  <1>11. datablockoffset' = [a \in AMC |-> 0 * BlockWords + (IF a < 0 THEN InBlock(Store, 0) ELSE 0)]
    <2>1. \A a \in AMC : 0 * BlockWords + (IF a < 0 THEN InBlock(Store, 0) ELSE 0) = 0
      BY Sizes DEF AMC
    <2> QED
      BY <1>6, <2>1
  <1>12. Found(tcp_buf', datablockoffset', settings'.rider_header, Event')
    <2>1. \A i \in AMC, o \in 0 .. Store - 1 : ~ (o < datablockoffset'[i])
      BY <1>5, <1>6
    <2> QED
      BY <1>4, <2>1, Zenon DEF Found, Store
  <1>13. databytes' = nAMC * (0 * BlockWords) + 0 * InBlock(Store, 0) /\ nextHeader' = 0 * (nAMC + 2) + 0 + 1
    <2>1. InBlock(Store, 0) \in Nat
      <3>1. InBlock(Store, 0) \in 1 .. BlockWords
        BY <1>1, <1>5, FillSizes, BlocksOfFill
      <3> QED
        BY <3>1
    <2> QED
      BY <1>6, <2>1, Sizes
  <1>14. Has(0, 0, 0)'
    <2>1. ~ (0 > 0 \/ 0 > 1) /\ ~ (0 >= 1) /\ ~ (0 > 1)
      OBVIOUS
    <2> QED
      BY <1>1, <1>4, <1>10, <1>11, <1>12, <1>13, <2>1, Zenon DEF Has
  <1>15. Stage(0)'
    BY <1>1, <1>9, <1>14 DEF Stage
  <1>16. Place(0)' = Place(b) + Asked
    <2>1. Place(0)' = Before(0)
      BY <1>1 DEF Place
    <2>2. Before(0) = 1
      <3>1. BlockLen \in Nat
        <4>1. nAMC * BlockWords \in Nat
          BY Sizes
        <4> QED
          BY <4>1, Sizes DEF BlockLen
      <3> QED
        BY <3>1 DEF Before
    <2> QED
      BY <1>2, <2>1, <2>2
  <1> QED
    BY <1>5, <1>15, <1>16 DEF Advanced

LEMMA FedAMC13 ==
  ASSUME ReaderKnowsBlocks, NEW words, NEW b, Fed(words, b), Frame, GotAMC13(words)
  PROVE  Advanced(b)
  <1>1. /\ settings.rider_header \in BOOLEAN /\ b \in 0 .. Count - 1 /\ Stage(b) /\ Held
        /\ pcTcp = "AMC13" /\ pcTcp' = "AMCs" /\ Has(b, 0, 0) /\ words \in Seq(AnyWord)
    BY Zenon DEF Fed, GotAMC13, Stage
  <1>2. Asked = 1 /\ Place(b) = Before(b) /\ Len(words) = 1
    BY <1>1, AskedSize DEF Fed, Place
  <1>3. Before(b) \in Nat \ {0} /\ b \in Nat
    BY <1>1, FillSizes, PlacesTyped
  <1>4. words[1] = Word("AMC13", nAMC, 0)
    <2>1. Fits(words[1], settings.rider_header, Event, TCPfillnumber, Before(b) + 1) /\ Before(b) + 1 > 1
      BY <1>2, <1>3 DEF Fed
    <2>2. b \in 0 .. nBlocks(settings.rider_header) - 1
      BY <1>1 DEF Count
    <2> QED
      BY <2>1, <2>2, WordInside
  <1>5. UNCHANGED <<settings, sent, EMULATORfillnumber, TCPfillnumber, amc_header_info, iAMC,
                    dataAMCoffset, datablockoffset, databytes, tcp_buf, tail>>
        /\ Count' = Count /\ Store' = Store /\ Event' = Event
    BY Zenon DEF Frame, GotAMC13, Count, Store, Event
  <1>6. ToHeader(words) /\ nextHeader' = nextHeader + 1 /\ nWords' = words[1].num
    BY DEF GotAMC13
  <1>7. /\ TCPfillnumber < EMULATORfillnumber
        /\ HeadsGood(header, settings.rider_header, TCPfillnumber, b, 0)
        /\ nextHeader = b * (nAMC + 2) + 0 + 1
    BY <1>1, Zenon DEF Has
  <1>8. /\ header' \in [0 .. Count * (nAMC + 2) -> AnyWord]
        /\ HeadsGood(header', settings.rider_header, TCPfillnumber, b, 0 + 1)
    <2>1. \A k \in 1 .. Len(words) : HeadWord(words[k], settings.rider_header, b, 0 + k)
      <3>1. \A k \in 1 .. 1 : k = 1 /\ 0 + k = 1 /\ 1 # nAMC + 2 /\ \A i \in AMC : 1 # 1 + (i + 1)
        BY Sizes DEF AMC
      <3> QED
        BY <1>2, <1>4, <3>1, Zenon DEF HeadWord
    <2>2. 0 + Len(words) <= nAMC + 2 /\ 0 \in Nat
      BY <1>2, Sizes
    <2>3. /\ header' \in [0 .. Count * (nAMC + 2) -> AnyWord]
          /\ HeadsGood(header', settings.rider_header, TCPfillnumber, b, 0 + Len(words))
      BY <1>1, <1>6, <1>7, <2>1, <2>2, HeaderGrows, Zenon
    <2> QED
      BY <1>2, <2>3
  <1>9. nWords' = nAMC
    BY <1>4, <1>6 DEF Word
  <1>10. Held'
    <2>1. nWords' \in Int
      BY <1>9, Sizes
    <2> QED
      BY <1>1, <1>5, <1>8, <2>1, Zenon DEF Held
  <1>11. Has(b, 1, 0)'
    <2>1. nextHeader' = b * (nAMC + 2) + 1 + 1
      <3>1. b * (nAMC + 2) \in Nat
        BY <1>3, Sizes
      <3> QED
        BY <1>6, <1>7, <3>1
    <2>2. ~ (1 > 1) /\ ~ (0 > 1) /\ 0 + 1 = 1
      OBVIOUS
    <2>3. HeadsGood(header', settings'.rider_header, TCPfillnumber', b, 1)
      BY <1>5, <1>8, <2>2, Zenon
    <2>4. /\ b > 0 => dataAMCoffset' = [a \in AMC |-> a * Store]
          /\ datablockoffset' = [a \in AMC |-> b * BlockWords + (IF a < 0 THEN InBlock(Store, b) ELSE 0)]
          /\ databytes' = nAMC * (b * BlockWords) + 0 * InBlock(Store, b)
          /\ Found(tcp_buf', datablockoffset', settings'.rider_header, Event')
      BY <1>1, <1>5, Zenon DEF Has
    <2> QED
      BY <1>5, <1>7, <1>9, <2>1, <2>2, <2>3, <2>4, Zenon DEF Has
  <1>12. Stage(b)'
    BY <1>1, <1>10, <1>11 DEF Stage
  <1>13. Place(b)' = Place(b) + Asked
    BY <1>1, <1>2 DEF Place
  <1> QED
    BY <1>1, <1>12, <1>13 DEF Advanced

LEMMA FedAMCs ==
  ASSUME ReaderKnowsBlocks, NEW words, NEW b, Fed(words, b), Frame, GotAMCs(words)
  PROVE  Advanced(b)
  <1>1. /\ settings.rider_header \in BOOLEAN /\ b \in 0 .. Count - 1 /\ Stage(b) /\ Held
        /\ pcTcp = "AMCs" /\ pcTcp' = "data" /\ Has(b, 1, 0) /\ words \in Seq(AnyWord)
    BY Zenon DEF Fed, GotAMCs, Stage
  <1>2. Asked = nAMC /\ Place(b) = Before(b) + 1 /\ Len(words) = nAMC
    BY <1>1, AskedSize DEF Fed, Place
  <1>3. /\ Before(b) \in Nat \ {0} /\ b \in Nat /\ InBlock(Store, b) \in Nat
        /\ DataAt(b) = Before(b) + 1 + nAMC /\ Store \in Nat /\ b * BlockWords < Store
    <2>1. /\ Before(b) \in Nat \ {0} /\ b \in Nat /\ Store \in Nat /\ b * BlockWords < Store
          /\ DataAt(b) = Before(b) + 1 + nAMC
      BY <1>1, FillSizes, PlacesTyped, BlocksOfFill
    <2>2. InBlock(Store, b) \in 1 .. BlockWords
      BY <1>1, FillSizes, BlocksOfFill
    <2>3. InBlock(Store, b) \in Nat
      BY <2>2
    <2> QED
      BY <2>1, <2>3
  <1>4. \A i \in AMC : i + 1 \in 1 .. Len(words) /\ words[i + 1] = AMCWord(Store, b, i)
                       /\ words[i + 1] \in AnyWord
    <2> SUFFICES ASSUME NEW i \in AMC
                 PROVE  /\ i + 1 \in 1 .. Len(words) /\ words[i + 1] = AMCWord(Store, b, i)
                        /\ words[i + 1] \in AnyWord
      OBVIOUS
    <2>1. i + 1 \in 1 .. Len(words)
      BY <1>2, Sizes DEF AMC
    <2>2. Fits(words[i + 1], settings.rider_header, Event, TCPfillnumber, (Before(b) + 1) + (i + 1))
      BY <1>2, <2>1, Zenon DEF Fed
    <2>3. (Before(b) + 1) + (i + 1) = Before(b) + (1 + (i + 1)) /\ Before(b) + (1 + (i + 1)) > 1
      BY <1>3, Sizes DEF AMC
    <2>4. Fits(words[i + 1], settings.rider_header, Event, TCPfillnumber, Before(b) + (1 + (i + 1)))
      BY <2>2, <2>3
    <2>5. b \in 0 .. nBlocks(settings.rider_header) - 1
      BY <1>1 DEF Count
    <2>6. words[i + 1] = AMCWord(nt_words_store(settings.rider_header), b, i) /\ words[i + 1] \in AnyWord
      <3> DEFINE j == Before(b) + (1 + (i + 1))
                 w == words[i + 1]
      <3>1. j > 1 /\ Fits(w, settings.rider_header, Event, TCPfillnumber, j)
            /\ j = Before(b) + (1 + (i + 1))
        BY <2>3, <2>4
      <3> HIDE DEF j, w
      <3>2. /\ w \in AnyWord
            /\ \A a \in AMC : j = Before(b) + (1 + (a + 1))
                             => w = AMCWord(nt_words_store(settings.rider_header), b, a)
        BY <2>5, <3>1, WordInside
      <3>3. w = AMCWord(nt_words_store(settings.rider_header), b, i)
        BY <3>1, <3>2
      <3> QED
        BY <3>2, <3>3 DEF w
    <2> QED
      BY <2>1, <2>6 DEF Store
  <1>5. UNCHANGED <<settings, sent, EMULATORfillnumber, TCPfillnumber, nWords, datablockoffset,
                    databytes, tcp_buf, tail>>
        /\ Count' = Count /\ Store' = Store /\ Event' = Event
    BY Zenon DEF Frame, GotAMCs, Count, Store, Event
  <1>6. /\ ToHeader(words) /\ nextHeader' = nextHeader + nWords /\ iAMC' = 0
        /\ amc_header_info' = [i \in AMC |-> IF i < nWords THEN words[i + 1] ELSE amc_header_info[i]]
    BY DEF GotAMCs
  <1>7. /\ TCPfillnumber < EMULATORfillnumber /\ nWords = nAMC
        /\ HeadsGood(header, settings.rider_header, TCPfillnumber, b, 1)
        /\ nextHeader = b * (nAMC + 2) + 1 + 1
    <2>1. 1 >= 1
      OBVIOUS
    <2> QED
      BY <1>1, <2>1, Zenon DEF Has
  <1>8. /\ header' \in [0 .. Count * (nAMC + 2) -> AnyWord]
        /\ HeadsGood(header', settings.rider_header, TCPfillnumber, b, nAMC + 1)
    <2>1. \A k \in 1 .. Len(words) : HeadWord(words[k], settings.rider_header, b, 1 + k)
      <3> SUFFICES ASSUME NEW k \in 1 .. Len(words)
                   PROVE  HeadWord(words[k], settings.rider_header, b, 1 + k)
        OBVIOUS
      <3>1. k - 1 \in AMC /\ (k - 1) + 1 = k /\ 1 + k # 1 /\ 1 + k # nAMC + 2
        BY <1>2, Sizes DEF AMC
      <3>2. \A i \in AMC : 1 + k = 1 + (i + 1) => i = k - 1
        BY <1>2, Sizes DEF AMC
      <3>3. words[k] = AMCWord(Store, b, k - 1)
        BY <1>4, <3>1
      <3> QED
        BY <3>1, <3>2, <3>3, Zenon DEF HeadWord, Store
    <2>2. 1 + Len(words) <= nAMC + 2 /\ 1 \in Nat /\ 1 + Len(words) = nAMC + 1
      BY <1>2, Sizes
    <2>3. /\ header' \in [0 .. Count * (nAMC + 2) -> AnyWord]
          /\ HeadsGood(header', settings.rider_header, TCPfillnumber, b, 1 + Len(words))
      BY <1>1, <1>6, <1>7, <2>1, <2>2, HeaderGrows, Zenon
    <2> QED
      BY <2>2, <2>3
  <1>9. amc_header_info' = [a \in AMC |-> AMCWord(Store, b, a)] /\ amc_header_info' \in [AMC -> AnyWord]
    <2>1. \A i \in AMC : i < nWords
      BY <1>7, Sizes DEF AMC
    <2>2. amc_header_info' = [a \in AMC |-> words[a + 1]]
      BY <1>6, <2>1
    <2> QED
      BY <1>4, <2>2
  <1>10. Held' /\ iAMC' = 0
    <2>1. 0 \in AMC
      BY Sizes DEF AMC
    <2> QED
      BY <1>1, <1>5, <1>6, <1>8, <1>9, <2>1, Zenon DEF Held
  <1>11. dataAMCoffset' = [a \in AMC |-> a * Store]
    <2>1. 0 \in AMC
      BY Sizes DEF AMC
    <2>2. amc_header_info'[0].S <=> b > 0
      BY <1>9, <2>1, Zenon DEF AMCWord, Word
    <2>3. CASE b > 0
      BY <1>1, <2>2, <2>3, Zenon DEF GotAMCs, Has
    <2>4. CASE ~ (b > 0)
      <3>1. b = 0
        BY <1>3, <2>4
      <3> DEFINE info == amc_header_info'
      <3>2. \A i \in AMC : info[i].num = Store
        <4>1. \A i \in AMC : info[i] = AMCWord(Store, 0, i)
          BY <1>9, <3>1
        <4>2. \A i \in AMC : AMCWord(Store, 0, i).num = Store
          BY DEF AMCWord, Word
        <4> QED
          BY <4>1, <4>2
      <3>3. dataAMCoffset' = [i \in AMC |-> IF i < nWords THEN AMCoffset(info)[i] ELSE dataAMCoffset[i]]
        BY <2>2, <2>4, Zenon DEF GotAMCs
      <3> HIDE DEF info
      <3>4. \A i \in AMC : AMCoffset(info)[i] = i * Store
        BY <1>3, <3>2, OffsetsEven
      <3>5. \A i \in AMC : i < nWords
        BY <1>7, Sizes DEF AMC
      <3> QED
        BY <3>3, <3>4, <3>5
    <2> QED
      BY <2>3, <2>4
  <1>12. Has(b, nAMC + 1, iAMC)'
    <2>1. nextHeader' = b * (nAMC + 2) + (nAMC + 1) + 1
      <3> DEFINE x == b * (nAMC + 2)
      <3>1. x \in Nat
        BY <1>3, Sizes
      <3>2. nextHeader' = (x + 1 + 1) + nAMC
        BY <1>6, <1>7
      <3> HIDE DEF x
      <3>3. nextHeader' = x + (nAMC + 1) + 1
        BY <3>1, <3>2, Sizes
      <3> QED
        BY <3>3 DEF x
    <2>3. HeadsGood(header', settings'.rider_header, TCPfillnumber', b, nAMC + 1)
      BY <1>5, <1>8, Zenon
    <2>4. /\ datablockoffset' = [a \in AMC |-> b * BlockWords + (IF a < 0 THEN InBlock(Store, b) ELSE 0)]
          /\ databytes' = nAMC * (b * BlockWords) + 0 * InBlock(Store, b)
          /\ Found(tcp_buf', datablockoffset', settings'.rider_header, Event')
      BY <1>1, <1>5, Zenon DEF Has
    <2> QED
      BY <1>5, <1>6, <1>7, <1>9, <1>11, <2>1, <2>3, <2>4, Zenon DEF Has
  <1>13. Stage(b)'
    BY <1>1, <1>10, <1>12 DEF Stage
  <1>14. Place(b)' = Place(b) + Asked
    <2>1. Place(b)' = DataAt(b) + iAMC' * InBlock(Store, b)
      BY <1>1, <1>5 DEF Place
    <2>2. iAMC' * InBlock(Store, b) = 0
      BY <1>3, <1>6
    <2> QED
      BY <1>2, <1>3, <2>1, <2>2, Sizes
  <1> QED
    BY <1>1, <1>13, <1>14 DEF Advanced

(* nb words of module i go to its place in the buffer, behind the x that it *)
(* has there.                                                               *)
Copied(new, later, place, offset, words, rider_header, ev, i, x, nb) ==
  /\ rider_header \in BOOLEAN /\ i \in AMC /\ x \in Nat /\ nb \in Nat
  /\ x + nb <= nt_words_store(rider_header) /\ DOMAIN words = 1 .. nb
  /\ DOMAIN place = 0 .. nAMC * nt_words_store(rider_header) - 1
  /\ new = [w \in DOMAIN place |-> IF w - (i * nt_words_store(rider_header) + x) + 1 \in DOMAIN words
                                   THEN words[w - (i * nt_words_store(rider_header) + x) + 1]
                                   ELSE place[w]]
  /\ offset[i] = x /\ later[i] = x + nb /\ \A a \in AMC : a # i => later[a] = offset[a]
  /\ Found(place, offset, rider_header, ev)
  /\ \A k \in 1 .. nb : Wanted(words[k], rider_header, ev, x + i * nt_words_store(rider_header) + k)

LEMMA FoundGrows ==
  ASSUME NEW new, NEW later, NEW place, NEW offset, NEW words, NEW rider_header, NEW ev, NEW i, NEW x, NEW nb,
         Copied(new, later, place, offset, words, rider_header, ev, i, x, nb)
  PROVE  Found(new, later, rider_header, ev)
  <1> SUFFICES ASSUME rider_header \in BOOLEAN, i \in AMC, x \in Nat, nb \in Nat,
                      x + nb <= nt_words_store(rider_header), DOMAIN words = 1 .. nb,
                      DOMAIN place = 0 .. nAMC * nt_words_store(rider_header) - 1,
                      new = [w \in DOMAIN place |->
                               IF w - (i * nt_words_store(rider_header) + x) + 1 \in DOMAIN words
                               THEN words[w - (i * nt_words_store(rider_header) + x) + 1] ELSE place[w]],
                      offset[i] = x, later[i] = x + nb, \A a \in AMC : a # i => later[a] = offset[a],
                      Found(place, offset, rider_header, ev),
                      \A k \in 1 .. nb :
                        Wanted(words[k], rider_header, ev, x + i * nt_words_store(rider_header) + k)
               PROVE  Found(new, later, rider_header, ev)
    BY Zenon DEF Copied
  <1> DEFINE nt == nt_words_store(rider_header)
             at == i * nt + x
  <1>1. nt \in Nat \ {0} /\ x + nb <= nt /\ DOMAIN place = 0 .. nAMC * nt - 1
    BY StoreTyped
  <1>2. new = [w \in 0 .. nAMC * nt - 1 |-> IF w - at + 1 \in 1 .. nb THEN words[w - at + 1] ELSE place[w]]
    BY <1>1, Zenon
  <1>3. \A k \in 1 .. nb : Wanted(words[k], rider_header, ev, x + i * nt + k)
    BY Zenon
  <1>4. \A a \in AMC, o \in 0 .. nt - 1 :
          o < offset[a] => Wanted(place[a * nt + o], rider_header, ev, a * nt + o + 1)
    BY Zenon DEF Found
  <1> SUFFICES ASSUME NEW a \in AMC, NEW o \in 0 .. nt - 1, o < later[a]
               PROVE  Wanted(new[a * nt + o], rider_header, ev, a * nt + o + 1)
    BY Zenon DEF Found
  <1> HIDE DEF nt
  <1>5. /\ a \in Nat /\ i \in Nat /\ o \in Nat /\ o + 1 \in 1 .. nt /\ nAMC - (a + 1) \in Nat
        /\ i * nt \in Nat /\ a * nt \in Nat
    <2>1. a \in Nat /\ i \in Nat /\ o \in Nat /\ o + 1 \in 1 .. nt /\ nAMC - (a + 1) \in Nat
      BY <1>1, Sizes DEF AMC
    <2> QED
      BY <1>1, <2>1
  <1> DEFINE pos == a * nt + o
  <1>6. pos \in 0 .. nAMC * nt - 1
    <2>1. nAMC * nt = a * nt + nt + (nAMC - (a + 1)) * nt /\ (nAMC - (a + 1)) * nt \in Nat
      BY <1>1, <1>5, Sizes
    <2> DEFINE u == a * nt
               v == (nAMC - (a + 1)) * nt
               y == nAMC * nt
    <2>2. y = u + nt + v /\ v \in Nat /\ u \in Nat
      BY <1>5, <2>1
    <2> HIDE DEF u, v, y
    <2>3. u + o \in 0 .. y - 1
      BY <1>1, <1>5, <2>2
    <2> QED
      BY <2>3 DEF u, y
  <1>7. CASE a = i
    <2>1. pos - at + 1 = o - x + 1
      <3> DEFINE u == i * nt
      <3>1. pos = u + o /\ at = u + x /\ u \in Nat
        BY <1>5, <1>7
      <3> HIDE DEF u, pos, at
      <3> QED
        BY <1>5, <3>1
    <2>2. CASE o < x
      <3>1. ~ (o - x + 1 \in 1 .. nb) /\ o < offset[a]
        BY <1>5, <1>7, <2>2
      <3>2. new[pos] = place[pos]
        BY <1>2, <1>6, <2>1, <3>1
      <3> QED
        BY <1>4, <3>1, <3>2
    <2>3. CASE ~ (o < x)
      <3>1. o < x + nb
        BY <1>7
      <3>2. o - x + 1 \in 1 .. nb
        BY <1>5, <2>3, <3>1
      <3>3. new[pos] = words[o - x + 1]
        BY <1>2, <1>6, <2>1, <3>2, ZenonT(60)
      <3>4. x + i * nt + (o - x + 1) = a * nt + o + 1
        <4> DEFINE u == i * nt
        <4>1. u \in Nat /\ a * nt = u
          BY <1>5, <1>7
        <4> HIDE DEF u
        <4>2. x + u + (o - x + 1) = u + o + 1
          BY <1>5, <4>1
        <4> QED
          BY <4>1, <4>2 DEF u
      <3>5. Wanted(words[o - x + 1], rider_header, ev, x + i * nt + (o - x + 1))
        BY <1>3, <3>2
      <3> QED
        BY <3>3, <3>4, <3>5
    <2> QED
      BY <2>2, <2>3
  <1>8. CASE a # i
    <2>1. ASSUME pos - at + 1 \in 1 .. nb PROVE FALSE
      <3> DEFINE k == pos - at + 1
      <3>1. k \in 1 .. nb /\ x + k \in 1 .. nt
        <4>1. k \in 1 .. nb
          BY <2>1
        <4> HIDE DEF k
        <4> QED
          BY <1>1, <4>1
      <3>2. a * nt + (o + 1) = i * nt + (x + k)
        <4> DEFINE u == a * nt
                   v == i * nt
        <4>1. pos = u + o /\ at = v + x /\ u \in Nat /\ v \in Nat /\ k = pos - at + 1
          BY <1>5
        <4> HIDE DEF u, v, pos, at, k
        <4>2. u + (o + 1) = v + (x + k)
          BY <1>5, <4>1
        <4> QED
          BY <4>2 DEF u, v
      <3> DEFINE j == o + 1
                 l == x + k
      <3>3. a \in Int /\ i \in Int /\ nt \in Nat /\ j \in 1 .. nt /\ l \in 1 .. nt /\ a * nt + j = i * nt + l
        BY <1>1, <1>5, <3>1, <3>2
      <3> HIDE DEF j, l
      <3>4. a = i
        BY <3>3, OneUnit
      <3> QED
        BY <1>8, <3>4
    <2>2. new[pos] = place[pos] /\ o < offset[a]
      <3>1. new[pos] = place[pos]
        BY <1>2, <1>6, <2>1
      <3> QED
        BY <1>8, <3>1
    <2> QED
      BY <1>4, <2>2
  <1> QED
    BY <1>7, <1>8

LEMMA FedData ==
  ASSUME ReaderKnowsBlocks, NEW words, NEW b, Fed(words, b), Frame, GotData(words)
  PROVE  Advanced(b)
  <1> DEFINE nb == InBlock(Store, b)
             x == b * BlockWords
             i == iAMC
  <1>1. /\ settings.rider_header \in BOOLEAN /\ b \in 0 .. Count - 1 /\ Stage(b) /\ Held
        /\ pcTcp = "data" /\ Has(b, nAMC + 1, iAMC) /\ words \in Seq(AnyWord)
    BY Zenon DEF Fed, GotData, Stage
  <1>2. Asked = nb /\ blockdatabytes = nb /\ Place(b) = DataAt(b) + i * nb /\ Len(words) = nb
        /\ DOMAIN words = 1 .. nb
    <2>1. Asked = InBlock(Store, b) /\ blockdatabytes = InBlock(Store, b)
      BY <1>1, AskedSize
    <2>2. Place(b) = DataAt(b) + i * nb
      BY <1>1 DEF Place
    <2>3. Len(words) = Asked
      BY DEF Fed
    <2> HIDE DEF nb
    <2>4. DOMAIN words = 1 .. Len(words)
      BY <1>1
    <2> QED
      BY <2>1, <2>2, <2>3, <2>4 DEF nb
  <1>3. /\ b \in Nat /\ nb \in Nat /\ x \in Nat /\ Store \in Nat \ {0} /\ x + nb <= Store
        /\ DataAt(b) \in Nat /\ DataAt(b) > 1
    <2>1. /\ b \in Nat /\ Store \in Nat \ {0} /\ x + nb <= Store /\ x \in Nat /\ nb \in 1 .. BlockWords
      BY <1>1, FillSizes, BlocksOfFill
    <2>2. Before(b) \in Nat \ {0} /\ DataAt(b) = Before(b) + 1 + nAMC
      BY <1>1, FillSizes, PlacesTyped
    <2>3. DataAt(b) \in Nat /\ DataAt(b) > 1
      BY <2>2, Sizes
    <2> HIDE DEF nb, x
    <2>4. nb \in Nat
      BY <2>1
    <2> QED
      BY <2>1, <2>3, <2>4
  <1>4. /\ i \in AMC /\ i \in Nat /\ i < nAMC /\ nWords = nAMC
        /\ nAMC + 1 > 1 /\ nAMC + 1 >= 1
    <2>1. nAMC + 1 > 1 /\ nAMC + 1 >= 1 /\ i \in AMC
      BY <1>1, Sizes DEF Held
    <2>2. i \in Nat /\ i < nAMC
      BY <2>1, Sizes DEF AMC
    <2> QED
      BY <1>1, <2>1, <2>2, Zenon DEF Has
  <1>5. /\ datablockoffset = [a \in AMC |-> x + (IF a < i THEN nb ELSE 0)]
        /\ dataAMCoffset = [a \in AMC |-> a * Store]
        /\ databytes = nAMC * x + i * nb
        /\ Found(tcp_buf, datablockoffset, settings.rider_header, Event)
    BY <1>1, <1>4, Zenon DEF Has
  <1>6. datablockoffset[i] = x /\ dataoffset = i * Store + x
    <2>1. datablockoffset[i] = x + 0 /\ dataAMCoffset[i] = i * Store
      BY <1>4, <1>5
    <2> HIDE DEF x
    <2>2. datablockoffset[i] = x
      BY <1>3, <2>1
    <2> QED
      BY <2>1, <2>2 DEF dataoffset
  <1>7. UNCHANGED <<settings, sent, EMULATORfillnumber, TCPfillnumber, header, nextHeader, nWords,
                    amc_header_info, dataAMCoffset, tail>>
        /\ Count' = Count /\ Store' = Store /\ Event' = Event
    BY Zenon DEF Frame, GotData, Count, Store, Event
  <1>8. \A k \in 1 .. nb : Wanted(words[k], settings.rider_header, Event, x + i * Store + k)
    <2> SUFFICES ASSUME NEW k \in 1 .. nb
                 PROVE  Wanted(words[k], settings.rider_header, Event, x + i * Store + k)
      OBVIOUS
    <2> DEFINE j == DataAt(b) + (i * nb + k)
               w == words[k]
    <2>1. Fits(w, settings.rider_header, Event, TCPfillnumber, (DataAt(b) + i * nb) + k)
      <3> HIDE DEF nb, x
      <3> QED
        BY <1>2, Zenon DEF Fed
    <2>2. (DataAt(b) + i * nb) + k = j /\ j > 1
      <3> DEFINE u == i * nb
      <3>1. u \in Nat
        <4> HIDE DEF nb
        <4> QED
          BY <1>3, <1>4
      <3>2. k \in Nat
        OBVIOUS
      <3> HIDE DEF u, nb
      <3>3. (DataAt(b) + u) + k = DataAt(b) + (u + k) /\ DataAt(b) + (u + k) > 1
        BY <1>3, <3>1, <3>2
      <3> QED
        BY <3>3 DEF u
    <2>3. Fits(w, settings.rider_header, Event, TCPfillnumber, j) /\ j > 1
      BY <2>1, <2>2
    <2>4. b \in 0 .. nBlocks(settings.rider_header) - 1
      BY <1>1 DEF Count
    <2>5. j = DataAt(b) + (i * InBlock(nt_words_store(settings.rider_header), b) + k)
      BY DEF Store
    <2> HIDE DEF j, w
    <2>6. \A a \in AMC, q \in 1 .. InBlock(nt_words_store(settings.rider_header), b) :
              j = DataAt(b) + (a * InBlock(nt_words_store(settings.rider_header), b) + q)
                => Wanted(w, settings.rider_header, Event,
                          b * BlockWords + a * nt_words_store(settings.rider_header) + q)
      BY <2>3, <2>4, WordInside
    <2>7. Wanted(w, settings.rider_header, Event, b * BlockWords + i * nt_words_store(settings.rider_header) + k)
      <3>1. k \in 1 .. InBlock(nt_words_store(settings.rider_header), b)
        BY DEF Store
      <3> QED
        BY <1>4, <2>5, <2>6, <3>1, Zenon
    <2> QED
      BY <2>7 DEF Store, w
  <1>9. datablockoffset' = [a \in AMC |-> x + (IF a < i + 1 THEN nb ELSE 0)]
    <2>1. datablockoffset' = [datablockoffset EXCEPT ![i] = @ + nb]
      BY <1>2, Zenon DEF GotData
    <2>2. \A a \in AMC : (a < i + 1) <=> (a < i \/ a = i)
      BY <1>4, Sizes DEF AMC
    <2> HIDE DEF nb, x
    <2>3. datablockoffset' = [a \in AMC |-> IF a = i THEN x + nb ELSE datablockoffset[a]]
      BY <1>4, <1>5, <1>6, <2>1
    <2>4. \A a \in AMC : datablockoffset[a] = x + (IF a < i THEN nb ELSE 0)
      BY <1>5
    <2>5. \A a \in AMC : (IF a = i THEN x + nb ELSE datablockoffset[a]) = x + (IF a < i + 1 THEN nb ELSE 0)
      <3> SUFFICES ASSUME NEW a \in AMC
                   PROVE  (IF a = i THEN x + nb ELSE datablockoffset[a]) = x + (IF a < i + 1 THEN nb ELSE 0)
        OBVIOUS
      <3>1. CASE a = i
        BY <2>2, <3>1
      <3>2. CASE a # i
        BY <2>2, <2>4, <3>2
      <3> QED
        BY <3>1, <3>2
    <2> QED
      BY <2>3, <2>5
  <1>10. Found(tcp_buf', datablockoffset', settings'.rider_header, Event')
    <2>1. tcp_buf' = [w \in DOMAIN tcp_buf |-> IF w - dataoffset + 1 \in DOMAIN words
                                             THEN words[w - dataoffset + 1] ELSE tcp_buf[w]]
      BY Zenon DEF GotData
    <2>2. dataoffset = i * nt_words_store(settings.rider_header) + x
      BY <1>6 DEF Store
    <2>3. DOMAIN tcp_buf = 0 .. nAMC * nt_words_store(settings.rider_header) - 1
      BY <1>1, Zenon DEF Held, Store
    <2>4. datablockoffset'[i] = x + nb /\ \A a \in AMC : a # i => datablockoffset'[a] = datablockoffset[a]
      <3>1. \A a \in AMC : (a < i + 1) <=> (a < i \/ a = i)
        BY <1>4, Sizes DEF AMC
      <3> HIDE DEF nb, x
      <3> QED
        BY <1>4, <1>5, <1>9, <3>1
    <2>5. x + nb <= nt_words_store(settings.rider_header)
      BY <1>3 DEF Store
    <2>6. \A k \in 1 .. nb : Wanted(words[k], settings.rider_header, Event,
                                    x + i * nt_words_store(settings.rider_header) + k)
      BY <1>8 DEF Store
    <2> DEFINE new == tcp_buf'
               later == datablockoffset'
               ev == Event
               rh == settings.rider_header
    <2>7. /\ new = [w \in DOMAIN tcp_buf |-> IF w - (i * nt_words_store(rh) + x) + 1 \in DOMAIN words
                                             THEN words[w - (i * nt_words_store(rh) + x) + 1] ELSE tcp_buf[w]]
          /\ later[i] = x + nb /\ \A a \in AMC : a # i => later[a] = datablockoffset[a]
          /\ x + nb <= nt_words_store(rh) /\ DOMAIN tcp_buf = 0 .. nAMC * nt_words_store(rh) - 1
          /\ \A k \in 1 .. nb : Wanted(words[k], rh, ev, x + i * nt_words_store(rh) + k)
          /\ Found(tcp_buf, datablockoffset, rh, ev) /\ rh \in BOOLEAN
      BY <1>1, <1>5, <2>1, <2>2, <2>3, <2>4, <2>5, <2>6, Zenon
    <2> HIDE DEF new, later, ev, rh, i, x, nb
    <2>8. Found(new, later, rh, ev)
      <3>1. i \in AMC /\ x \in Nat /\ nb \in Nat /\ DOMAIN words = 1 .. nb /\ datablockoffset[i] = x
        BY <1>2, <1>3, <1>4, <1>6
      <3> QED
        <4>1. Copied(new, later, tcp_buf, datablockoffset, words, rh, ev, i, x, nb)
          BY <2>7, <3>1, Zenon DEF Copied
        <4> QED
          BY <4>1, FoundGrows, Zenon
    <2> QED
      BY <1>7, <2>8, Zenon DEF new, later, rh, ev
  <1>11. databytes' = nAMC * x + (i + 1) * nb
    <2>1. databytes' = databytes + nb
      BY <1>2, Zenon DEF GotData
    <2>2. (i + 1) * nb = i * nb + nb /\ i * nb \in Nat
      <3> HIDE DEF nb
      <3> QED
        BY <1>3, <1>4
    <2>3. nAMC * x \in Nat
      <3> HIDE DEF x
      <3> QED
        BY <1>3, Sizes
    <2> DEFINE u == i * nb
               v == nAMC * x
    <2>4. databytes' = (v + u) + nb /\ u \in Nat /\ v \in Nat /\ (i + 1) * nb = u + nb
      BY <1>5, <2>1, <2>2, <2>3
    <2> HIDE DEF u, v, nb, x
    <2>5. databytes' = v + (u + nb)
      BY <1>3, <2>4
    <2> QED
      BY <2>4, <2>5 DEF v
  <1>12. /\ HeadsGood(header', settings'.rider_header, TCPfillnumber', b, nAMC + 1)
         /\ TCPfillnumber' < EMULATORfillnumber' /\ nextHeader' = b * (nAMC + 2) + (nAMC + 1) + 1
         /\ dataAMCoffset' = [a \in AMC |-> a * Store']
         /\ nWords' = nAMC
         /\ amc_header_info' = [a \in AMC |-> AMCWord(Store', b, a)]
    BY <1>1, <1>4, <1>7, Zenon DEF Has
  <1>13. (i + 1) * nb = i * nb + nb
    <2> HIDE DEF nb
    <2> QED
      BY <1>3, <1>4
  <1>14. DOMAIN tcp_buf' = DOMAIN tcp_buf
    <2>1. tcp_buf' = [w \in DOMAIN tcp_buf |-> IF w - dataoffset + 1 \in DOMAIN words
                                             THEN words[w - dataoffset + 1] ELSE tcp_buf[w]]
      BY Zenon DEF GotData
    <2> QED
      BY <2>1
  <1>15. i * nb \in Nat
    <2> HIDE DEF nb
    <2> QED
      BY <1>3, <1>4
  <1>16. CASE i + 1 < nAMC
    <2>1. pcTcp' = "data" /\ iAMC' = i + 1
      BY <1>4, <1>16, Zenon DEF GotData
    <2>2. i + 1 \in AMC
      BY <1>4, <1>16, Sizes DEF AMC
    <2>3. Held'
      BY <1>1, <1>7, <1>14, <2>1, <2>2, Zenon DEF Held
    <2>4. Has(b, nAMC + 1, iAMC)'
      BY <1>7, <1>9, <1>10, <1>11, <1>12, <2>1, Zenon DEF Has
    <2>5. Stage(b)'
      BY <2>1, <2>3, <2>4 DEF Stage
    <2>6. Place(b)' = DataAt(b) + (i + 1) * nb
      BY <1>7, <2>1 DEF Place
    <2> DEFINE u == i * nb
    <2>7. Place(b)' = DataAt(b) + (u + nb) /\ Place(b) = DataAt(b) + u /\ Asked = nb /\ u \in Nat
      BY <1>2, <1>13, <1>15, <2>6
    <2> HIDE DEF u, nb
    <2>8. Place(b)' = Place(b) + Asked
      BY <1>3, <2>7
    <2> QED
      BY <1>1, <2>5, <2>8 DEF Advanced
  <1>17. CASE ~ (i + 1 < nAMC)
    <2>1. pcTcp' = "blocktail" /\ iAMC' = i
      BY <1>4, <1>17, Zenon DEF GotData
    <2>2. i + 1 = nAMC
      BY <1>4, <1>17, Sizes
    <2>3. Held'
      BY <1>1, <1>4, <1>7, <1>14, <2>1, Zenon DEF Held
    <2>4. Has(b, nAMC + 1, nAMC)'
      BY <1>7, <1>9, <1>10, <1>11, <1>12, <2>2, Zenon DEF Has
    <2>5. Stage(b)'
      BY <2>1, <2>3, <2>4 DEF Stage
    <2>6. Place(b)' = DataAt(b) + nAMC * nb
      BY <1>7, <2>1 DEF Place
    <2> DEFINE u == i * nb
    <2>7. Place(b)' = DataAt(b) + (u + nb) /\ Place(b) = DataAt(b) + u /\ Asked = nb /\ u \in Nat
      BY <1>2, <1>13, <1>15, <2>2, <2>6
    <2> HIDE DEF u, nb
    <2>8. Place(b)' = Place(b) + Asked
      BY <1>3, <2>7
    <2> QED
      BY <1>1, <2>5, <2>8 DEF Advanced
  <1> QED
    BY <1>16, <1>17

LEMMA FedBlockTail ==
  ASSUME ReaderKnowsBlocks, NEW words, NEW b, Fed(words, b), Frame, GotBlockTail(words)
  PROVE  Advanced(b)
  <1> DEFINE nb == InBlock(Store, b)
             x == b * BlockWords
             y == nAMC * nb
             r == nAMC + 1
  <1>1. /\ settings.rider_header \in BOOLEAN /\ b \in 0 .. Count - 1 /\ Stage(b) /\ Held
        /\ pcTcp = "blocktail" /\ Has(b, r, nAMC) /\ words \in Seq(AnyWord)
    BY Zenon DEF Fed, GotBlockTail, Stage
  <1>2. Asked = 1 /\ Place(b) = DataAt(b) + y /\ Len(words) = 1
    BY <1>1, AskedSize DEF Fed, Place
  <1>3. /\ b \in Nat /\ Count \in Nat /\ Store \in Nat \ {0} /\ x \in Nat /\ x < Store
        /\ nb \in 1 .. BlockWords /\ x + nb <= Store
        /\ b < Count - 1 => nb = BlockWords
        /\ b = Count - 1 => nb = Store - x
        /\ DataAt(b) \in Nat /\ DataAt(b) > 1 /\ y \in Nat
        /\ TailAt(Store, b) = DataAt(b) + y + 1
        /\ b < Count - 1 => Before(b + 1) = TailAt(Store, b)
        /\ b = Count - 1 => Fill = TailAt(Store, b) + 1
    <2>1. /\ b \in Nat /\ Count \in Nat /\ Store \in Nat \ {0} /\ x \in Nat /\ x < Store
          /\ nb \in 1 .. BlockWords /\ x + nb <= Store
          /\ b < Count - 1 => nb = BlockWords
          /\ b = Count - 1 => x + nb = Store
          /\ Before(b) \in Nat \ {0} /\ DataAt(b) = Before(b) + 1 + nAMC /\ y \in Nat
          /\ TailAt(Store, b) = DataAt(b) + y + 1
          /\ b < Count - 1 => Before(b + 1) = TailAt(Store, b)
          /\ b = Count - 1 => Fill = TailAt(Store, b) + 1
      BY <1>1, BlockOfStore, Zenon
    <2> HIDE DEF nb, x, y
    <2>2. DataAt(b) \in Nat /\ DataAt(b) > 1
      BY <2>1, Sizes
    <2>3. b = Count - 1 => nb = Store - x
      BY <2>1, Sizes
    <2> QED
      BY <2>1, <2>2, <2>3, Zenon
  <1>4. words[1].kind = "blocktail"
    <2> DEFINE j == TailAt(Store, b)
               w == words[1]
    <2>1. Fits(w, settings.rider_header, Event, TCPfillnumber, Place(b) + 1) /\ Place(b) + 1 = j /\ j > 1
      <3>1. Fits(w, settings.rider_header, Event, TCPfillnumber, Place(b) + 1)
        BY <1>2 DEF Fed
      <3> HIDE DEF y, nb, x
      <3>2. Place(b) + 1 = j /\ j > 1
        BY <1>2, <1>3
      <3> QED
        BY <3>1, <3>2
    <2>2. b \in 0 .. nBlocks(settings.rider_header) - 1 /\ j = TailAt(nt_words_store(settings.rider_header), b)
      BY <1>1 DEF Count, Store
    <2> HIDE DEF j, w
    <2>3. w.kind = "blocktail"
      BY <2>1, <2>2, WordInside
    <2> QED
      BY <2>3 DEF w
  <1>5. /\ UNCHANGED <<settings, sent, EMULATORfillnumber, TCPfillnumber, nWords, amc_header_info, iAMC,
                       dataAMCoffset, datablockoffset, databytes, tcp_buf, tail>>
        /\ Count' = Count /\ Store' = Store /\ Event' = Event /\ Fill' = Fill
    BY Zenon DEF Frame, GotBlockTail, Count, Store, Event, Fill
  <1>6. ToHeader(words) /\ nextHeader' = nextHeader + 1 /\ pcTcp' = IF Info.M THEN "AMC13" ELSE "tail"
    BY DEF GotBlockTail
  <1>7. /\ TCPfillnumber < EMULATORfillnumber
        /\ HeadsGood(header, settings.rider_header, TCPfillnumber, b, r)
        /\ nextHeader = b * (nAMC + 2) + r + 1
        /\ dataAMCoffset = [a \in AMC |-> a * Store]
        /\ datablockoffset = [a \in AMC |-> x + (IF a < nAMC THEN nb ELSE 0)]
        /\ databytes = nAMC * x + nAMC * nb
        /\ Found(tcp_buf, datablockoffset, settings.rider_header, Event)
        /\ nWords = nAMC /\ amc_header_info = [a \in AMC |-> AMCWord(Store, b, a)]
    <2>1. r > 1 /\ r >= 1
      BY Sizes
    <2> QED
      BY <1>1, <2>1, Zenon DEF Has
  <1>8. /\ header' \in [0 .. Count * (nAMC + 2) -> AnyWord]
        /\ HeadsGood(header', settings.rider_header, TCPfillnumber, b, nAMC + 2)
    <2>1. \A k \in 1 .. Len(words) : HeadWord(words[k], settings.rider_header, b, r + k)
      <3>1. \A k \in 1 .. 1 : k = 1
        OBVIOUS
      <3>2. r + 1 = nAMC + 2 /\ nAMC + 2 # 1 /\ \A i \in AMC : nAMC + 2 # 1 + (i + 1)
        BY Sizes DEF AMC
      <3>3. HeadWord(words[1], settings.rider_header, b, nAMC + 2)
        BY <1>4, <3>2, Zenon DEF HeadWord
      <3> QED
        BY <1>2, <3>1, <3>2, <3>3
    <2>2. r + Len(words) <= nAMC + 2 /\ r \in Nat /\ r + Len(words) = nAMC + 2
      BY <1>2, Sizes
    <2>3. /\ header' \in [0 .. Count * (nAMC + 2) -> AnyWord]
          /\ HeadsGood(header', settings.rider_header, TCPfillnumber, b, r + Len(words))
      BY <1>1, <1>6, <1>7, <2>1, <2>2, HeaderGrows, Zenon
    <2> QED
      BY <2>2, <2>3
  <1>9. pcTcp' \in {"AMC13", "tail"} /\ Held'
    <2>1. pcTcp' \in {"AMC13", "tail"}
      BY <1>6
    <2>2. pcTcp' \in {"CDF", "AMC13", "AMCs", "data", "blocktail", "tail", "publish"}
      BY <2>1
    <2> QED
      BY <1>1, <1>5, <1>8, <2>1, <2>2, Zenon DEF Held
  <1>10. Info.M <=> b < Count - 1
    <2>1. 0 \in AMC
      BY Sizes DEF AMC
    <2>2. Info.M <=> nb < Store - x
      BY <1>7, <2>1, Zenon DEF Info, AMCWord, Word
    <2>3. b < Count - 1 => (b + 1) * BlockWords < Store /\ (b + 1) * BlockWords = x + BlockWords
      <3> SUFFICES ASSUME b < Count - 1
                   PROVE  (b + 1) * BlockWords < Store /\ (b + 1) * BlockWords = x + BlockWords
        OBVIOUS
      <3>1. b + 1 \in 0 .. Count - 1
        BY <1>3
      <3>2. (b + 1) * BlockWords < Store
        BY <1>1, <3>1, FillSizes, BlocksOfFill
      <3>3. (b + 1) * BlockWords = x + BlockWords
        BY <1>3, Sizes
      <3> QED
        BY <3>2, <3>3
    <2> DEFINE z == (b + 1) * BlockWords
    <2>4. b < Count - 1 => z < Store /\ z = x + BlockWords
      BY <2>3
    <2> HIDE DEF x, nb, z
    <2>5. nb < Store - x <=> b < Count - 1
      <3>1. CASE b < Count - 1
        BY <1>3, <2>4, <3>1, Sizes
      <3>2. CASE ~ (b < Count - 1)
        <4>1. b = Count - 1
          BY <1>1, <1>3, <3>2
        <4> QED
          BY <1>3, <3>2, <4>1
      <3> QED
        BY <3>1, <3>2
    <2> QED
      BY <2>2, <2>5
  <1>11. CASE b < Count - 1
    <2>1. pcTcp' = "AMC13" /\ b + 1 \in 0 .. Count - 1 /\ nb = BlockWords /\ Before(b + 1) = TailAt(Store, b)
      BY <1>3, <1>6, <1>10, <1>11
    <2>2. HeadsGood(header', settings'.rider_header, TCPfillnumber', b + 1, 0)
      <3>1. \A d \in 0 .. Count - 1, q \in 1 .. nAMC + 2 :
              d < b + 1 \/ (d = b + 1 /\ q <= 0) => d < b \/ (d = b /\ q <= nAMC + 2)
        BY <1>3, Sizes
      <3> QED
        BY <1>5, <1>8, <3>1, Zenon DEF HeadsGood, Count
    <2>3. nextHeader' = (b + 1) * (nAMC + 2) + 0 + 1
      <3> DEFINE u == b * (nAMC + 2)
      <3>1. (b + 1) * (nAMC + 2) = u + (nAMC + 2) /\ u \in Nat
        BY <1>3, Sizes
      <3>2. nextHeader' = (u + r + 1) + 1
        BY <1>6, <1>7
      <3> HIDE DEF u
      <3>3. (u + r + 1) + 1 = (u + (nAMC + 2)) + 0 + 1
        BY <3>1, Sizes
      <3> QED
        BY <3>1, <3>2, <3>3
    <2>4. (b + 1) * BlockWords = x + nb
      <3>1. (b + 1) * BlockWords = b * BlockWords + BlockWords
        BY <1>3, Sizes
      <3> QED
        BY <2>1, <3>1
    <2>5. datablockoffset' = [a \in AMC |-> (b + 1) * BlockWords + (IF a < 0 THEN InBlock(Store, b + 1) ELSE 0)]
      <3> DEFINE z == (b + 1) * BlockWords
      <3>1. z = x + nb /\ z \in Nat
        <4>1. z = x + nb
          BY <2>4
        <4> HIDE DEF z, x, nb
        <4> QED
          BY <1>3, <4>1
      <3> HIDE DEF z, x, nb
      <3>2. \A a \in AMC : a < nAMC /\ ~ (a < 0)
        BY Sizes DEF AMC
      <3>3. datablockoffset' = [a \in AMC |-> z]
        BY <1>5, <1>7, <3>1, <3>2
      <3>4. \A a \in AMC : z + (IF a < 0 THEN InBlock(Store, b + 1) ELSE 0) = z
        BY <3>1, <3>2
      <3>5. datablockoffset' = [a \in AMC |-> z + (IF a < 0 THEN InBlock(Store, b + 1) ELSE 0)]
        BY <3>3, <3>4
      <3> QED
        BY <3>5 DEF z
    <2>6. databytes' = nAMC * ((b + 1) * BlockWords) + 0 * InBlock(Store, b + 1)
      <3> DEFINE z == (b + 1) * BlockWords
                 n == InBlock(Store, b + 1)
      <3>1. z = x + nb
        BY <2>4
      <3>2. n \in Int
        <4>1. n \in 1 .. BlockWords
          BY <1>1, <2>1, FillSizes, BlocksOfFill
        <4> HIDE DEF n
        <4> QED
          BY <4>1
      <3> HIDE DEF n, z, nb, x
      <3>3. nAMC * z = nAMC * x + nAMC * nb /\ 0 * n = 0 /\ nAMC * z \in Nat
        BY <1>3, <3>1, <3>2, Sizes
      <3> DEFINE u == nAMC * z
      <3>4. databytes' = u /\ u \in Nat /\ 0 * n = 0
        BY <1>5, <1>7, <3>3
      <3> HIDE DEF u
      <3>5. databytes' = u + 0 * n
        BY <3>4
      <3> QED
        BY <3>5 DEF u, z, n
    <2>7. Found(tcp_buf', datablockoffset', settings'.rider_header, Event')
      BY <1>5, <1>7, Zenon
    <2>8. Has(b + 1, 0, 0)'
      <3>1. ~ (0 >= 1) /\ ~ (0 > 1)
        OBVIOUS
      <3> QED
        BY <1>5, <1>7, <2>2, <2>3, <2>5, <2>6, <2>7, <3>1, Zenon DEF Has
    <2>9. Stage(b + 1)'
      BY <1>9, <2>1, <2>8 DEF Stage
    <2>10. Place(b + 1)' = Before(b + 1)
      BY <2>1 DEF Place
    <2> HIDE DEF y, nb, x
    <2>11. Place(b + 1)' = Place(b) + Asked
      BY <1>2, <1>3, <2>1, <2>10
    <2> QED
      BY <2>1, <2>9, <2>11, <1>5 DEF Advanced
  <1>12. CASE ~ (b < Count - 1)
    <2>1. b = Count - 1 /\ pcTcp' = "tail"
      BY <1>1, <1>3, <1>6, <1>10, <1>12
    <2>2. nextHeader' = b * (nAMC + 2) + (nAMC + 2) + 1
      <3> DEFINE u == b * (nAMC + 2)
      <3>1. u \in Nat
        BY <1>3, Sizes
      <3>2. nextHeader' = (u + r + 1) + 1
        BY <1>6, <1>7
      <3> HIDE DEF u
      <3>3. (u + r + 1) + 1 = u + (nAMC + 2) + 1
        BY <3>1, Sizes
      <3> QED
        BY <3>2, <3>3 DEF u
    <2>3. Has(b, nAMC + 2, nAMC)'
      BY <1>5, <1>7, <1>8, <2>2, Zenon DEF Has
    <2>4. Has(Count - 1, nAMC + 2, nAMC)' /\ b = Count' - 1
      <3>1. b = Count' - 1
        BY <1>5, <2>1
      <3> QED
        BY <2>3, <3>1, Zenon
    <2>5. Stage(b)'
      BY <1>9, <2>1, <2>3, <2>4 DEF Stage
    <2>6. Place(b)' = Fill - 1
      BY <1>5, <2>1 DEF Place
    <2> HIDE DEF y, nb, x
    <2>7. Place(b)' = Place(b) + Asked
      BY <1>2, <1>3, <2>1, <2>6
    <2> QED
      BY <1>1, <1>5, <2>5, <2>7 DEF Advanced
  <1> QED
    BY <1>11, <1>12

LEMMA FedTail ==
  ASSUME ReaderKnowsBlocks, NEW words, NEW b, Fed(words, b), Frame, GotTail(words)
  PROVE  Advanced(b)
  <1>1. /\ settings.rider_header \in BOOLEAN /\ b \in 0 .. Count - 1 /\ Stage(b) /\ Held
        /\ pcTcp = "tail" /\ pcTcp' = "publish" /\ words \in Seq(AnyWord)
    BY Zenon DEF Fed, GotTail, Stage
  <1>2. b = Count - 1 /\ Has(Count - 1, nAMC + 2, nAMC)
    BY <1>1 DEF Stage
  <1>3. Asked = 1 /\ Place(b) = Fill - 1 /\ Len(words) = 1
    BY <1>1, AskedSize DEF Fed, Place
  <1>4. Fill \in Nat /\ Fill > 1
    <2>1. /\ Before(b) \in Nat \ {0} /\ DataAt(b) = Before(b) + 1 + nAMC /\ nAMC * InBlock(Store, b) \in Nat
          /\ TailAt(Store, b) = DataAt(b) + nAMC * InBlock(Store, b) + 1 /\ Fill = TailAt(Store, b) + 1
      BY <1>1, <1>2, FillSizes, PlacesTyped DEF Fill
    <2> DEFINE y == nAMC * InBlock(Store, b)
    <2>2. y \in Nat /\ Fill = DataAt(b) + y + 2
      BY <2>1, Sizes
    <2> HIDE DEF y
    <2> QED
      BY <2>1, <2>2, Sizes
  <1>5. words[1].kind = "CDFtrailer" /\ words[1] \in AnyWord
    <2> DEFINE w == words[1]
               j == Fill
    <2>1. Fits(w, settings.rider_header, Event, TCPfillnumber, j) /\ j > 1
      <3>1. Fits(w, settings.rider_header, Event, TCPfillnumber, (Fill - 1) + 1)
        BY <1>3 DEF Fed
      <3> QED
        BY <1>4, <3>1
    <2>2. b \in 0 .. nBlocks(settings.rider_header) - 1
          /\ j = FillLen(nt_words_store(settings.rider_header), nBlocks(settings.rider_header))
      BY <1>1 DEF Count, Store, Fill
    <2> HIDE DEF j, w
    <2>3. w.kind = "CDFtrailer" /\ w \in AnyWord
      BY <2>1, <2>2, WordInside
    <2> QED
      BY <2>3 DEF w
  <1>6. /\ UNCHANGED <<settings, sent, EMULATORfillnumber, TCPfillnumber, header, nextHeader, nWords,
                       amc_header_info, iAMC, dataAMCoffset, datablockoffset, databytes, tcp_buf>>
        /\ Count' = Count /\ Store' = Store /\ Event' = Event /\ Fill' = Fill /\ tail' = words[1]
    BY Zenon DEF Frame, GotTail, Count, Store, Event, Fill
  <1>7. Held'
    BY <1>1, <1>5, <1>6, Zenon DEF Held
  <1>8. Has(Count - 1, nAMC + 2, nAMC)' /\ b = Count' - 1
    <2>1. Has(b, nAMC + 2, nAMC) /\ b = Count' - 1
      BY <1>2, <1>6
    <2>2. Has(b, nAMC + 2, nAMC)'
      BY <1>6, <2>1, Zenon DEF Has
    <2> QED
      BY <2>1, <2>2, Zenon
  <1>9. Stage(b)'
    BY <1>1, <1>2, <1>5, <1>6, <1>7, <1>8 DEF Stage
  <1>10. Place(b)' = Place(b) + Asked
    <2>1. Place(b)' = Fill
      BY <1>1, <1>6 DEF Place
    <2> QED
      BY <1>3, <1>4, <2>1
  <1> QED
    BY <1>1, <1>6, <1>9, <1>10 DEF Advanced

(* A read that is complete brings the reader on.                            *)
LEMMA FedOn ==
  ASSUME ReaderKnowsBlocks, NEW words, NEW b, Fed(words, b), Frame, readAndUnpack(words)
  PROVE  Advanced(b)
  <1>1. GotCDF(words) \/ GotAMC13(words) \/ GotAMCs(words)
        \/ GotData(words) \/ GotBlockTail(words) \/ GotTail(words)
    BY Zenon DEF readAndUnpack
  <1> QED
    BY <1>1, FedCDF, FedAMC13, FedAMCs, FedData, FedBlockTail, FedTail, Zenon

-----------------------------------------------------------------------------
(* The reader is in step with the fills in the stream, or the connection is *)
(* lost and it gets no more.                                                *)
Stream(cut) ==
  /\ buf \in Seq(AnyWord) /\ wire \in Seq(AnyWord) /\ TCPfillnumber \in Nat
  /\ Carries(buf \o wire, cut, TCPfillnumber, EMULATORfillnumber, Fill, link = "up",
             settings.rider_header, sent)

Lost ==
  /\ link = "closed" /\ wire = <<>> /\ buf = <<>> /\ Asked \in Int /\ TCPfillnumber \in Nat
  /\ pcTcp \in {"CDF", "AMC13", "AMCs", "data", "blocktail", "tail", "publish"}
  /\ pcTcp = "publish" => Has(Count - 1, nAMC + 2, nAMC) /\ DOMAIN header = 0 .. Count * (nAMC + 2)

InStep == \E b \in 0 .. Count - 1 : Stage(b) /\ Stream(Place(b))

Reader ==
  /\ link \in {"up", "closed", "reset"}
  /\ buf = <<>> \/ Len(buf) < Asked
  /\ Lost \/ InStep

LEMMA HasKept ==
  ASSUME NEW b, NEW r, NEW i, Has(b, r, i), UNCHANGED <<settings, unpackVars, TCPfillnumber>>,
         TCPfillnumber \in Nat, EMULATORfillnumber \in Nat, EMULATORfillnumber' \in Nat,
         EMULATORfillnumber <= EMULATORfillnumber',
         \A m \in 1 .. EMULATORfillnumber : sent'[m] = sent[m]
  PROVE  Has(b, r, i)'
  <1>1. TCPfillnumber < EMULATORfillnumber
    BY Zenon DEF Has
  <1>2. TCPfillnumber + 1 \in 1 .. EMULATORfillnumber /\ TCPfillnumber < EMULATORfillnumber'
    BY <1>1
  <1>3. Event' = Event
    BY <1>2 DEF Event
  <1>4. Count' = Count /\ Store' = Store
    BY DEF Count, Store
  <1>5. UNCHANGED <<settings, header, nextHeader, nWords, amc_header_info, iAMC, dataAMCoffset,
                    datablockoffset, databytes, tcp_buf, tail, TCPfillnumber>>
    BY Zenon DEF unpackVars
  <1> QED
    BY <1>2, <1>3, <1>4, <1>5, Zenon DEF Has

LEMMA StageKept ==
  ASSUME NEW b, Stage(b), UNCHANGED <<settings, pcTcp, unpackVars, TCPfillnumber>>,
         TCPfillnumber \in Nat, EMULATORfillnumber \in Nat, EMULATORfillnumber' \in Nat,
         EMULATORfillnumber <= EMULATORfillnumber',
         \A m \in 1 .. EMULATORfillnumber : sent'[m] = sent[m]
  PROVE  Stage(b)' /\ Place(b)' = Place(b) /\ Asked' = Asked /\ Fill' = Fill /\ Count' = Count
  <1>1. UNCHANGED <<settings, pcTcp, header, nextHeader, nWords, amc_header_info, iAMC, dataAMCoffset,
                    datablockoffset, databytes, tcp_buf, tail, TCPfillnumber>>
    BY Zenon DEF unpackVars
  <1>2. Count' = Count /\ Store' = Store /\ Fill' = Fill
    BY <1>1 DEF Count, Store, Fill
  <1>3. Place(b)' = Place(b)
    BY <1>1, <1>2 DEF Place
  <1>4. Asked' = Asked
    BY <1>1 DEF Asked, blockdatabytes, Info
  <1>5. Held'
    BY <1>1, <1>2, Zenon DEF Stage, Held
  <1>6. /\ pcTcp = "AMC13" => Has(b, 0, 0)'
        /\ pcTcp = "AMCs" => Has(b, 1, 0)'
        /\ pcTcp = "data" => Has(b, nAMC + 1, iAMC)'
        /\ pcTcp = "blocktail" => Has(b, nAMC + 1, nAMC)'
        /\ pcTcp \in {"tail", "publish"} => b = Count - 1 /\ Has(b, nAMC + 2, nAMC)'
        /\ pcTcp = "publish" => tail.kind = "CDFtrailer"
    <2>2. CASE pcTcp = "AMC13"
      <3>1. Has(b, 0, 0)
        BY <2>2, Zenon DEF Stage
      <3>2. Has(b, 0, 0)'
        BY <3>1, HasKept
      <3> QED
        BY <2>2, <3>2
    <2>3. CASE pcTcp = "AMCs"
      <3>1. Has(b, 1, 0)
        BY <2>3, Zenon DEF Stage
      <3>2. Has(b, 1, 0)'
        BY <3>1, HasKept
      <3> QED
        BY <2>3, <3>2
    <2>4. CASE pcTcp = "data"
      <3>1. Has(b, nAMC + 1, iAMC)
        BY <2>4, Zenon DEF Stage
      <3>2. Has(b, nAMC + 1, iAMC)'
        BY <1>1, <3>1, HasKept
      <3> QED
        BY <2>4, <3>2
    <2>5. CASE pcTcp = "blocktail"
      <3>1. Has(b, nAMC + 1, nAMC)
        BY <2>5, Zenon DEF Stage
      <3>2. Has(b, nAMC + 1, nAMC)'
        BY <3>1, HasKept
      <3> QED
        BY <2>5, <3>2
    <2>6. CASE pcTcp \in {"tail", "publish"}
      <3>1. b = Count - 1 /\ Has(b, nAMC + 2, nAMC) /\ (pcTcp = "publish" => tail.kind = "CDFtrailer")
        BY <2>6, Zenon DEF Stage
      <3>2. Has(b, nAMC + 2, nAMC)'
        BY <3>1, HasKept
      <3> QED
        BY <2>6, <3>1, <3>2
    <2>7. CASE pcTcp = "CDF"
      BY <2>7
    <2> QED
      BY <2>2, <2>3, <2>4, <2>5, <2>6, <2>7 DEF Stage, Held
  <1>7. Stage(b)'
    BY <1>1, <1>2, <1>5, <1>6, Zenon DEF Stage
  <1> QED
    BY <1>2, <1>3, <1>4, <1>7

(* Events that are added, and steps of the other threads.                   *)
LEMMA ReaderKept ==
  ASSUME ReaderKnowsBlocks, settings.rider_header \in BOOLEAN, Reader,
         UNCHANGED <<settings, link, wire, tcpVars, EMULATORfillnumber>>,
         EMULATORfillnumber \in Nat, \A m \in 1 .. EMULATORfillnumber : sent'[m] = sent[m]
  PROVE  Reader'
  <1>1. UNCHANGED <<settings, pcTcp, unpackVars, TCPfillnumber, buf, link, wire, EMULATORfillnumber>>
    BY Zenon DEF tcpVars
  <1>2. EMULATORfillnumber' \in Nat /\ EMULATORfillnumber <= EMULATORfillnumber'
    BY <1>1
  <1>3. CASE Lost
    <2>1. Asked' = Asked
      BY <1>1 DEF Asked, blockdatabytes, Info, unpackVars
    <2>2. pcTcp = "publish" => Has(Count - 1, nAMC + 2, nAMC)'
      <3> SUFFICES ASSUME pcTcp = "publish" PROVE Has(Count - 1, nAMC + 2, nAMC)'
        OBVIOUS
      <3> DEFINE b == Count - 1
      <3>1. Has(b, nAMC + 2, nAMC) /\ TCPfillnumber \in Nat
        BY <1>3, Zenon DEF Lost
      <3>2. b' = b
        BY <1>1 DEF Count
      <3>3. \A d : d = b => Has(d, nAMC + 2, nAMC)'
        <4> SUFFICES ASSUME NEW d, d = b PROVE Has(d, nAMC + 2, nAMC)'
          OBVIOUS
        <4>1. Has(d, nAMC + 2, nAMC)
          BY <3>1
        <4> QED
          BY <1>1, <1>2, <3>1, <4>1, HasKept, Zenon
      <3> QED
        BY <3>2, <3>3, Zenon
    <2>4. DOMAIN header = 0 .. Count * (nAMC + 2) => (DOMAIN header = 0 .. Count * (nAMC + 2))'
      BY <1>1, Zenon DEF unpackVars, Count
    <2>3. Lost'
      BY <1>1, <1>3, <2>1, <2>2, <2>4, Zenon DEF Lost
    <2> QED
      BY <1>1, <2>1, <2>3, Zenon DEF Reader
  <1>4. CASE InStep
    <2>1. PICK b \in 0 .. Count - 1 : Stage(b) /\ Stream(Place(b))
      BY <1>4 DEF InStep
    <2>2. TCPfillnumber \in Nat
      BY <2>1 DEF Stream
    <2>3. Stage(b)' /\ Place(b)' = Place(b) /\ Asked' = Asked /\ Fill' = Fill /\ Count' = Count
      BY <1>1, <1>2, <2>1, <2>2, StageKept, Zenon
    <2>4. Stream(Place(b))'
      <3> DEFINE S == buf \o wire
                 whole == (link = "up")
                 cut == Place(b)
      <3>1. Carries(S, cut, TCPfillnumber, EMULATORfillnumber, Fill, whole, settings.rider_header, sent)
            /\ S \in Seq(AnyWord) /\ buf \in Seq(AnyWord) /\ wire \in Seq(AnyWord)
        BY <2>1 DEF Stream
      <3>2. cut \in Nat /\ Fill \in Nat
        BY <2>1, AskedSize, FillSizes
      <3>3. whole \in BOOLEAN /\ Len(S) \in Nat
        BY <3>1
      <3> HIDE DEF S, cut
      <3>4. PartOf(S, S, whole, whole) /\ SameEvents(sent', sent, EMULATORfillnumber)
        <4> HIDE DEF whole
        <4> QED
          BY <3>1, <3>3 DEF PartOf, SameEvents
      <3> HIDE DEF whole
      <3>5. Carries(S, cut, TCPfillnumber, EMULATORfillnumber, Fill, whole, settings.rider_header, sent')
        BY <2>2, <3>1, <3>2, <3>3, <3>4, PartOfIt, ZenonT(60)
      <3> QED
        BY <1>1, <2>2, <2>3, <3>1, <3>5, Zenon DEF Stream, S, whole, cut
    <2>5. InStep'
      BY <2>1, <2>3, <2>4 DEF InStep
    <2> QED
      BY <1>1, <2>3, <2>5, Zenon DEF Reader
  <1> QED
    BY <1>3, <1>4 DEF Reader

(* A read of the socket takes words from the front of what is on the way.   *)
Parted(words, rest, s, t, k) ==
  /\ words \in Seq(AnyWord) /\ rest \in Seq(AnyWord)
  /\ Len(words) = Len(s) + k /\ Len(s) + Len(t) = Len(words) + Len(rest)
  /\ \A p \in 1 .. Len(words) : words[p] = (s \o t)[p]
  /\ \A p \in 1 .. Len(rest) : rest[p] = (s \o t)[Len(words) + p]

LEMMA LenInt == ASSUME NEW s \in Seq(AnyWord) PROVE Len(s) \in Int
  OBVIOUS

LEMMA PartedWords ==
  ASSUME NEW s \in Seq(AnyWord), NEW t \in Seq(AnyWord), NEW k \in 1 .. Len(t)
  PROVE  Parted(s \o SubSeq(t, 1, k), SubSeq(t, k + 1, Len(t)), s, t, k)
  <1> DEFINE front == SubSeq(t, 1, k)
             rest == SubSeq(t, k + 1, Len(t))
             words == s \o front
             both == s \o t
  <1>1. k \in Nat /\ Len(s) \in Nat /\ Len(t) \in Nat /\ k <= Len(t) /\ k >= 1
    OBVIOUS
  <1>2. /\ front \in Seq(AnyWord) /\ Len(front) = k /\ \A p \in 1 .. k : front[p] = t[p]
    BY <1>1
  <1>3. /\ rest \in Seq(AnyWord) /\ Len(rest) = Len(t) - k /\ \A p \in 1 .. Len(rest) : rest[p] = t[k + p]
    <2>1. \A i \in k + 1 .. Len(t) : t[i] \in AnyWord
      BY <1>1
    <2>2. /\ rest \in Seq(AnyWord) /\ Len(rest) = IF k + 1 <= Len(t) THEN ((Len(t) - (k + 1)) + 1) ELSE 0
          /\ \A i \in 1 .. ((Len(t) - (k + 1)) + 1) : rest[i] = t[((k + 1) + i) - 1]
      BY <1>1, <2>1, SubSeqProperties
    <2>3. Len(rest) = Len(t) - k
      BY <1>1, <2>2
    <2>4. ASSUME NEW p \in 1 .. Len(rest) PROVE rest[p] = t[k + p]
      <3> HIDE DEF rest
      <3>1. p \in 1 .. ((Len(t) - (k + 1)) + 1) /\ ((k + 1) + p) - 1 = k + p
        BY <1>1, <2>3
      <3>2. rest[p] = t[((k + 1) + p) - 1]
        BY <2>2, <3>1
      <3> QED
        BY <3>1, <3>2
    <2> QED
      BY <2>2, <2>3, <2>4
  <1> HIDE DEF front, rest
  <1>4. Joined(words, s, front) /\ Joined(both, s, t)
    BY <1>2, JoinedWords
  <1> HIDE DEF words, both
  <1>5. /\ words \in Seq(AnyWord) /\ Len(words) = Len(s) + k
        /\ \A p \in 1 .. Len(s) : words[p] = s[p]
        /\ \A p \in 1 .. k : words[Len(s) + p] = front[p]
        /\ \A p \in 1 .. Len(s) : both[p] = s[p]
        /\ \A p \in 1 .. Len(t) : both[Len(s) + p] = t[p]
    BY <1>2, <1>4 DEF Joined
  <1>6. ASSUME NEW p \in 1 .. Len(words) PROVE words[p] = both[p]
    <2>1. CASE p <= Len(s)
      BY <1>1, <1>5, <2>1
    <2>2. CASE ~ (p <= Len(s))
      <3>1. p - Len(s) \in 1 .. k /\ p - Len(s) \in 1 .. Len(t) /\ Len(s) + (p - Len(s)) = p
        BY <1>1, <1>5, <2>2
      <3>2. words[p] = front[p - Len(s)] /\ both[p] = t[p - Len(s)]
        <4> DEFINE q == p - Len(s)
        <4>1. q \in 1 .. k /\ q \in 1 .. Len(t) /\ Len(s) + q = p
          BY <3>1
        <4> HIDE DEF q
        <4>2. words[Len(s) + q] = front[q] /\ both[Len(s) + q] = t[q]
          BY <1>5, <4>1
        <4> QED
          BY <4>1, <4>2 DEF q
      <3> QED
        BY <1>2, <3>1, <3>2
    <2> QED
      BY <2>1, <2>2
  <1>7. ASSUME NEW p \in 1 .. Len(rest) PROVE rest[p] = both[Len(words) + p]
    <2>1. k + p \in 1 .. Len(t) /\ Len(words) + p = Len(s) + (k + p)
      BY <1>1, <1>3, <1>5
    <2>2. both[Len(s) + (k + p)] = t[k + p]
      BY <1>5, <2>1
    <2> QED
      BY <1>3, <2>1, <2>2
  <1>8. Parted(words, rest, s, t, k)
    <2>1. Len(s) + Len(t) = Len(words) + Len(rest)
      BY <1>1, <1>3, <1>5
    <2> QED
      BY <1>3, <1>5, <1>6, <1>7, <2>1, Zenon DEF Parted, both
  <1> QED
    BY <1>8 DEF words, front, rest

LEMMA ReaderReads ==
  ASSUME ReaderKnowsBlocks, settings.rider_header \in BOOLEAN, EMULATORfillnumber \in Nat, Reader, Read
  PROVE  Reader'
  <1> DEFINE words(k) == buf \o SubSeq(wire, 1, k)
  <1>1. PICK k \in 1 .. Min({Asked - Len(buf), Len(wire)}) :
          /\ wire' = SubSeq(wire, k + 1, Len(wire))
          /\ IF Len(words(k)) = Asked
             THEN readAndUnpack(words(k))
             ELSE buf' = words(k) /\ UNCHANGED <<pcTcp, unpackVars>>
    BY Zenon DEF Read
  <1>2. UNCHANGED <<settings, run, simVars, feVars, link, TCPfillnumber>>
    BY Zenon DEF Read
  <1>3. UNCHANGED <<settings, sent, EMULATORfillnumber, TCPfillnumber, link>> /\ Frame
    BY <1>2, Zenon DEF feVars, Frame
  <1>4. Asked \in Int /\ Len(buf) \in Nat /\ Len(wire) \in Nat /\ buf \in Seq(AnyWord) /\ wire \in Seq(AnyWord)
    <2>1. CASE Lost
      BY <2>1 DEF Lost
    <2>2. CASE InStep
      <3>1. PICK b \in 0 .. Count - 1 : Stage(b) /\ Stream(Place(b))
        BY <2>2 DEF InStep
      <3>2. Asked \in Int /\ buf \in Seq(AnyWord) /\ wire \in Seq(AnyWord)
        BY <3>1, AskedTyped DEF Stage, Stream
      <3> QED
        BY <3>2
    <2> QED
      BY <2>1, <2>2 DEF Reader
  <1>5. k \in Nat /\ k >= 1 /\ k <= Len(wire) /\ Len(buf) + k <= Asked
    <2> DEFINE a == Asked - Len(buf)
               l == Len(wire)
    <2>1. a \in Int /\ l \in Int
      BY <1>4
    <2> HIDE DEF a, l
    <2>2. Min({a, l}) \in Int /\ Min({a, l}) <= a /\ Min({a, l}) <= l
      BY <2>1, MinOfTwo
    <2>3. k \in 1 .. Min({a, l})
      BY DEF a, l
    <2> HIDE DEF a, l
    <2>4. k \in Nat /\ k >= 1 /\ k <= a /\ k <= l
      BY <2>1, <2>2, <2>3
    <2> QED
      BY <1>4, <2>4 DEF a, l
  <1>6. ~ Lost
    BY <1>5 DEF Lost
  <1>7. PICK b \in 0 .. Count - 1 : Stage(b) /\ Stream(Place(b))
    BY <1>6 DEF Reader, InStep
  <1> DEFINE S == buf \o wire
             w == words(k)
             T == SubSeq(wire, k + 1, Len(wire))
             whole == (link = "up")
             cut == Place(b)
             rh == settings.rider_header
  <1>8. Carries(S, cut, TCPfillnumber, EMULATORfillnumber, Fill, whole, rh, sent) /\ TCPfillnumber \in Nat
    BY <1>7, Zenon DEF Stream
  <1>9. cut \in Nat /\ Asked \in Nat /\ cut + Asked <= Fill /\ Fill \in Nat
    BY <1>7, AskedSize, FillSizes
  <1>10. Parted(w, T, buf, wire, k)
    <2>1. k \in 1 .. Len(wire)
      BY <1>4, <1>5
    <2> QED
      BY <1>4, <2>1, PartedWords, Zenon
  <1>11. S \in Seq(AnyWord) /\ Len(S) = Len(buf) + Len(wire)
    <2>1. Joined(S, buf, wire)
      BY <1>4, JoinedWords, Zenon
    <2> QED
      BY <2>1, Zenon DEF Joined
  <1>12. /\ w \in Seq(AnyWord) /\ T \in Seq(AnyWord) /\ Len(w) = Len(buf) + k
         /\ Len(S) = Len(w) + Len(T)
         /\ \A p \in 1 .. Len(w) : w[p] = S[p]
         /\ \A p \in 1 .. Len(T) : T[p] = S[Len(w) + p]
    BY <1>10, <1>11, Zenon DEF Parted
  <1>13. whole \in BOOLEAN /\ wire' = T
    BY <1>1
  <1> HIDE DEF S, w, T, cut, words
  <1>14. CASE Len(w) = Asked
    <2>1. readAndUnpack(w) /\ buf' = <<>>
      BY <1>1, <1>14, Zenon DEF w, readAndUnpack
    <2>2. ASSUME NEW p \in 1 .. Len(w)
          PROVE  TCPfillnumber < EMULATORfillnumber
                 /\ Fits(w[p], rh, Event, TCPfillnumber, cut + p)
      <3> HIDE DEF whole
      <3>1. p \in 1 .. Len(S) /\ cut + p <= Fill
        BY <1>9, <1>12, <1>14, SMTT(30)
      <3>2. TCPfillnumber < EMULATORfillnumber
            /\ Fits(S[p], rh, sent[TCPfillnumber + 1], TCPfillnumber, cut + p)
        BY <1>8, <1>9, <1>13, <3>1, NextWord, Zenon
      <3> QED
        BY <1>12, <3>2, Zenon DEF Event
    <2>3. Fed(w, b)
      <3>1. 1 \in 1 .. Len(w)
        BY <1>4, <1>5, <1>12
      <3>2. TCPfillnumber < EMULATORfillnumber
        BY <2>2, <3>1
      <3> QED
        BY <1>7, <1>8, <1>12, <1>14, <2>2, <3>2, Zenon DEF Fed, cut
    <2>4. Advanced(b)
      BY <1>3, <2>1, <2>3, FedOn
    <2>5. PICK c \in 0 .. Count - 1 : Stage(c)' /\ Place(c)' = cut + Asked
      BY <2>4 DEF Advanced, cut
    <2>6. Carries(T, cut + Asked, TCPfillnumber, EMULATORfillnumber, Fill, whole, rh, sent)
      <3> HIDE DEF whole
      <3> DEFINE n == Asked
      <3>1. n \in Nat /\ RestOf(T, S, n)
        BY <1>9, <1>12, <1>14 DEF RestOf
      <3> HIDE DEF n
      <3>0. Amounts(cut, n, TCPfillnumber, EMULATORfillnumber, Fill, whole)
        BY <1>8, <1>9, <1>13, <3>1, Zenon DEF Amounts
      <3>2. Carries(T, cut + n, TCPfillnumber, EMULATORfillnumber, Fill, whole, rh, sent)
        BY <1>8, <3>0, <3>1, Taken, ZenonT(60)
      <3> QED
        BY <3>2 DEF n
    <2>7. Count' = Count /\ Fill' = Fill /\ link' = link
      BY <1>3 DEF Count, Fill, Store
    <2>8. buf' \o wire' = T /\ buf' \in Seq(AnyWord)
      <3>1. <<>> \o T = T
        BY <1>12
      <3> QED
        BY <1>13, <2>1, <3>1
    <2>9. Stream(Place(c))'
      <3>1. TCPfillnumber' \in Nat /\ wire' \in Seq(AnyWord)
        BY <1>3, <1>8, <1>12, <1>13
      <3>2. Carries(buf' \o wire', Place(c)', TCPfillnumber', EMULATORfillnumber', Fill', link' = "up",
                    settings'.rider_header, sent')
        BY <1>3, <2>5, <2>6, <2>7, <2>8
      <3> QED
        BY <2>8, <3>1, <3>2, Zenon DEF Stream
    <2>10. InStep'
      BY <2>5, <2>7, <2>9 DEF InStep
    <2> QED
      BY <1>3, <2>1, <2>10, Zenon DEF Reader
  <1>15. CASE Len(w) # Asked
    <2>1. buf' = w /\ UNCHANGED <<pcTcp, unpackVars>>
      BY <1>1, <1>15, Zenon DEF w
    <2>2. /\ EMULATORfillnumber' \in Nat /\ EMULATORfillnumber <= EMULATORfillnumber'
          /\ \A m \in 1 .. EMULATORfillnumber : sent'[m] = sent[m]
      BY <1>3
    <2>3. Stage(b)' /\ Place(b)' = cut /\ Asked' = Asked /\ Fill' = Fill /\ Count' = Count
      <3>1. Stage(b)' /\ Place(b)' = Place(b) /\ Asked' = Asked /\ Fill' = Fill /\ Count' = Count
        BY <1>3, <1>7, <1>8, <2>1, <2>2, StageKept, Zenon
      <3> QED
        BY <3>1 DEF cut
    <2> DEFINE U == w \o T
    <2>4. U \in Seq(AnyWord) /\ Len(U) = Len(S) /\ \A p \in 1 .. Len(U) : U[p] = S[p]
      <3>1. Joined(U, w, T)
        BY <1>12, JoinedWords, Zenon
      <3> HIDE DEF U
      <3>2. /\ U \in Seq(AnyWord) /\ Len(U) = Len(w) + Len(T)
            /\ \A p \in 1 .. Len(w) : U[p] = w[p]
            /\ \A p \in 1 .. Len(T) : U[Len(w) + p] = T[p]
        BY <3>1, Zenon DEF Joined
      <3>3. Len(w) \in Nat /\ Len(T) \in Nat
        BY <1>12
      <3>4. ASSUME NEW p \in 1 .. Len(U) PROVE U[p] = S[p]
        <4>1. CASE p <= Len(w)
          BY <1>12, <3>2, <3>3, <4>1
        <4>2. CASE ~ (p <= Len(w))
          <5> DEFINE q == p - Len(w)
          <5>1. q \in 1 .. Len(T) /\ Len(w) + q = p
            BY <3>2, <3>3, <4>2
          <5> HIDE DEF q
          <5>2. U[Len(w) + q] = T[q] /\ T[q] = S[Len(w) + q]
            BY <1>12, <3>2, <5>1
          <5> QED
            BY <5>1, <5>2
        <4> QED
          BY <4>1, <4>2
      <3> QED
        BY <1>12, <3>2, <3>4
    <2> HIDE DEF U
    <2>5. PartOf(U, S, whole, whole) /\ SameEvents(sent, sent, EMULATORfillnumber)
      <3>1. Len(U) <= Len(S)
        BY <1>11, <2>4
      <3> HIDE DEF whole
      <3> QED
        BY <1>13, <2>4, <3>1 DEF PartOf, SameEvents
    <2>6. Carries(U, cut, TCPfillnumber, EMULATORfillnumber, Fill, whole, rh, sent)
      <3> HIDE DEF whole
      <3> QED
        BY <1>8, <1>9, <1>13, <2>5, PartOfIt, Zenon
    <2>7. Stream(Place(b))'
      <3>1. TCPfillnumber' \in Nat /\ wire' \in Seq(AnyWord) /\ buf' \in Seq(AnyWord) /\ buf' \o wire' = U
        BY <1>3, <1>8, <1>12, <1>13, <2>1 DEF U
      <3>2. Carries(buf' \o wire', Place(b)', TCPfillnumber', EMULATORfillnumber', Fill', link' = "up",
                    settings'.rider_header, sent')
        BY <1>3, <2>3, <2>6, <3>1
      <3> QED
        BY <3>1, <3>2, Zenon DEF Stream
    <2>8. InStep'
      BY <1>7, <2>3, <2>7 DEF InStep
    <2>9. Len(buf') < Asked'
      <3>1. Len(w) <= Asked
        BY <1>5, <1>12
      <3>2. Len(w) < Asked
        <4> DEFINE a == Asked
                   l == Len(w)
        <4>1. a \in Int /\ l \in Int /\ l # a /\ l <= a
          BY <1>4, <1>12, <1>15, <3>1, Zenon, LenInt
        <4> HIDE DEF a, l
        <4>2. l < a
          BY <4>1
        <4> QED
          BY <4>2 DEF a, l
      <3> QED
        BY <2>1, <2>3, <3>2
    <2> QED
      BY <1>3, <2>8, <2>9, Zenon DEF Reader
  <1> QED
    BY <1>14, <1>15

(* A reset as the first of a ReadXBytes: the reader goes on with what is    *)
(* there already, once.                                                     *)
LEMMA StaleRead ==
  ASSUME ReaderKnowsBlocks, settings.rider_header \in BOOLEAN, NEW b \in 0 .. Count - 1, Stage(b),
         TCPfillnumber \in Nat, EMULATORfillnumber \in Nat, Frame, readAndUnpack(Stale)
  PROVE  /\ Asked' \in Int
         /\ pcTcp' \in {"CDF", "AMC13", "AMCs", "data", "blocktail", "tail", "publish"}
         /\ pcTcp' = "publish" => Has(Count - 1, nAMC + 2, nAMC)'
  <1> DEFINE w == header[nextHeader]
  <1>1. Held /\ UNCHANGED <<settings, sent, EMULATORfillnumber, TCPfillnumber>>
    BY Zenon DEF Stage, Frame
  <1>2. 0 \in AMC /\ nAMC \in Nat /\ nAMC >= 1 /\ amc_block_size \in Int
    BY Sizes, LinkAssumption DEF AMC, LinkAssumption
  <1>3. /\ pcTcp = "AMC13" => w \in AnyWord /\ Asked = 1
        /\ pcTcp = "AMCs" => w \in AnyWord /\ Asked = nAMC /\ nWords = nAMC
    <2> DEFINE h == nAMC + 2
    <2>1. /\ b \in Nat /\ Count \in Nat /\ h \in Nat /\ h >= 3 /\ Count - (b + 1) \in Nat
      BY <1>2, FillSizes
    <2>2. Count * h = b * h + h + (Count - (b + 1)) * h /\ b * h \in Nat /\ (Count - (b + 1)) * h \in Nat
      <3> HIDE DEF h
      <3> QED
        BY <2>1
    <2> DEFINE x == b * h
               y == (Count - (b + 1)) * h
               z == Count * h
    <2>3. header \in [0 .. z -> AnyWord]
      BY <1>1, Zenon DEF Held
    <2>4. z = x + h + y /\ x \in Nat /\ y \in Nat
      BY <2>2
    <2>5. CASE pcTcp = "AMC13"
      <3>1. nextHeader = x + 0 + 1
        BY <2>5, Zenon DEF Stage, Has
      <3> HIDE DEF x, y, z, h
      <3>2. nextHeader \in 0 .. z
        BY <2>1, <2>4, <3>1
      <3> QED
        BY <2>3, <2>5, <3>2, AskedSize
    <2>6. CASE pcTcp = "AMCs"
      <3>1. nextHeader = x + 1 + 1 /\ nWords = nAMC
        <4>1. Has(b, 1, 0) /\ 1 >= 1
          BY <2>6 DEF Stage
        <4> QED
          BY <4>1, Zenon DEF Has
      <3> HIDE DEF x, y, z, h
      <3>2. nextHeader \in 0 .. z
        BY <2>1, <2>4, <3>1
      <3> QED
        BY <2>3, <2>6, <3>1, <3>2, AskedSize
    <2> QED
      BY <2>5, <2>6
  <1>4. pcTcp \in {"AMC13", "AMCs"} => Stale[1] = w
    <2> SUFFICES ASSUME pcTcp \in {"AMC13", "AMCs"} PROVE Stale[1] = w
      OBVIOUS
    <2>1. Stale = [k \in 1 .. Asked |-> header[nextHeader + k - 1]]
      BY DEF Stale
    <2>2. 1 \in 1 .. Asked /\ nextHeader \in Int
      <3>1. b * (nAMC + 2) \in Int
        BY <1>2, FillSizes
      <3>2. CASE pcTcp = "AMC13"
        <4>1. nextHeader = b * (nAMC + 2) + 0 + 1
          BY <3>2, Zenon DEF Stage, Has
        <4> QED
          BY <1>3, <3>1, <3>2, <4>1
      <3>3. CASE pcTcp = "AMCs"
        <4>1. nextHeader = b * (nAMC + 2) + 1 + 1
          BY <3>3, Zenon DEF Stage, Has
        <4> QED
          BY <1>2, <1>3, <3>1, <3>3, <4>1
      <3> QED
        BY <3>2, <3>3
    <2>3. nextHeader + 1 - 1 = nextHeader
      BY <2>2
    <2> QED
      BY <2>1, <2>2, <2>3
  <1>5. \A v \in AnyWord : v.num \in Int
    BY DEF AnyWord
  <1>6. CASE GotCDF(Stale)
    <2>1. pcTcp' = "AMC13"
      BY <1>6, Zenon DEF GotCDF
    <2> QED
      BY <2>1 DEF Asked
  <1>7. CASE GotAMC13(Stale)
    <2>1. pcTcp' = "AMCs" /\ pcTcp = "AMC13" /\ nWords' = Stale[1].num
      BY <1>7, Zenon DEF GotAMC13
    <2>2. nWords' \in Int
      BY <1>3, <1>4, <1>5, <2>1
    <2> QED
      BY <2>1, <2>2 DEF Asked
  <1>8. CASE GotAMCs(Stale)
    <2>1. /\ pcTcp = "AMCs" /\ pcTcp' = "data" /\ iAMC' = 0
          /\ amc_header_info' = [i \in AMC |-> IF i < nWords THEN Stale[i + 1] ELSE amc_header_info[i]]
      BY <1>8, Zenon DEF GotAMCs
    <2>2. amc_header_info'[0] = w
      <3>1. 0 < nWords /\ 0 + 1 = 1
        BY <1>2, <1>3, <2>1
      <3> QED
        BY <1>2, <1>4, <2>1, <3>1
    <2>3. w.num \in Int
      BY <1>3, <1>5, <2>1
    <2>4. blockdatabytes' \in Int
      BY <1>2, <2>1, <2>2, <2>3 DEF blockdatabytes
    <2> QED
      BY <2>1, <2>4 DEF Asked
  <1>9. CASE GotData(Stale)
    <2>1. pcTcp = "data" /\ amc_header_info' = amc_header_info
          /\ (IF iAMC + 1 < nWords THEN iAMC' = iAMC + 1 /\ pcTcp' = "data"
                                  ELSE iAMC' = iAMC /\ pcTcp' = "blocktail")
      BY <1>9, Zenon DEF GotData
    <2>2. CASE iAMC + 1 < nWords
      <3>1. nWords = nAMC
        <4>1. Has(b, nAMC + 1, iAMC) /\ nAMC + 1 >= 1
          BY <1>2, <2>1 DEF Stage
        <4> QED
          BY <4>1, Zenon DEF Has
      <3>2. iAMC' \in AMC /\ pcTcp' = "data"
        BY <1>1, <1>2, <2>1, <2>2, <3>1 DEF Held, AMC
      <3>3. amc_header_info'[iAMC'].num \in Int
        BY <1>1, <1>5, <2>1, <3>2 DEF Held
      <3>4. blockdatabytes' \in Int
        BY <1>2, <3>3 DEF blockdatabytes
      <3> QED
        BY <3>2, <3>4 DEF Asked
    <2>3. CASE ~ (iAMC + 1 < nWords)
      BY <2>1, <2>3 DEF Asked
    <2> QED
      BY <2>2, <2>3
  <1>10. CASE GotBlockTail(Stale)
    <2>1. pcTcp' = IF Info.M THEN "AMC13" ELSE "tail"
      BY <1>10, Zenon DEF GotBlockTail
    <2>2. pcTcp' \in {"AMC13", "tail"}
      BY <2>1
    <2> QED
      BY <2>2 DEF Asked
  <1>11. CASE GotTail(Stale)
    <2>1. /\ pcTcp = "tail" /\ pcTcp' = "publish"
          /\ UNCHANGED <<header, nextHeader, nWords, amc_header_info, iAMC, dataAMCoffset, datablockoffset,
                         databytes, tcp_buf>>
      BY <1>11, Zenon DEF GotTail
    <2>2. Has(b, nAMC + 2, nAMC) /\ b = Count - 1
      BY <2>1 DEF Stage
    <2>3. Count' = Count /\ Store' = Store /\ Event' = Event
      BY <1>1 DEF Count, Store, Event
    <2>4. Has(b, nAMC + 2, nAMC)'
      BY <1>1, <2>1, <2>2, <2>3, Zenon DEF Has
    <2>5. Has(Count - 1, nAMC + 2, nAMC)'
      <3>1. b = Count' - 1
        BY <2>2, <2>3
      <3> QED
        BY <2>4, <3>1, Zenon
    <2> QED
      BY <2>1, <2>5 DEF Asked
  <1> QED
    BY <1>6, <1>7, <1>8, <1>9, <1>10, <1>11, Zenon DEF readAndUnpack

LEMMA ReaderFails ==
  ASSUME ReaderKnowsBlocks, settings.rider_header \in BOOLEAN, EMULATORfillnumber \in Nat, Reader, ReadFails
  PROVE  Reader'
  <1>1. /\ link = "reset" /\ wire = <<>> /\ link' = "closed" /\ wire' = <<>>
        /\ UNCHANGED <<settings, sent, EMULATORfillnumber, TCPfillnumber>> /\ Frame
    BY DEF ReadFails, feVars, Frame
  <1>2. PICK b \in 0 .. Count - 1 : Stage(b) /\ Stream(Place(b))
    BY <1>1 DEF Reader, Lost, InStep
  <1>3. TCPfillnumber \in Nat /\ buf \in Seq(AnyWord) /\ wire \in Seq(AnyWord)
    BY <1>2 DEF Stream
  <1>4. CASE buf = <<>> /\ readAndUnpack(Stale)
    <2>1. buf' = <<>>
      BY <1>4 DEF readAndUnpack
    <2>2. /\ Asked' \in Int
          /\ pcTcp' \in {"CDF", "AMC13", "AMCs", "data", "blocktail", "tail", "publish"}
          /\ pcTcp' = "publish" => Has(Count - 1, nAMC + 2, nAMC)'
      BY <1>1, <1>2, <1>3, <1>4, StaleRead
    <2>3. TCPfillnumber' \in Nat
      BY <1>1, <1>3
    <2>4. pcTcp' = "publish" => (DOMAIN header = 0 .. Count * (nAMC + 2))'
      <3>1. pcTcp' = "publish" => header' = header
        BY <1>4 DEF readAndUnpack, GotCDF, GotAMC13, GotAMCs, GotData, GotBlockTail, GotTail
      <3>2. DOMAIN header = 0 .. Count * (nAMC + 2)
        BY <1>2 DEF Stage, Held
      <3>3. Count' = Count
        BY <1>1 DEF Count
      <3> QED
        BY <3>1, <3>2, <3>3, Zenon
    <2>5. Lost'
      BY <1>1, <2>1, <2>2, <2>3, <2>4, Zenon DEF Lost
    <2> QED
      BY <1>1, <2>1, <2>5 DEF Reader
  <1>5. CASE UNCHANGED <<buf, pcTcp, unpackVars>>
    <2>1. /\ EMULATORfillnumber' \in Nat /\ EMULATORfillnumber <= EMULATORfillnumber'
          /\ \A m \in 1 .. EMULATORfillnumber : sent'[m] = sent[m]
      BY <1>1
    <2>2. Stage(b)' /\ Place(b)' = Place(b) /\ Asked' = Asked /\ Fill' = Fill /\ Count' = Count
      BY <1>1, <1>2, <1>3, <1>5, <2>1, StageKept, Zenon
    <2> DEFINE S == buf \o wire
               whole == (link = "up")
               still == (link' = "up")
               cut == Place(b)
               rh == settings.rider_header
    <2>3. Carries(S, cut, TCPfillnumber, EMULATORfillnumber, Fill, whole, rh, sent) /\ S \in Seq(AnyWord)
      BY <1>2, <1>3 DEF Stream
    <2>4. cut \in Nat /\ Fill \in Nat
      BY <1>2, AskedSize, FillSizes
    <2>5. whole \in BOOLEAN /\ still \in BOOLEAN /\ (still => whole)
      BY <1>1
    <2> HIDE DEF S, cut, whole, still
    <2>7. PartOf(S, S, still, whole) /\ SameEvents(sent, sent, EMULATORfillnumber)
      BY <2>3, <2>5 DEF PartOf, SameEvents
    <2>8. Carries(S, cut, TCPfillnumber, EMULATORfillnumber, Fill, still, rh, sent)
      BY <1>3, <2>3, <2>4, <2>5, <2>7, PartOfIt, ZenonT(60)
    <2>9. Stream(Place(b))'
      <3>1. TCPfillnumber' \in Nat /\ wire' \in Seq(AnyWord) /\ buf' \in Seq(AnyWord) /\ buf' \o wire' = S
        BY <1>1, <1>3, <1>5 DEF S
      <3>2. Carries(buf' \o wire', Place(b)', TCPfillnumber', EMULATORfillnumber', Fill', link' = "up",
                    settings'.rider_header, sent')
        BY <1>1, <2>2, <2>8, <3>1, Zenon DEF cut, still
      <3> QED
        BY <3>1, <3>2, Zenon DEF Stream
    <2>10. InStep'
      BY <1>2, <2>2, <2>9 DEF InStep
    <2>11. (buf = <<>> \/ Len(buf) < Asked) /\ buf' = buf
      BY <1>5, Zenon DEF Reader
    <2> QED
      BY <1>1, <2>2, <2>10, <2>11 DEF Reader
  <1> QED
    BY <1>4, <1>5 DEF ReadFails

LEMMA ReaderPublishes ==
  ASSUME ReaderKnowsBlocks, settings.rider_header \in BOOLEAN, EMULATORfillnumber \in Nat, Reader, Publish
  PROVE  Reader'
  <1>1. /\ pcTcp = "publish" /\ pcTcp' = "CDF" /\ TCPfillnumber' = TCPfillnumber + 1
        /\ UNCHANGED <<settings, simVars, feVars, link, wire, buf, unpackVars>>
    BY DEF Publish
  <1>2. UNCHANGED <<sent, EMULATORfillnumber, header, nextHeader, nWords, amc_header_info, iAMC, dataAMCoffset,
                    datablockoffset, databytes, tcp_buf, tail>>
    BY <1>1, Zenon DEF feVars, unpackVars
  <1>3. Asked = 0 /\ Asked' = 1
    BY <1>1 DEF Asked
  <1>4. CASE Lost
    <2>1. TCPfillnumber' \in Nat /\ buf = <<>> /\ link = "closed" /\ wire = <<>>
      BY <1>1, <1>4 DEF Lost
    <2>2. Lost'
      BY <1>1, <1>3, <2>1 DEF Lost
    <2> QED
      BY <1>1, <2>1, <2>2 DEF Reader
  <1>5. CASE InStep
    <2>1. PICK b \in 0 .. Count - 1 : Stage(b) /\ Stream(Place(b))
      BY <1>5 DEF InStep
    <2>2. buf = <<>> /\ TCPfillnumber \in Nat /\ wire \in Seq(AnyWord)
      <3>1. buf \in Seq(AnyWord) /\ TCPfillnumber \in Nat /\ wire \in Seq(AnyWord)
        BY <2>1 DEF Stream
      <3>2. ~ (Len(buf) < 0)
        BY <3>1
      <3>3. buf = <<>> \/ Len(buf) < Asked
        BY Zenon DEF Reader
      <3> QED
        BY <1>3, <3>1, <3>2, <3>3
    <2>3. Held' /\ Count' = Count /\ Fill' = Fill
      <3>1. Count' = Count /\ Store' = Store /\ Fill' = Fill
        BY <1>1 DEF Count, Store, Fill
      <3> QED
        BY <1>1, <1>2, <2>1, <3>1 DEF Stage, Held
    <2>4. Stage(b)' /\ Place(b)' = 0
      BY <1>1, <2>3 DEF Stage, Place
    <2>5. Place(b) = Fill /\ Fill \in Nat \ {0}
      BY <1>1, FillSizes DEF Place
    <2> DEFINE S == buf \o wire
               whole == (link = "up")
               rh == settings.rider_header
    <2>6. Carries(S, Fill, TCPfillnumber, EMULATORfillnumber, Fill, whole, rh, sent) /\ whole \in BOOLEAN
      BY <2>1, <2>5 DEF Stream
    <2> HIDE DEF S, whole
    <2>7. Carries(S, 0, TCPfillnumber + 1, EMULATORfillnumber, Fill, whole, rh, sent)
      BY <2>2, <2>5, <2>6, NextFill, ZenonT(60)
    <2>8. Stream(Place(b))'
      <3>1. TCPfillnumber' \in Nat /\ wire' \in Seq(AnyWord) /\ buf' \in Seq(AnyWord)
        BY <1>1, <2>2
      <3>2. Carries(buf' \o wire', Place(b)', TCPfillnumber', EMULATORfillnumber', Fill', link' = "up",
                    settings'.rider_header, sent')
        BY <1>1, <1>2, <2>3, <2>4, <2>7, Zenon DEF S, whole
      <3> QED
        BY <3>1, <3>2, Zenon DEF Stream
    <2>9. InStep'
      BY <2>1, <2>3, <2>4, <2>8 DEF InStep
    <2> QED
      BY <1>1, <2>2, <2>9 DEF Reader
  <1> QED
    BY <1>4, <1>5 DEF Reader

LEMMA NothingCarried ==
  ASSUME NEW len \in Nat, NEW rider_header, NEW events
  PROVE  Carries(<<>>, 0, 0, 0, len, TRUE, rider_header, events)
  <1>1. <<>> \in Seq(AnyWord) /\ Len(<<>>) = 0 /\ (0 - 0) * len = 0 /\ 0 + 0 = 0 /\ 0 <= 0
    OBVIOUS
  <1>2. \A p \in 1 .. Len(<<>>) : FALSE
    OBVIOUS
  <1>3. 0 + Len(<<>>) <= (0 - 0) * len /\ 0 + Len(<<>>) = (0 - 0) * len
    BY <1>1
  <1> QED
    BY <1>1, <1>2, <1>3, Zenon DEF Carries

LEMMA ReaderBegins ==
  ASSUME ReaderKnowsBlocks, settings.rider_header \in BOOLEAN, Held, pcTcp = "CDF",
         wire = <<>>, buf = <<>>, link = "up", EMULATORfillnumber = 0, TCPfillnumber = 0
  PROVE  Reader
  <1>1. Fill \in Nat /\ 0 \in 0 .. Count - 1
    BY FillSizes
  <1>2. Stage(0) /\ Place(0) = 0
    BY DEF Stage, Place
  <1>3. Stream(Place(0))
    <2>1. buf \o wire = <<>> /\ buf \in Seq(AnyWord) /\ wire \in Seq(AnyWord) /\ TCPfillnumber \in Nat
      OBVIOUS
    <2>2. Carries(<<>>, 0, 0, 0, Fill, TRUE, settings.rider_header, sent)
      BY <1>1, NothingCarried
    <2>3. (link = "up") = TRUE
      OBVIOUS
    <2> QED
      BY <1>2, <2>1, <2>2, <2>3 DEF Stream
  <1> QED
    BY <1>1, <1>2, <1>3 DEF Reader, InStep

LEMMA ReaderRestarts ==
  ASSUME ReaderKnowsBlocks, settings.rider_header \in BOOLEAN, Reader, BeginRun
  PROVE  Reader'
  <1>1. /\ UNCHANGED <<settings, link, wire, pcTcp, buf, unpackVars>> /\ link = "up" /\ wire = <<>> /\ buf = <<>>
        /\ pcTcp = "CDF" /\ EMULATORfillnumber' = 0 /\ TCPfillnumber' = 0
    BY Zenon DEF BeginRun
  <1>2. PICK b \in 0 .. Count - 1 : Stage(b)
    BY <1>1 DEF Reader, Lost, InStep
  <1>3. Held' /\ settings'.rider_header \in BOOLEAN
    <2>1. Count' = Count /\ Store' = Store
      BY <1>1 DEF Count, Store
    <2> QED
      BY <1>1, <1>2, <2>1 DEF Stage, Held, unpackVars
  <1>4. Fill' \in Nat /\ 0 \in 0 .. Count' - 1
    <2>1. Count' = Count /\ Fill' = Fill
      BY <1>1 DEF Count, Fill, Store
    <2> QED
      BY <2>1, FillSizes
  <1>5. Stage(0)' /\ Place(0)' = 0
    BY <1>1, <1>3 DEF Stage, Place
  <1>6. Stream(Place(0))'
    <2>1. buf' \o wire' = <<>> /\ buf' \in Seq(AnyWord) /\ wire' \in Seq(AnyWord) /\ TCPfillnumber' \in Nat
      BY <1>1
    <2>2. Carries(<<>>, 0, 0, 0, Fill', TRUE, settings'.rider_header, sent')
      BY <1>4, NothingCarried, Zenon
    <2>3. (link' = "up") = TRUE
      BY <1>1
    <2> QED
      BY <1>1, <1>5, <2>1, <2>2, <2>3 DEF Stream
  <1>7. buf' = <<>> /\ link' \in {"up", "closed", "reset"}
    BY <1>1
  <1> QED
    BY <1>4, <1>5, <1>6, <1>7 DEF Reader, InStep

LEMMA ReaderCutOff ==
  ASSUME ReaderKnowsBlocks, settings.rider_header \in BOOLEAN, EMULATORfillnumber \in Nat, Reader, LinkBreaks
  PROVE  Reader'
  <1>1. /\ link = "up" /\ link' \in {"closed", "reset"} /\ (wire' = wire \/ wire' = <<>>)
        /\ UNCHANGED <<settings, simVars, feVars, tcpVars>>
    BY DEF LinkBreaks
  <1>2. UNCHANGED <<settings, pcTcp, unpackVars, TCPfillnumber, buf, sent, EMULATORfillnumber>>
    BY <1>1, Zenon DEF feVars, tcpVars
  <1>3. PICK b \in 0 .. Count - 1 : Stage(b) /\ Stream(Place(b))
    BY <1>1 DEF Reader, Lost, InStep
  <1>4. TCPfillnumber \in Nat /\ buf \in Seq(AnyWord) /\ wire \in Seq(AnyWord)
    BY <1>3 DEF Stream
  <1>5. /\ EMULATORfillnumber' \in Nat /\ EMULATORfillnumber <= EMULATORfillnumber'
        /\ \A m \in 1 .. EMULATORfillnumber : sent'[m] = sent[m]
    BY <1>2
  <1>6. Stage(b)' /\ Place(b)' = Place(b) /\ Asked' = Asked /\ Fill' = Fill /\ Count' = Count
    BY <1>2, <1>3, <1>4, <1>5, StageKept, Zenon
  <1> DEFINE S == buf \o wire
             T == buf \o wire'
             whole == (link = "up")
             still == (link' = "up")
             cut == Place(b)
             rh == settings.rider_header
  <1>7. Carries(S, cut, TCPfillnumber, EMULATORfillnumber, Fill, whole, rh, sent) /\ S \in Seq(AnyWord)
    BY <1>3, <1>4 DEF Stream
  <1>8. cut \in Nat /\ Fill \in Nat
    BY <1>3, AskedSize, FillSizes
  <1>9. whole \in BOOLEAN /\ still \in BOOLEAN /\ ~ still
    BY <1>1
  <1>10. T \in Seq(AnyWord) /\ Len(T) <= Len(S) /\ \A p \in 1 .. Len(T) : T[p] = S[p]
    <2>1. CASE wire' = wire
      <3>1. T = S
        BY <2>1
      <3> HIDE DEF T, S
      <3> QED
        BY <1>7, <3>1
    <2>2. CASE wire' = <<>>
      <3>1. T = buf
        BY <1>4, <2>2
      <3>2. Joined(S, buf, wire)
        BY <1>4, JoinedWords, Zenon
      <3> HIDE DEF T, S
      <3> QED
        BY <1>4, <3>1, <3>2 DEF Joined
    <2> QED
      BY <1>1, <2>1, <2>2
  <1> HIDE DEF S, T, cut, whole, still
  <1>11. PartOf(T, S, still, whole) /\ SameEvents(sent, sent, EMULATORfillnumber)
    BY <1>9, <1>10 DEF PartOf, SameEvents
  <1>12. Carries(T, cut, TCPfillnumber, EMULATORfillnumber, Fill, still, rh, sent)
    BY <1>4, <1>7, <1>8, <1>9, <1>11, PartOfIt, ZenonT(60)
  <1>13. Stream(Place(b))'
    <2>1. TCPfillnumber' \in Nat /\ wire' \in Seq(AnyWord) /\ buf' \in Seq(AnyWord) /\ buf' \o wire' = T
      <3>1. <<>> \in Seq(AnyWord)
        OBVIOUS
      <3>2. wire' \in Seq(AnyWord) /\ buf' = buf /\ TCPfillnumber' = TCPfillnumber
        BY <1>1, <1>2, <1>4, <3>1
      <3> QED
        BY <1>4, <3>2, Zenon DEF T
    <2>2. Carries(buf' \o wire', Place(b)', TCPfillnumber', EMULATORfillnumber', Fill', link' = "up",
                  settings'.rider_header, sent')
      BY <1>2, <1>6, <1>12, <2>1, Zenon DEF cut, still
    <2> QED
      BY <2>1, <2>2, Zenon DEF Stream
  <1>14. InStep'
    BY <1>3, <1>6, <1>13 DEF InStep
  <1>15. (buf = <<>> \/ Len(buf) < Asked) /\ buf' = buf
    BY <1>2, Zenon DEF Reader
  <1> QED
    BY <1>1, <1>6, <1>14, <1>15 DEF Reader

LEMMA ReaderIsFed ==
  ASSUME ReaderKnowsBlocks, Counted, Shaped, Reader, WriteFill
  PROVE  Reader'
  <1>0. settings.rider_header \in BOOLEAN /\ EMULATORfillnumber \in Nat /\ sent \in Seq(Int)
    BY DEF Counted
  <1>1. UNCHANGED <<settings, run, simVars, truthdata, packed, repeating, sent, link, tcpVars>> /\ pcFe = "write"
    BY Zenon DEF WriteFill
  <1>2. UNCHANGED <<settings, pcTcp, unpackVars, TCPfillnumber, buf, sent, link>>
    BY <1>1, Zenon DEF tcpVars
  <1>3. CASE link = "up"
    <2>1. wire' = wire \o packed /\ EMULATORfillnumber' = EMULATORfillnumber + 1
      BY <1>3, Zenon DEF WriteFill
    <2>2. PICK b \in 0 .. Count - 1 : Stage(b) /\ Stream(Place(b))
      BY <1>3 DEF Reader, Lost, InStep
    <2>3. TCPfillnumber \in Nat /\ buf \in Seq(AnyWord) /\ wire \in Seq(AnyWord)
      BY <2>2 DEF Stream
    <2>4. /\ EMULATORfillnumber' \in Nat /\ EMULATORfillnumber <= EMULATORfillnumber'
          /\ \A m \in 1 .. EMULATORfillnumber : sent'[m] = sent[m]
      BY <1>0, <1>2, <2>1
    <2>5. Stage(b)' /\ Place(b)' = Place(b) /\ Asked' = Asked /\ Fill' = Fill /\ Count' = Count
      BY <1>0, <1>2, <2>2, <2>3, <2>4, StageKept, Zenon
    <2> DEFINE S == buf \o wire
               cut == Place(b)
               rh == settings.rider_header
    <2>6. Carries(S, cut, TCPfillnumber, EMULATORfillnumber, Fill, TRUE, rh, sent)
      <3>1. (link = "up") = TRUE
        BY <1>3
      <3> QED
        BY <2>2, <3>1 DEF Stream
    <2>7. cut \in Nat /\ Fill \in Nat
      BY <1>0, <2>2, AskedSize, FillSizes
    <2>8. Shape(packed, rh, sent[EMULATORfillnumber + 1], EMULATORfillnumber)
      <3>1. Len(sent) = EMULATORfillnumber + 1
        BY <1>1 DEF Counted, Unwritten
      <3> QED
        BY <1>1, <3>1 DEF Shaped
    <2>9. /\ packed \in Seq(AnyWord) /\ Len(packed) = Fill
          /\ \A j \in 1 .. Len(packed) : Fits(packed[j], rh, sent[EMULATORfillnumber + 1], EMULATORfillnumber, j)
      BY <2>8, Zenon DEF Shape, Fill, Store, Count
    <2>10. \A j \in 1 .. Fill : Fits(packed[j], rh, sent[EMULATORfillnumber + 1], EMULATORfillnumber, j)
      BY <2>9, Zenon
    <2> HIDE DEF S, cut
    <2>11. Carries(S \o packed, cut, TCPfillnumber, EMULATORfillnumber + 1, Fill, TRUE, rh, sent)
      BY <1>0, <2>3, <2>6, <2>7, <2>9, <2>10, Written, ZenonT(60)
    <2>12. buf' \o wire' = S \o packed /\ wire' \in Seq(AnyWord) /\ buf' \in Seq(AnyWord)
      <3>1. (buf \o wire) \o packed = buf \o (wire \o packed)
        BY <2>3, <2>9, ConcatAssociative, SMTT(30)
      <3>2. wire \o packed \in Seq(AnyWord)
        BY <2>3, <2>9
      <3> QED
        BY <1>2, <2>1, <2>3, <3>1, <3>2, Zenon DEF S
    <2>13. Stream(Place(b))'
      <3>1. (link' = "up") = TRUE
        BY <1>2, <1>3
      <3>2. Carries(buf' \o wire', Place(b)', TCPfillnumber', EMULATORfillnumber', Fill', link' = "up",
                    settings'.rider_header, sent')
        BY <1>2, <2>1, <2>5, <2>11, <2>12, <3>1, Zenon DEF cut
      <3>3. TCPfillnumber' \in Nat
        BY <1>2, <2>3
      <3> QED
        BY <2>12, <3>2, <3>3, Zenon DEF Stream
    <2>14. InStep'
      BY <2>2, <2>5, <2>13 DEF InStep
    <2>15. (buf = <<>> \/ Len(buf) < Asked) /\ buf' = buf /\ link' \in {"up", "closed", "reset"}
      BY <1>2, Zenon DEF Reader
    <2> QED
      BY <2>5, <2>14, <2>15 DEF Reader
  <1>4. CASE link # "up"
    <2>1. UNCHANGED <<settings, link, wire, tcpVars, EMULATORfillnumber>>
      BY <1>1, <1>4, Zenon DEF WriteFill
    <2>2. \A m \in 1 .. EMULATORfillnumber : sent'[m] = sent[m]
      BY <1>1
    <2> QED
      BY <1>0, <2>1, <2>2, ReaderKept
  <1> QED
    BY <1>3, <1>4

LEMMA NextReader ==
  ASSUME ReaderKnowsBlocks, Counted, Shaped, Reader, [Next]_vars
  PROVE  Reader'
  <1>0. settings.rider_header \in BOOLEAN /\ EMULATORfillnumber \in Nat /\ sent \in Seq(Int)
    BY DEF Counted
  <1>1. CASE Read
    BY <1>0, <1>1, ReaderReads
  <1>2. CASE ReadFails
    BY <1>0, <1>2, ReaderFails
  <1>3. CASE Publish
    BY <1>0, <1>3, ReaderPublishes
  <1>4. CASE BeginRun
    BY <1>0, <1>4, ReaderRestarts
  <1>5. CASE LinkBreaks
    BY <1>0, <1>5, ReaderCutOff
  <1>6. CASE WriteFill
    BY <1>6, ReaderIsFed
  <1>7. CASE PackFill
    <2>1. UNCHANGED <<settings, link, wire, tcpVars, EMULATORfillnumber>> /\ sent' = Append(sent, EventIn(packed'))
      BY <1>7, Zenon DEF PackFill, Pack
    <2>2. EMULATORfillnumber <= Len(sent)
      BY <1>0 DEF Counted, Unwritten
    <2>3. \A m \in 1 .. EMULATORfillnumber : sent'[m] = sent[m]
      BY <1>0, <2>1, <2>2
    <2> QED
      BY <1>0, <2>1, <2>3, ReaderKept
  <1>8. CASE UNCHANGED <<settings, link, wire, tcpVars, EMULATORfillnumber, sent>>
    <2>1. UNCHANGED <<settings, link, wire, tcpVars, EMULATORfillnumber>>
          /\ \A m \in 1 .. EMULATORfillnumber : sent'[m] = sent[m]
      BY <1>8, Zenon
    <2> QED
      BY <1>0, <2>1, ReaderKept
  <1>9. Simulator \/ rpc_g2_end_of_fill \/ ReleaseData \/ ReleaseSimulator
          \/ read_trigger_event \/ UNCHANGED vars
        => UNCHANGED <<settings, link, wire, tcpVars, EMULATORfillnumber, sent>>
    BY Zenon DEF Simulator, SimLock, SimKeepsEvent, SimStartsEvent, SimEndsEvent, rpc_g2_end_of_fill,
           ReleaseData, ReleaseSimulator, read_trigger_event, vars, feVars
  <1> QED
    BY <1>1, <1>2, <1>3, <1>4, <1>5, <1>6, <1>7, <1>8, <1>9, Zenon DEF Next, tcp_write, tcp_thread

LEMMA FirstReader == ASSUME ReaderKnowsBlocks, Init PROVE Reader
  <1>1. settings.rider_header \in BOOLEAN
    BY LinkAssumption DEF Init, LinkAssumption
  <1>2. Held
    <2>1. None \in AnyWord
      BY DEF None, Word, AnyWord, FormatWord
    <2>2. 0 \in AMC
      BY Sizes DEF AMC
    <2>3. header = [w \in 0 .. Count * (nAMC + 2) |-> None] /\ amc_header_info = [i \in AMC |-> None]
          /\ tcp_buf = [w \in 0 .. nAMC * Store - 1 |-> None] /\ tail = None /\ nWords = 0 /\ iAMC = 0 /\ pcTcp = "CDF"
      BY Zenon DEF Init, Count, Store
    <2> QED
      BY <2>1, <2>2, <2>3 DEF Held
  <1>3. pcTcp = "CDF" /\ wire = <<>> /\ buf = <<>> /\ link = "up" /\ EMULATORfillnumber = 0 /\ TCPfillnumber = 0
    BY Zenon DEF Init
  <1> QED
    BY <1>1, <1>2, <1>3, ReaderBegins

LEMMA AlwaysReader ==
  ASSUME FirstBlockHasData, ReaderKnowsBlocks
  PROVE  Spec => [](Locked /\ Counted /\ Shaped /\ Reader)
  <1>1. Init => Shaped /\ Reader
    <2>1. Init => Shaped
      BY DEF Init, Shaped
    <2> QED
      BY <2>1, FirstReader
  <1>2. Locked /\ Counted /\ Kept /\ Shaped /\ Reader /\ [Next]_vars => Shaped' /\ Reader'
    BY NextShaped, NextReader
  <1> QED
    BY <1>1, <1>2, AlwaysLocked, AlwaysKept, PTL DEF Spec

-----------------------------------------------------------------------------
(* Variables have their types, for all sizes of modules, blocks and reads.  *)
(* A ReadXBytes that has not returned has read less than it was asked for   *)
(* (tcp_thread.c:525), also where the number of words asked for is read     *)
(* from the stream; mutex_data is held by the simulator thread or by        *)
(* tcp_write, never by both (simulator.cpp:197, tcp_server.cpp:299).        *)
THEOREM VariablesAreTyped ==
  ASSUME FirstBlockHasData, ReaderKnowsBlocks
  PROVE  Spec => []TypeOK
  <1>1. Locked /\ Counted /\ Reader => TypeOK
    <2> SUFFICES ASSUME Locked, Counted, Reader PROVE TypeOK
      OBVIOUS
    <2>1. /\ pcSim \in {"lock", "lockdata", "generate"}
          /\ pcFe \in {"ready", "lock", "packed", "release", "write", "data_avail", "failed"}
          /\ mutex \in BOOLEAN
          /\ ~ (pcSim = "generate" /\ pcFe = "packed")
      BY Zenon DEF Locked
    <2>2. mutex_data = (pcSim = "generate" \/ pcFe = "packed")
      BY Zenon DEF Locked
    <2>3. link \in {"up", "closed", "reset"} /\ (buf = <<>> \/ Len(buf) < Asked)
      BY Zenon DEF Reader
    <2>4. pcTcp \in {"CDF", "AMC13", "AMCs", "data", "blocktail", "tail", "publish"}
      BY Zenon DEF Reader, InStep, Stage, Held, Lost
    <2>5. ASSUME NEW i \in DOMAIN wire PROVE IsWord(wire[i])
      <3>1. wire \in Seq(AnyWord)
        <4>1. <<>> \in Seq(AnyWord)
          OBVIOUS
        <4> QED
          BY <4>1, Zenon DEF Reader, InStep, Stream, Lost
      <3>2. wire[i] \in AnyWord
        BY <3>1
      <3> QED
        BY <3>2 DEF AnyWord, IsWord
    <2> QED
      BY <2>1, <2>2, <2>3, <2>4, <2>5, Zenon DEF TypeOK
  <1> QED
    BY <1>1, AlwaysReader, PTL

(* When a fill is handed on, the whole of it was taken apart.               *)
LEMMA PublishedWhole ==
  ASSUME Reader, pcTcp = "publish"
  PROVE  /\ Has(Count - 1, nAMC + 2, nAMC) /\ (link = "up" => tail.kind = "CDFtrailer")
         /\ DOMAIN header = 0 .. Count * (nAMC + 2)
  <1>1. CASE Lost
    BY <1>1 DEF Lost
  <1>2. CASE InStep
    <2>1. PICK b \in 0 .. Count - 1 : Stage(b)
      BY <1>2 DEF InStep
    <2>2. b = Count - 1 /\ Has(b, nAMC + 2, nAMC) /\ tail.kind = "CDFtrailer"
      BY <2>1 DEF Stage
    <2>3. DOMAIN header = 0 .. Count * (nAMC + 2)
      BY <2>1 DEF Stage, Held
    <2> QED
      BY <2>2, <2>3, Zenon
  <1> QED
    BY <1>1, <1>2 DEF Reader

LEMMA PublishedHeaders ==
  ASSUME settings.rider_header \in BOOLEAN, Reader, pcTcp = "publish"
  PROVE  /\ header[0] = Word("CDF", TCPfillnumber, 0)
         /\ \A b \in 0 .. Count - 1 : BlockHeads(header, Count, b)
         /\ databytes = nAMC * Store
  <1>1. /\ Store \in Nat \ {0} /\ Count \in Nat \ {0}
        /\ (Count - 1) * BlockWords < Store /\ Store <= Count * BlockWords
    BY FillSizes
  <1> DEFINE e == Count - 1
  <1>2. Has(e, nAMC + 2, nAMC) /\ (link = "up" => tail.kind = "CDFtrailer")
    BY PublishedWhole
  <1>3. e \in 0 .. Count - 1 /\ e = Count - 1
    BY <1>1
  <1>4. e * BlockWords + InBlock(Store, e) = Store /\ e * BlockWords \in Nat /\ InBlock(Store, e) \in 1 .. BlockWords
    BY <1>1, <1>3, BlocksOfFill
  <1>5. databytes = nAMC * (e * BlockWords) + nAMC * InBlock(Store, e)
    BY <1>2 DEF Has
  <1>6. HeadsGood(header, settings.rider_header, TCPfillnumber, e, nAMC + 2)
    BY <1>2 DEF Has
  <1>7. databytes = nAMC * Store
    <2> DEFINE x == e * BlockWords
               nb == InBlock(Store, e)
    <2>1. x + nb = Store /\ databytes = nAMC * x + nAMC * nb /\ x \in Nat /\ nb \in Nat
      BY <1>4, <1>5, Sizes
    <2> HIDE DEF x, nb
    <2>2. nAMC * x + nAMC * nb = nAMC * (x + nb)
      BY <2>1, Sizes
    <2> QED
      BY <2>1, <2>2
  <1>8. header[0] = Word("CDF", TCPfillnumber, 0)
    BY <1>6, Zenon DEF HeadsGood
  <1> HIDE DEF e
  <1>9. \A d \in 0 .. Count - 1, x \in 1 .. nAMC + 2 :
          HeadWord(header[d * (nAMC + 2) + x], settings.rider_header, d, x)
    <2> SUFFICES ASSUME NEW d \in 0 .. Count - 1, NEW x \in 1 .. nAMC + 2
                 PROVE  HeadWord(header[d * (nAMC + 2) + x], settings.rider_header, d, x)
      OBVIOUS
    <2>1. d < e \/ (d = e /\ x <= nAMC + 2)
      BY <1>1, <1>3, Sizes
    <2>2. d \in 0 .. nBlocks(settings.rider_header) - 1
      BY DEF Count
    <2> QED
      BY <1>6, <2>1, <2>2, Zenon DEF HeadsGood
  <1>10. ASSUME NEW b \in 0 .. Count - 1 PROVE BlockHeads(header, Count, b)
    <2>1. b \in 0 .. Count - 1 /\ b \in Nat
      BY <1>1
    <2> DEFINE at == b * (nAMC + 2)
    <2>2. at \in Nat
      BY <2>1, Sizes
    <2>3. \A x \in 1 .. nAMC + 2 : HeadWord(header[at + x], settings.rider_header, b, x)
      BY <1>9, <2>1
    <2> HIDE DEF at
    <2>4. header[at + 1] = Word("AMC13", nAMC, 0)
      <3>1. 1 \in 1 .. nAMC + 2
        BY Sizes
      <3>2. HeadWord(header[at + 1], settings.rider_header, b, 1)
        BY <2>3, <3>1, Zenon
      <3> QED
        BY <3>2, Zenon DEF HeadWord
    <2>5. header[at + (nAMC + 2)].kind = "blocktail"
      <3>1. nAMC + 2 \in 1 .. nAMC + 2
        BY Sizes
      <3>2. HeadWord(header[at + (nAMC + 2)], settings.rider_header, b, nAMC + 2)
        BY <2>3, <3>1, Zenon
      <3> QED
        BY <3>2, Zenon DEF HeadWord
    <2>6. InBlock(Store, b) < Store - b * BlockWords <=> b < Count - 1
      <3> DEFINE x == b * BlockWords
                 nb == InBlock(Store, b)
      <3>1. /\ x \in Nat /\ nb \in 1 .. BlockWords
            /\ b < Count - 1 => nb < Store - x
            /\ b = Count - 1 => x + nb = Store
        BY <1>1, <2>1, BlocksOfFill
      <3> HIDE DEF x, nb
      <3>2. nb < Store - x <=> b < Count - 1
        BY <1>1, <2>1, <3>1, Sizes
      <3> QED
        BY <3>2 DEF x, nb
    <2>7. ASSUME NEW i \in AMC
          PROVE  /\ header[at + (2 + i)].kind = "AMC" /\ header[at + (2 + i)].pos = i
                 /\ header[at + (2 + i)].M = (b < Count - 1)
                 /\ header[at + (2 + i)].S = (b > 0)
      <3> DEFINE w == header[at + (2 + i)]
      <3>1. 1 + (i + 1) \in 1 .. nAMC + 2 /\ at + (1 + (i + 1)) = at + (2 + i)
        BY <2>2, Sizes DEF AMC
      <3>2. HeadWord(header[at + (1 + (i + 1))], settings.rider_header, b, 1 + (i + 1))
        BY <2>3, <3>1, Zenon
      <3>3. w = AMCWord(Store, b, i)
        BY <3>1, <3>2, Zenon DEF HeadWord, Store
      <3> HIDE DEF w
      <3>4. /\ w.kind = "AMC" /\ w.pos = i
            /\ w.M = (InBlock(Store, b) < Store - b * BlockWords) /\ w.S = (b > 0)
        BY <3>3 DEF AMCWord, Word
      <3>5. (InBlock(Store, b) < Store - b * BlockWords) = (b < Count - 1)
        BY <2>6
      <3> QED
        BY <3>4, <3>5, Zenon DEF w
    <2> QED
      BY <2>4, <2>5, <2>7, Zenon DEF at, BlockHeads
  <1> QED
    BY <1>7, <1>8, <1>10

(* The bank has of the header what fits into it.                            *)
LEMMA BankOfHeader ==
  ASSUME settings.rider_header \in BOOLEAN, Reader, Publish
  PROVE  /\ InBank(0) => tcp_buf_header'[0] = header[0]
         /\ \A b \in 0 .. Count - 1, x \in 1 .. nAMC + 2 :
              InBank(b * (nAMC + 2) + x) =>
                tcp_buf_header'[b * (nAMC + 2) + x] = header[b * (nAMC + 2) + x]
  <1>1. pcTcp = "publish"
    BY DEF Publish
  <1>2. DOMAIN header = 0 .. Count * (nAMC + 2) /\ Count \in Nat \ {0}
    BY <1>1, PublishedWhole, FillSizes
  <1>3. \A w \in DOMAIN header : InBank(w) => tcp_buf_header'[w] = header[w]
    BY Zenon DEF Publish
  <1>4. 0 \in DOMAIN header
    BY <1>2, Sizes
  <1>5. ASSUME NEW b \in 0 .. Count - 1, NEW x \in 1 .. nAMC + 2
        PROVE  b * (nAMC + 2) + x \in DOMAIN header
    <2>1. Count * (nAMC + 2) = b * (nAMC + 2) + (Count - b) * (nAMC + 2)
      BY <1>2, Sizes
    <2>2. (Count - b) * (nAMC + 2) >= nAMC + 2
      BY <1>2, Sizes
    <2>3. b * (nAMC + 2) \in Nat
      BY <1>2, Sizes
    <2> DEFINE y == b * (nAMC + 2)
               z == (Count - b) * (nAMC + 2)
               n == Count * (nAMC + 2)
    <2>4. y \in Nat /\ n = y + z /\ z >= nAMC + 2 /\ z \in Int
      BY <1>2, <2>1, <2>2, <2>3, Sizes
    <2> HIDE DEF y, z, n
    <2>5. y + x \in 0 .. n
      BY <2>4, Sizes
    <2> QED
      BY <1>2, <2>5 DEF y, n
  <1> QED
    BY <1>3, <1>4, <1>5, Zenon

LEMMA HandedOn ==
  ASSUME settings.rider_header \in BOOLEAN, Reader, Publish
  PROVE  /\ InBank(0) => tcp_buf_header'[0] = Word("CDF", TCPfillnumber, 0)
         /\ \A b \in 0 .. Count - 1 : BlockHeads(tcp_buf_header', Count, b)
         /\ databytes = nAMC * Store
         /\ link = "up" => tcp_buf_tail'.kind = "CDFtrailer"
  <1>1. pcTcp = "publish" /\ tcp_buf_tail' = tail
    BY DEF Publish
  <1>2. /\ header[0] = Word("CDF", TCPfillnumber, 0)
        /\ \A b \in 0 .. Count - 1 : BlockHeads(header, Count, b)
        /\ databytes = nAMC * Store
    BY <1>1, PublishedHeaders
  <1>3. link = "up" => tcp_buf_tail'.kind = "CDFtrailer"
    BY <1>1, PublishedWhole
  <1>4. ASSUME NEW b \in 0 .. Count - 1 PROVE BlockHeads(tcp_buf_header', Count, b)
    <2> DEFINE at(x) == b * (nAMC + 2) + x
    <2>1. \A x \in 1 .. nAMC + 2 : InBank(at(x)) => tcp_buf_header'[at(x)] = header[at(x)]
      BY BankOfHeader
    <2>2. /\ 1 \in 1 .. nAMC + 2 /\ nAMC + 2 \in 1 .. nAMC + 2
          /\ \A i \in AMC : 2 + i \in 1 .. nAMC + 2
      BY Sizes DEF AMC
    <2>3. BlockHeads(header, Count, b)
      BY <1>2
    <2>4. InBank(at(1)) => tcp_buf_header'[at(1)] = Word("AMC13", nAMC, 0)
      BY <2>1, <2>2, <2>3, Zenon DEF BlockHeads
    <2>5. InBank(at(nAMC + 2)) => tcp_buf_header'[at(nAMC + 2)].kind = "blocktail"
      BY <2>1, <2>2, <2>3, Zenon DEF BlockHeads
    <2>6. ASSUME NEW i \in AMC, InBank(at(2 + i))
          PROVE  LET w == tcp_buf_header'[at(2 + i)] IN
                   w.kind = "AMC" /\ w.pos = i /\ w.M = (b < Count - 1) /\ w.S = (b > 0)
      <3>1. tcp_buf_header'[at(2 + i)] = header[at(2 + i)]
        BY <2>1, <2>2, <2>6, Zenon
      <3>2. LET w == header[at(2 + i)] IN
              w.kind = "AMC" /\ w.pos = i /\ w.M = (b < Count - 1) /\ w.S = (b > 0)
        BY <2>3, <2>6, Zenon DEF BlockHeads
      <3> QED
        BY <3>1, <3>2, Zenon
    <2> QED
      BY <2>4, <2>5, <2>6, Zenon DEF BlockHeads
  <1> QED
    BY <1>2, <1>3, <1>4, BankOfHeader

(* The header bank that is handed on has the number of the fill and, in     *)
(* order, the headers of its blocks, as many as go into header_size bytes   *)
(* (tcp_thread.c:403); the size is that of the data that were sent and the  *)
(* tail the fill's own, unless the connection broke (tcp_thread.c:598): for *)
(* all sizes, and reads that return what they will.                         *)
THEOREM HeadersAreOfFill ==
  ASSUME FirstBlockHasData, ReaderKnowsBlocks
  PROVE  Spec => HeadersOfFill
  <1>1. Counted /\ Reader => HandsOnHeaders
    <2> SUFFICES ASSUME Counted, Reader, Publish PROVE HandsOnHeaders
      BY DEF HandsOnHeaders
    <2>1. settings.rider_header \in BOOLEAN
      BY DEF Counted
    <2> QED
      BY <2>1, HandedOn DEF HandsOnHeaders, Count, Store
  <1> QED
    BY <1>1, AlwaysReader, PTL DEF HeadersOfFill

(* Where the GPU looks is where the packer put the sample, in the data of   *)
(* module m from word o on.                                                 *)
LEMMA SamplePlaced ==
  ASSUME settings.rider_header \in BOOLEAN, NEW a \in AMC, NEW c \in Chan, NEW i \in 1 .. waveform_length
  PROVE  \E m \in AMC, o \in 0 .. Store - 1 :
           /\ first_sample_index(a, c) + i - 1 = m * Store + o
           /\ FirstSample(settings.rider_header, a, c) + i = m * Store + o + 1
  <1>1. a \in Nat /\ c \in Nat /\ c + 1 <= nCHAN /\ nCHAN - (c + 1) \in Nat /\ i \in Nat
    BY Sizes DEF AMC, Chan
  <1>2. CASE settings.rider_header
    <2>0. settings.rider_header = TRUE
      BY <1>2
    <2> DEFINE L == waveform_length + 4
               u == c * L
               v == (nCHAN - (c + 1)) * L
               y == nCHAN * L
               w == a * Store
               o == 4 + u + (i - 1)
    <2>1. Store = 2 + y + 1 /\ y \in Nat /\ Store = nt_words_store(TRUE)
      BY <2>0, RiderSizes DEF Store
    <2>2. L = waveform_length + 4 /\ L \in Nat
      BY Sizes
    <2>3. first_sample_index(a, c) = w + 2 + u + 2
      <3>1. 2 + waveform_length + 2 = L /\ 2 + nCHAN * L + 1 = Store
        BY <2>1, Sizes
      <3>2. first_sample_index(a, c)
              = a * (2 + nCHAN * (2 + waveform_length + 2) + 1) + 2 + c * (2 + waveform_length + 2) + 2
        BY <1>2, Zenon DEF first_sample_index
      <3> QED
        BY <3>1, <3>2, Zenon
    <2>4. FirstSample(settings.rider_header, a, c) = w + (2 + (u + 2))
      BY <1>2, <2>1, Zenon DEF FirstSample
    <2> HIDE DEF L
    <2>5. u \in Nat /\ v \in Nat /\ y = u + L + v
      BY <1>1, <2>2, Sizes
    <2>6. w \in Nat
      BY <1>1, <2>1
    <2> HIDE DEF u, v, y, w
    <2>7. o \in 0 .. Store - 1
      BY <1>1, <2>1, <2>2, <2>5, Sizes
    <2>8. first_sample_index(a, c) + i - 1 = w + o /\ FirstSample(settings.rider_header, a, c) + i = w + o + 1
      BY <1>1, <2>3, <2>4, <2>5, <2>6
    <2> HIDE DEF o
    <2> QED
      BY <2>7, <2>8, Zenon DEF w
  <1>3. CASE ~ settings.rider_header
    <2> DEFINE L == waveform_length
               u == c * L
               v == (nCHAN - (c + 1)) * L
               y == nCHAN * L
               w == a * Store
               o == u + (i - 1)
    <2>1. Store = y
      BY <1>3, StoreTyped DEF Store
    <2>2. L = waveform_length /\ L \in Nat
      BY Sizes
    <2>3. first_sample_index(a, c) = (a * nCHAN + c) * L
      BY <1>3, Zenon DEF first_sample_index
    <2>4. FirstSample(settings.rider_header, a, c) = (a * nCHAN + c) * L
      BY <1>3, Zenon DEF FirstSample
    <2> HIDE DEF L
    <2>5. u \in Nat /\ v \in Nat /\ y \in Nat /\ y = u + L + v
      BY <1>1, <2>2, Sizes
    <2>6. (a * nCHAN + c) * L = a * y + u
      BY <1>1, <2>2, Sizes
    <2>7. w \in Nat /\ w = a * y
      BY <1>1, <2>1, <2>5
    <2> HIDE DEF u, v, y, w
    <2>8. o \in 0 .. Store - 1
      BY <1>1, <2>1, <2>2, <2>5, Sizes
    <2>9. first_sample_index(a, c) + i - 1 = w + o /\ FirstSample(settings.rider_header, a, c) + i = w + o + 1
      BY <1>1, <2>3, <2>4, <2>5, <2>6, <2>7
    <2> HIDE DEF o
    <2> QED
      BY <2>8, <2>9, Zenon DEF w
  <1> QED
    BY <1>2, <1>3

LEMMA PublishedWaveforms ==
  ASSUME PartsCopied, settings.rider_header \in BOOLEAN, Reader, pcTcp = "publish"
  PROVE  WaveformsFound
  <1>1. /\ Store \in Nat \ {0} /\ Count \in Nat \ {0}
        /\ (Count - 1) * BlockWords < Store /\ Store <= Count * BlockWords
    BY FillSizes
  <1> DEFINE e == Count - 1
             rh == settings.rider_header
  <1>2. Has(e, nAMC + 2, nAMC)
    BY PublishedWhole
  <1>3. e \in 0 .. Count - 1 /\ e = Count - 1
    BY <1>1
  <1>4. e * BlockWords + InBlock(Store, e) = Store
    BY <1>1, <1>3, BlocksOfFill
  <1>5. /\ datablockoffset = [m \in AMC |-> e * BlockWords + (IF m < nAMC THEN InBlock(Store, e) ELSE 0)]
        /\ Found(tcp_buf, datablockoffset, rh, Event)
    BY <1>2, Zenon DEF Has
  <1>6. \A m \in AMC : datablockoffset[m] = Store
    <2> SUFFICES ASSUME NEW m \in AMC PROVE datablockoffset[m] = Store
      OBVIOUS
    <2>1. m < nAMC
      BY Sizes DEF AMC
    <2> HIDE DEF e
    <2> QED
      BY <1>4, <1>5, <2>1
  <1> HIDE DEF e
  <1>7. ASSUME NEW a \in AMC, NEW c \in Chan, NEW i \in 1 .. waveform_length, a * nCHAN + c < calo_segments
        PROVE  tcp_buf[first_sample_index(a, c) + i - 1]
                 = Word("wave", Event, (a * nCHAN + c) * waveform_length + i)
    <2>1. PICK m \in AMC, o \in 0 .. Store - 1 :
            /\ first_sample_index(a, c) + i - 1 = m * Store + o
            /\ FirstSample(rh, a, c) + i = m * Store + o + 1
      BY SamplePlaced
    <2>2. o < datablockoffset[m]
      BY <1>1, <1>6
    <2>3. Wanted(tcp_buf[m * Store + o], rh, Event, m * Store + o + 1)
      BY <1>5, <2>2, Zenon DEF Found, Store
    <2>4. tcp_buf[m * Store + o] = Word("wave", Event, (a * nCHAN + c) * waveform_length + i)
      BY <1>7, <2>1, <2>3, Zenon DEF Wanted
    <2> QED
      BY <2>1, <2>4, Zenon
  <1> QED
    BY <1>7, Zenon DEF WaveformsFound, Event

(* When a fill is handed to the GPU thread, the GPU finds every sample of   *)
(* every simulated segment at its first_sample_index (kernel.cu:897), and   *)
(* it is that of the event sent for this fill (tcp_thread.c:731): for       *)
(* modules, channels, waveforms and blocks of any size, both formats, reads *)
(* that return what they will, and connections that break.                  *)
THEOREM WaveformsAreFound ==
  ASSUME FirstBlockHasData, ReaderKnowsBlocks, PartsCopied
  PROVE  Spec => []WaveformsFound
  <1>1. Counted /\ Reader => WaveformsFound
    <2> SUFFICES ASSUME Counted, Reader PROVE WaveformsFound
      OBVIOUS
    <2>1. settings.rider_header \in BOOLEAN
      BY DEF Counted
    <2>2. CASE pcTcp = "publish"
      BY <2>1, <2>2, PublishedWaveforms
    <2>3. CASE pcTcp # "publish"
      BY <2>3, Zenon DEF WaveformsFound
    <2> QED
      BY <2>2, <2>3
  <1> QED
    BY <1>1, AlwaysReader, PTL

=============================================================================
