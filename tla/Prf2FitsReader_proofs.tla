------------------------ MODULE Prf2FitsReader_proofs ------------------------
(***************************************************************************)
(* The reader is the inverse of Render: where in the file it is at each    *)
(* label of main, on a file of one shape that may end anywhere.  From that *)
(* follow the properties that relate the output to the observation.        *)
(***************************************************************************)
EXTENDS Prf2Fits_proofs, FiniteSetTheorems

-----------------------------------------------------------------------------
(* Numbers *)

Less == OpToRel(<, Nat)

\* Numbers have a least one.
LEMMA LeastOf ==
  ASSUME NEW T, T \subseteq Nat, T # {}
  PROVE  \E x \in T : \A y \in T : x <= y
<1>1. IsWellFoundedOn(Less, Nat)
  BY NatLessThanWellFounded, Zenon DEF Less
<1>2. \A x, y \in Nat : x < y => << x, y >> \in Less
  BY Zenon DEF OpToRel, Less
<1> HIDE DEF Less
<1>3. PICK x \in T : \A y \in T : ~(<< y, x >> \in Less)
  BY <1>1, WFMin, Zenon
<1>4. \A y \in T : ~(y < x)
  BY <1>2, <1>3
<1> QED BY <1>4, <1>3

\* Induction up to a number: a set of numbers with the first of them and, with
\* every other, the next.
LEMMA UpTo ==
  ASSUME NEW N \in Nat, NEW S, N >= 1 => 1 \in S,
         \A n \in 1 .. N - 1 : n \in S => n + 1 \in S
  PROVE  \A n \in 1 .. N : n \in S
<1> SUFFICES ASSUME (1 .. N) \ S # {} PROVE FALSE
  OBVIOUS
<1> DEFINE T == (1 .. N) \ S
<1>0. T \subseteq Nat /\ T # {}
  OBVIOUS
<1>1. PICK x \in T : \A y \in T : x <= y
  <2> HIDE DEF T
  <2> QED BY <1>0, LeastOf
<1>2. CASE x = 1
  BY <1>1, <1>2
<1>3. CASE x > 1
  <2>1. x - 1 \in 1 .. N - 1 /\ (x - 1) + 1 = x
    BY <1>1, <1>3
  <2>2. x - 1 \in S
    BY <2>1, <1>1
  <2> QED BY <2>1, <2>2, <1>1
<1> QED BY <1>1, <1>2, <1>3

\* Division with rest.
LEMMA Division ==
  ASSUME NEW d \in Nat \ {0}, NEW q \in Nat, NEW r \in 0 .. d - 1
  PROVE  (q * d + r) \div d = q /\ (q * d + r) % d = r
  OBVIOUS

\* The same of an integer.
LEMMA DivisionOfInt ==
  ASSUME NEW d \in Nat \ {0}, NEW x \in Int
  PROVE  x \div d \in Int /\ x = (x \div d) * d + (x % d)
  OBVIOUS

\* Every number is a multiple and a rest.
LEMMA Rest ==
  ASSUME NEW d \in Nat \ {0}, NEW x \in Nat
  PROVE  /\ x \div d \in Nat
         /\ x % d \in 0 .. d - 1
         /\ x = (x \div d) * d + (x % d)
  OBVIOUS

-----------------------------------------------------------------------------
(* Sequences put together *)

\* FlattenSeq adds one sequence after the other.
LEMMA FlattenIs ==
  ASSUME NEW s, Len(s) \in Nat \ {0}
  PROVE  \E g : /\ FlattenSeq(s) = g[Len(s)]
                /\ g[1] = s[1]
                /\ \A n \in 1 .. Len(s) - 1 : g[n + 1] = g[n] \o s[n + 1]
<1> DEFINE N == Len(s)
           Partial(n, g) == g = [i \in 1 .. n |-> IF i = 1 THEN s[i] ELSE g[i - 1] \o s[i]]
           S == {n \in 1 .. N : \E g : Partial(n, g)}
<1>1. 1 \in S
  <2>1. Partial(1, [i \in 1 .. 1 |-> s[i]])
    OBVIOUS
  <2>2. 1 \in 1 .. N
    OBVIOUS
  <2> HIDE DEF Partial
  <2> QED BY <2>1, <2>2, Zenon
<1>2. ASSUME NEW n \in 1 .. N - 1, n \in S PROVE n + 1 \in S
  <2>1. PICK g : Partial(n, g)
    BY <1>2
  <2> DEFINE h == [i \in 1 .. n + 1 |-> IF i <= n THEN g[i] ELSE g[n] \o s[n + 1]]
  <2>2. \A i \in 1 .. n : g[i] = IF i = 1 THEN s[i] ELSE g[i - 1] \o s[i]
    BY <2>1, Zenon
  <2>3. \A i \in 1 .. n + 1 : h[i] = IF i = 1 THEN s[i] ELSE h[i - 1] \o s[i]
    <3> SUFFICES ASSUME NEW i \in 1 .. n + 1
                 PROVE  h[i] = IF i = 1 THEN s[i] ELSE h[i - 1] \o s[i]
      OBVIOUS
    <3>1. CASE i = 1
      BY <3>1, <2>2
    <3>2. CASE i # 1 /\ i <= n
      <4>1. h[i] = g[i] /\ h[i - 1] = g[i - 1] /\ i \in 1 .. n
        BY <3>2
      <4> QED BY <4>1, <3>2, <2>2
    <3>3. CASE i = n + 1
      <4>1. i # 1 /\ i - 1 = n /\ n \in 1 .. n + 1 /\ n + 1 \in 1 .. n + 1 /\ ~(n + 1 <= n)
        BY <3>3
      <4>2. /\ h[n + 1] = IF n + 1 <= n THEN g[n + 1] ELSE g[n] \o s[n + 1]
            /\ h[n] = IF n <= n THEN g[n] ELSE g[n] \o s[n + 1]
        BY <4>1, Zenon
      <4> HIDE DEF h
      <4>3. n <= n
        OBVIOUS
      <4> QED BY <4>1, <4>2, <4>3, <3>3
    <3> QED BY <3>1, <3>2, <3>3
  <2>4. h = [i \in 1 .. n + 1 |-> h[i]]
    OBVIOUS
  <2> HIDE DEF h
  <2>5. Partial(n + 1, h)
    BY <2>3, <2>4, Zenon
  <2>6. n + 1 \in 1 .. N
    OBVIOUS
  <2> HIDE DEF Partial
  <2> QED BY <2>5, <2>6, Zenon
<1>3. N \in S
  <2>1. \A n \in 1 .. N : n \in S
    <3>1. N \in Nat
      OBVIOUS
    <3> HIDE DEF S, N
    <3> QED BY <1>1, <1>2, <3>1, UpTo
  <2>2. N \in 1 .. N
    OBVIOUS
  <2> HIDE DEF S, N
  <2> QED BY <2>1, <2>2
<1>4. PICK g : Partial(N, g)
  BY <1>3
<1> DEFINE f == CHOOSE f : Partial(N, f)
<1>5. Partial(N, f)
  <2> HIDE DEF Partial
  <2> QED BY <1>4, Zenon
<1>6. FlattenSeq(s) = f[N]
  BY Zenon DEF FlattenSeq
<1> HIDE DEF f
<1>7. \A i \in 1 .. N : f[i] = IF i = 1 THEN s[i] ELSE f[i - 1] \o s[i]
  BY <1>5, Zenon
<1>8. f[1] = s[1]
  BY <1>7
<1>9. ASSUME NEW n \in 1 .. N - 1 PROVE f[n + 1] = f[n] \o s[n + 1]
  <2>1. n + 1 \in 1 .. N /\ n + 1 # 1 /\ (n + 1) - 1 = n
    OBVIOUS
  <2> QED BY <2>1, <1>7
<1> QED BY <1>6, <1>8, <1>9

\* Sequences are the same when their elements are.
LEMMA SameSeq ==
  ASSUME NEW X, NEW s \in Seq(X), NEW t \in Seq(X), Len(s) = Len(t),
         \A n \in 1 .. Len(s) : s[n] = t[n]
  PROVE  s = t
  OBVIOUS

\* An element of two sequences put together.
LEMMA JoinedElement ==
  ASSUME NEW X, NEW s \in Seq(X), NEW t \in Seq(X)
  PROVE  /\ s \o t \in Seq(X)
         /\ Len(s \o t) = Len(s) + Len(t)
         /\ \A n \in 1 .. Len(s) : (s \o t)[n] = s[n]
         /\ \A n \in 1 .. Len(t) : (s \o t)[Len(s) + n] = t[n]
  OBVIOUS

\* The first sequence is where the whole begins.
LEMMA FlattenBegins ==
  ASSUME NEW X, NEW s \in Seq(Seq(X)), s # << >>
  PROVE  /\ FlattenSeq(s) \in Seq(X)
         /\ Len(FlattenSeq(s)) >= Len(s[1])
         /\ \A p \in 1 .. Len(s[1]) : FlattenSeq(s)[p] = s[1][p]
<1>1. Len(s) \in Nat \ {0} /\ \A n \in 1 .. Len(s) : s[n] \in Seq(X)
  OBVIOUS
<1>2. PICK g : /\ FlattenSeq(s) = g[Len(s)]
               /\ g[1] = s[1]
               /\ \A n \in 1 .. Len(s) - 1 : g[n + 1] = g[n] \o s[n + 1]
  BY <1>1, FlattenIs
<1> DEFINE Begins(r) == /\ r \in Seq(X) /\ Len(r) >= Len(s[1])
                        /\ \A p \in 1 .. Len(s[1]) : r[p] = s[1][p]
           S == {n \in 1 .. Len(s) : Begins(g[n])}
<1>3. 1 \in S
  BY <1>1, <1>2
<1>4. ASSUME NEW n \in 1 .. Len(s) - 1, n \in S PROVE n + 1 \in S
  <2>1. n + 1 \in 1 .. Len(s) /\ s[n + 1] \in Seq(X) /\ g[n + 1] = g[n] \o s[n + 1] /\ Begins(g[n])
    <3>1. n + 1 \in 1 .. Len(s)
      BY <1>1
    <3> HIDE DEF Begins
    <3> QED BY <3>1, <1>1, <1>2, <1>4
  <2>2. Begins(g[n] \o s[n + 1])
    <3> DEFINE u == g[n]
               v == s[n + 1]
    <3>1. u \in Seq(X) /\ v \in Seq(X) /\ Len(u) >= Len(s[1]) /\ \A p \in 1 .. Len(s[1]) : u[p] = s[1][p]
      BY <2>1
    <3>2. Len(s[1]) \in Nat
      BY <1>1
    <3> HIDE DEF u, v
    <3>3. /\ u \o v \in Seq(X) /\ Len(u \o v) = Len(u) + Len(v)
          /\ \A p \in 1 .. Len(u) : (u \o v)[p] = u[p]
      BY <3>1, JoinedElement
    <3>4. Len(u) \in Nat /\ Len(v) \in Nat
      BY <3>1
    <3>5. \A p \in 1 .. Len(s[1]) : p \in 1 .. Len(u)
      BY <3>1, <3>2, <3>4
    <3>6. Begins(u \o v)
      BY <3>1, <3>2, <3>3, <3>4, <3>5
    <3> QED BY <3>6 DEF u, v
  <2> HIDE DEF Begins
  <2> QED BY <2>1, <2>2
<1>5. Len(s) \in S
  <2>1. Len(s) \in Nat /\ Len(s) \in 1 .. Len(s)
    BY <1>1
  <2> HIDE DEF S
  <2> QED BY <2>1, <1>3, <1>4, UpTo
<1> QED BY <1>5, <1>2

\* Sequences of one length stand one after the other.
LEMMA FlattenEven ==
  ASSUME NEW X, NEW s \in Seq(Seq(X)), NEW w \in Nat, \A n \in 1 .. Len(s) : Len(s[n]) = w
  PROVE  /\ FlattenSeq(s) \in Seq(X)
         /\ Len(FlattenSeq(s)) = Len(s) * w
         /\ \A i \in 1 .. Len(s) : \A p \in 1 .. w : FlattenSeq(s)[(i - 1) * w + p] = s[i][p]
<1>0. CASE s = << >>
  <2>1. FlattenSeq(s) = s
    BY <1>0, Len(<< >>) = 0, Zenon DEF FlattenSeq
  <2>2. 0 * w = 0 /\ Len(s) = 0
    BY <1>0
  <2>3. s \in Seq(X)
    BY <1>0
  <2> QED BY <2>1, <2>2, <2>3
<1>0a. CASE s # << >>
  <2>1. Len(s) \in Nat \ {0} /\ \A n \in 1 .. Len(s) : s[n] \in Seq(X)
    BY <1>0a
  <2>2. PICK g : /\ FlattenSeq(s) = g[Len(s)]
                 /\ g[1] = s[1]
                 /\ \A n \in 1 .. Len(s) - 1 : g[n + 1] = g[n] \o s[n + 1]
    BY <2>1, FlattenIs
  <2> DEFINE Holds(r, n) == \A i \in 1 .. n : \A p \in 1 .. w : r[(i - 1) * w + p] = s[i][p]
             S == {n \in 1 .. Len(s) : g[n] \in Seq(X) /\ Len(g[n]) = n * w /\ Holds(g[n], n)}
  <2>3. 1 \in S
    <3>1. \A p \in 1 .. w : (1 - 1) * w + p = p
      OBVIOUS
    <3>2. 1 \in 1 .. Len(s) /\ g[1] \in Seq(X) /\ Len(g[1]) = 1 * w
      BY <2>1, <2>2
    <3>3. Holds(g[1], 1)
      BY <3>1, <2>2
    <3> HIDE DEF Holds
    <3> QED BY <3>2, <3>3
  <2>4. ASSUME NEW n \in 1 .. Len(s) - 1, n \in S PROVE n + 1 \in S
    <3> DEFINE u == g[n]
               v == s[n + 1]
    <3>1. n \in Nat /\ n + 1 \in 1 .. Len(s) /\ g[n + 1] = u \o v /\ v \in Seq(X) /\ Len(v) = w
      <4>1. n \in Nat /\ n + 1 \in 1 .. Len(s)
        BY <2>1
      <4> HIDE DEF S
      <4> QED BY <4>1, <2>1, <2>2
    <3>2. u \in Seq(X) /\ Len(u) = n * w /\ Holds(u, n)
      BY <2>4
    <3> HIDE DEF u
    <3>3. /\ u \o v \in Seq(X) /\ Len(u \o v) = n * w + w
          /\ \A p \in 1 .. n * w : (u \o v)[p] = u[p]
          /\ \A p \in 1 .. w : (u \o v)[n * w + p] = v[p]
      <4> HIDE DEF v, Holds
      <4>1. /\ u \o v \in Seq(X) /\ Len(u \o v) = Len(u) + Len(v)
            /\ \A p \in 1 .. Len(u) : (u \o v)[p] = u[p]
            /\ \A p \in 1 .. Len(v) : (u \o v)[Len(u) + p] = v[p]
        <5>1. u \in Seq(X) /\ v \in Seq(X)
          BY <3>1, <3>2
        <5> HIDE DEF S
        <5> QED BY <5>1, JoinedElement, SMTT(20)
      <4>2. Len(u) = n * w /\ Len(v) = w
        BY <3>1, <3>2
      <4> QED BY <4>1, <4>2, Zenon
    <3>4. n * w + w = (n + 1) * w
      BY <3>1
    <3>5. ASSUME NEW i \in 1 .. n + 1, NEW p \in 1 .. w
          PROVE  (u \o v)[(i - 1) * w + p] = s[i][p]
      <4>1. CASE i = n + 1
        <5>1. (i - 1) * w + p = n * w + p /\ v = s[i]
          BY <4>1, <3>1
        <5> HIDE DEF v
        <5> QED BY <5>1, <3>3
      <4>2. CASE i <= n
        <5>1. (i - 1) + 1 <= n /\ i - 1 \in Nat /\ i \in 1 .. n
          BY <4>2, <3>1
        <5>2. ((i - 1) + 1) * w <= n * w
          BY <5>1, <3>1, TimesIsMonotonic
        <5>3. ((i - 1) + 1) * w = (i - 1) * w + w /\ (i - 1) * w \in Nat /\ n * w \in Nat
          BY <5>1, <3>1
        <5>4. (i - 1) * w + p \in 1 .. n * w
          <6> DEFINE x == (i - 1) * w
                     y == n * w
          <6>1. x \in Nat /\ y \in Nat /\ x + w <= y
            BY <5>2, <5>3
          <6> HIDE DEF x, y
          <6>2. x + p \in 1 .. y
            BY <6>1
          <6> QED BY <6>2 DEF x, y
        <5>5. u[(i - 1) * w + p] = s[i][p]
          BY <3>2, <5>1
        <5> HIDE DEF v, Holds
        <5> QED BY <3>3, <5>4, <5>5
      <4>3. i = n + 1 \/ i <= n
        BY <3>1
      <4> QED BY <4>1, <4>2, <4>3
    <3>6. Holds(u \o v, n + 1)
      BY <3>5
    <3> HIDE DEF v, Holds
    <3> QED BY <3>1, <3>3, <3>4, <3>6
  <2>5. Len(s) \in S
    <3>1. Len(s) \in Nat /\ Len(s) \in 1 .. Len(s)
      BY <2>1
    <3> HIDE DEF S
    <3> QED BY <3>1, <2>3, <2>4, UpTo
  <2> QED BY <2>5, <2>2
<1> QED BY <1>0, <1>0a

-----------------------------------------------------------------------------
(* The tokens of a file *)

Subints == [hdr : [FieldNames -> Int], cube : Seq(Seq(Int))]

\* A sub-integration whose channels have a sample for every bin.
IsWhole(sub) ==
  /\ sub \in Subints
  /\ \A ch \in DOMAIN sub.cube : DOMAIN sub.cube[ch] = 1 .. sub.hdr.numbins

\* The bins there are of a number of bins.
Positive(n) == IF n >= 1 THEN n ELSE 0

\* The fields one by one.
LEMMA FieldsAre ==
  /\ HeaderFormat[1].conv = "#"
  /\ HeaderOrder[1] = "mjd" /\ HeaderFormat[2] = [name |-> "mjd", conv |-> "f"]
  /\ HeaderOrder[2] = "fract" /\ HeaderFormat[3] = [name |-> "fract", conv |-> "f"]
  /\ HeaderOrder[3] = "period" /\ HeaderFormat[4] = [name |-> "period", conv |-> "f"]
  /\ HeaderOrder[4] = "numpulses" /\ HeaderFormat[5] = [name |-> "numpulses", conv |-> "d"]
  /\ HeaderOrder[5] = "freq" /\ HeaderFormat[6] = [name |-> "freq", conv |-> "f"]
  /\ HeaderOrder[6] = "dm" /\ HeaderFormat[7] = [name |-> "dm", conv |-> "f"]
  /\ HeaderOrder[7] = "numbins" /\ HeaderFormat[8] = [name |-> "numbins", conv |-> "d"]
  /\ HeaderOrder[8] = "tid" /\ HeaderFormat[9] = [name |-> "tid", conv |-> "c"]
  /\ HeaderOrder[9] = "pol" /\ HeaderFormat[10] = [name |-> "pol", conv |-> "d"]
  BY DEF HeaderOrder, HeaderFormat

\* The nth field is scanned by the conversion after the nth, of the kind it is
\* written as.
LEMMA FieldIs ==
  ASSUME NEW i \in 1 .. 9
  PROVE  /\ HeaderOrder[i] \in FieldNames
         /\ HeaderFormat[i + 1].name = HeaderOrder[i]
         /\ \/ KindOf(HeaderOrder[i]) = "int" /\ HeaderFormat[i + 1].conv = "d"
            \/ KindOf(HeaderOrder[i]) = "real" /\ HeaderFormat[i + 1].conv = "f"
            \/ KindOf(HeaderOrder[i]) = "junk" /\ HeaderFormat[i + 1].conv = "c"
<1>1. i = 1 \/ i = 2 \/ i = 3 \/ i = 4 \/ i = 5 \/ i = 6 \/ i = 7 \/ i = 8 \/ i = 9
  OBVIOUS
<1>2. CASE i = 1
  <2>1. i + 1 = 2
    BY <1>2
  <2> QED BY <2>1, <1>2, FieldsAre DEF FieldNames, KindOf
<1>3. CASE i = 2
  <2>1. i + 1 = 3
    BY <1>3
  <2> QED BY <2>1, <1>3, FieldsAre DEF FieldNames, KindOf
<1>4. CASE i = 3
  <2>1. i + 1 = 4
    BY <1>4
  <2> QED BY <2>1, <1>4, FieldsAre DEF FieldNames, KindOf
<1>5. CASE i = 4
  <2>1. i + 1 = 5
    BY <1>5
  <2> QED BY <2>1, <1>5, FieldsAre DEF FieldNames, KindOf
<1>6. CASE i = 5
  <2>1. i + 1 = 6
    BY <1>6
  <2> QED BY <2>1, <1>6, FieldsAre DEF FieldNames, KindOf
<1>7. CASE i = 6
  <2>1. i + 1 = 7
    BY <1>7
  <2> QED BY <2>1, <1>7, FieldsAre DEF FieldNames, KindOf
<1>8. CASE i = 7
  <2>1. i + 1 = 8
    BY <1>8
  <2> QED BY <2>1, <1>8, FieldsAre DEF FieldNames, KindOf
<1>9. CASE i = 8
  <2>1. i + 1 = 9
    BY <1>9
  <2> QED BY <2>1, <1>9, FieldsAre DEF FieldNames, KindOf
<1>10. CASE i = 9
  <2>1. i + 1 = 10
    BY <1>10
  <2> QED BY <2>1, <1>10, FieldsAre DEF FieldNames, KindOf
<1> QED BY <1>1, <1>2, <1>3, <1>4, <1>5, <1>6, <1>7, <1>8, <1>9, <1>10

\* A header is ten tokens, each one that its conversion accepts and takes whole.
LEMMA HeaderTokensAre ==
  ASSUME NEW hdr \in [FieldNames -> Int]
  PROVE  /\ HeaderTokens(hdr) \in Seq(Token)
         /\ Len(HeaderTokens(hdr)) = 10
         /\ \A n \in 1 .. 10 :
              /\ HeaderTokens(hdr)[n].k \in Accepts(HeaderFormat[n].conv)
              /\ Leftover(HeaderFormat[n].conv, HeaderTokens(hdr)[n]) = << >>
         /\ \A n \in 2 .. 10 : HeaderTokens(hdr)[n].v = hdr[HeaderFormat[n].name]
<1> DEFINE F == [i \in 1 .. 9 |-> [k |-> KindOf(HeaderOrder[i]), v |-> hdr[HeaderOrder[i]]]]
           h == << [k |-> "hash", v |-> 0] >>
           t == HeaderTokens(hdr)
<1>1. \A i \in 1 .. 9 : HeaderOrder[i] \in FieldNames /\ HeaderFormat[i + 1].name = HeaderOrder[i]
  BY FieldIs
<1>2. \A f : KindOf(f) \in {"int", "junk", "real"}
  BY DEF KindOf
<1>3. \A i \in 1 .. 9 : F[i] \in Token
  BY <1>1, <1>2 DEF Token, Kinds
<1>4. F \in Seq(Token) /\ Len(F) = 9
  BY <1>3, IsASeq
<1>5. h \in Seq(Token) /\ Len(h) = 1 /\ h[1] = [k |-> "hash", v |-> 0]
  BY DEF Token, Kinds
<1>6. t = h \o F
  BY DEF HeaderTokens
<1> HIDE DEF h, t
<1>7. /\ t \in Seq(Token) /\ Len(t) = 10
      /\ \A n \in 1 .. Len(h) : t[n] = h[n]
      /\ \A n \in 1 .. Len(F) : t[Len(h) + n] = F[n]
  <2> HIDE DEF F
  <2>1. /\ t \in Seq(Token) /\ Len(t) = Len(h) + Len(F)
        /\ \A n \in 1 .. Len(h) : t[n] = h[n]
        /\ \A n \in 1 .. Len(F) : t[Len(h) + n] = F[n]
    <3>1. h \in Seq(Token) /\ F \in Seq(Token)
      BY <1>4, <1>5
    <3>2. /\ h \o F \in Seq(Token) /\ Len(h \o F) = Len(h) + Len(F)
          /\ \A n \in 1 .. Len(h) : (h \o F)[n] = h[n]
          /\ \A n \in 1 .. Len(F) : (h \o F)[Len(h) + n] = F[n]
      BY <3>1, JoinedElement
    <3> QED BY <3>2, <1>6
  <2> QED BY <2>1, <1>4, <1>5
<1>8. t[1] = [k |-> "hash", v |-> 0]
  BY <1>7, <1>5
<1>9. \A n \in 1 .. 9 : t[1 + n] = [k |-> KindOf(HeaderOrder[n]), v |-> hdr[HeaderOrder[n]]]
  BY <1>7, <1>5, <1>4
<1>10. ASSUME NEW n \in 1 .. 10
       PROVE  t[n].k \in Accepts(HeaderFormat[n].conv) /\ Leftover(HeaderFormat[n].conv, t[n]) = << >>
  <2>1. CASE n = 1
    <3>1. t[1].k = "hash" /\ HeaderFormat[1].conv = "#"
      BY <1>8, FieldsAre
    <3> QED BY <2>1, <3>1 DEF Accepts, Leftover
  <2>2. CASE n # 1
    <3>1. n - 1 \in 1 .. 9 /\ 1 + (n - 1) = n /\ (n - 1) + 1 = n
      BY <2>2
    <3> DEFINE f == HeaderOrder[n - 1]
    <3>2. t[n].k = KindOf(f)
      BY <3>1, <1>9
    <3>3. \A i \in 1 .. 9 :
            \/ KindOf(HeaderOrder[i]) = "int" /\ HeaderFormat[i + 1].conv = "d"
            \/ KindOf(HeaderOrder[i]) = "real" /\ HeaderFormat[i + 1].conv = "f"
            \/ KindOf(HeaderOrder[i]) = "junk" /\ HeaderFormat[i + 1].conv = "c"
      BY FieldIs
    <3>4. \/ t[n].k = "int" /\ HeaderFormat[n].conv = "d"
          \/ t[n].k = "real" /\ HeaderFormat[n].conv = "f"
          \/ t[n].k = "junk" /\ HeaderFormat[n].conv = "c"
      BY <3>1, <3>2, <3>3
    <3> QED BY <3>4 DEF Accepts, Leftover, Kinds
  <2> QED BY <2>1, <2>2
<1>11. ASSUME NEW n \in 2 .. 10
       PROVE  t[n].v = hdr[HeaderFormat[n].name]
  <2>1. n - 1 \in 1 .. 9 /\ 1 + (n - 1) = n /\ (n - 1) + 1 = n
    OBVIOUS
  <2> QED BY <2>1, <1>9, <1>1
<1> QED BY <1>7, <1>10, <1>11 DEF t

\* A line of a bin is its number and a sample of every channel.
LEMMA BinTokensAre ==
  ASSUME NEW cube \in Seq(Seq(Int)), NEW bins \in Int,
         \A ch \in DOMAIN cube : DOMAIN cube[ch] = 1 .. bins
  PROVE  LET line == Len(cube) + 1
             t == BinTokens(cube, bins)
         IN  /\ t \in Seq(Token)
             /\ Len(t) = Positive(bins) * line
             /\ \A bn \in 0 .. Positive(bins) - 1 :
                  /\ bn * line + 1 \in 1 .. Len(t)
                  /\ t[bn * line + 1] = [k |-> "int", v |-> bn + 1]
                  /\ \A ch \in 1 .. Len(cube) :
                       /\ bn * line + 1 + ch \in 1 .. Len(t)
                       /\ t[bn * line + 1 + ch] = [k |-> "real", v |-> cube[ch][bn + 1]]
<1> DEFINE line == Len(cube) + 1
           m == Positive(bins)
           t == BinTokens(cube, bins)
           Tok(q, r) == IF r = 0 THEN [k |-> "int", v |-> q + 1] ELSE [k |-> "real", v |-> cube[r][q + 1]]
<1>1. line \in Nat \ {0} /\ m \in Nat /\ Len(cube) \in Nat /\ DOMAIN cube = 1 .. Len(cube)
  BY DEF Positive
<1>2. 1 .. bins * line = 1 .. m * line /\ m * line \in Nat
  <2>1. CASE bins >= 1
    BY <2>1, <1>1 DEF Positive
  <2>2. CASE bins < 1
    <3>1. m * line = 0
      BY <2>2, <1>1 DEF Positive
    <3>2. 0 - bins \in Nat
      BY <2>2
    <3>3. (0 - bins) * line \in Nat /\ bins * line = 0 - ((0 - bins) * line)
      BY <3>2, <1>1
    <3>4. bins * line <= 0
      BY <3>3
    <3>5. bins * line \in Int
      BY <1>1
    <3> DEFINE x == bins * line
               y == m * line
    <3>6. x \in Int /\ x <= 0 /\ y = 0
      BY <3>1, <3>4, <3>5
    <3> HIDE DEF x, y, m, line
    <3>7. 1 .. x = 1 .. y /\ y \in Nat
      BY <3>6
    <3> QED BY <3>7 DEF x, y
  <2> QED BY <2>1, <2>2
<1>3. t = [n \in 1 .. m * line |-> Tok((n - 1) \div line, (n - 1) % line)]
  BY <1>2, Zenon DEF BinTokens
<1>4. ASSUME NEW q \in 0 .. m - 1, NEW r \in 0 .. line - 1
      PROVE  /\ q * line + 1 + r \in 1 .. m * line
             /\ t[q * line + 1 + r] = Tok(q, r)
             /\ Tok(q, r) \in Token
  <2> HIDE DEF t, Tok, line, m
  <2>1. q \in Nat /\ q + 1 <= m /\ m \in Nat /\ line \in Nat \ {0} /\ r \in Nat /\ r < line /\ q + 1 \in Nat
    BY <1>1
  <2>2. (q + 1) * line <= m * line
    BY <2>1, TimesIsMonotonic
  <2>3. (q + 1) * line = q * line + line /\ q * line \in Nat /\ m * line \in Nat
    BY <2>1
  <2>4. q * line + 1 + r \in 1 .. m * line /\ (q * line + 1 + r) - 1 = q * line + r
    <3> DEFINE x == q * line
               y == m * line
    <3>1. x \in Nat /\ y \in Nat /\ x + line <= y
      BY <2>2, <2>3
    <3> HIDE DEF x, y
    <3>2. x + 1 + r \in 1 .. y /\ (x + 1 + r) - 1 = x + r
      BY <3>1, <2>1
    <3> QED BY <3>2 DEF x, y
  <2>5. (q * line + r) \div line = q /\ (q * line + r) % line = r
    BY <2>1, Division
  <2>6. t[q * line + 1 + r] = Tok(q, r)
    BY <1>3, <2>4, <2>5, Zenon
  <2>7. Tok(q, r) \in Token
    <3>1. CASE r = 0
      BY <3>1, <2>1 DEF Tok, Token, Kinds
    <3>2. CASE r # 0
      <4>1. r \in 1 .. Len(cube)
        BY <3>2, <2>1, <1>1 DEF line
      <4>2. m = bins
        BY <2>1 DEF m, Positive
      <4>3. q + 1 \in DOMAIN cube[r]
        BY <4>1, <4>2, <2>1, <1>1
      <4>4. cube[r] \in Seq(Int)
        BY <4>1
      <4>5. cube[r][q + 1] \in Int
        BY <4>3, <4>4
      <4> QED BY <4>5, <3>2 DEF Tok, Token, Kinds
    <3> QED BY <3>1, <3>2
  <2> QED BY <2>4, <2>6, <2>7
<1>5. \A n \in 1 .. m * line : t[n] \in Token
  <2> SUFFICES ASSUME NEW n \in 1 .. m * line PROVE t[n] \in Token
    OBVIOUS
  <2> DEFINE q == (n - 1) \div line
             r == (n - 1) % line
  <2> HIDE DEF t, line, m
  <2>1. n \in Nat /\ n - 1 \in Nat /\ line \in Nat \ {0} /\ m \in Nat
    BY <1>1, <1>2
  <2>2. q \in Nat /\ r \in 0 .. line - 1 /\ n - 1 = q * line + r
    BY <2>1, Rest
  <2> HIDE DEF q, r
  <2>3. q < m
    <3> SUFFICES ASSUME m <= q PROVE FALSE
      BY <2>1, <2>2
    <3>1. m * line <= q * line
      BY <2>1, <2>2, TimesIsMonotonic
    <3> DEFINE x == q * line
               y == m * line
    <3>2. x \in Nat /\ y \in Nat /\ y <= x /\ n - 1 = x + r /\ n <= y
      BY <3>1, <2>1, <2>2, <1>2
    <3> HIDE DEF x, y
    <3> QED BY <3>2, <2>1, <2>2
  <2>4. q \in 0 .. m - 1
    BY <2>1, <2>2, <2>3
  <2>5. q * line + 1 + r = n
    <3> DEFINE x == q * line
    <3>1. x \in Nat /\ n - 1 = x + r
      BY <2>1, <2>2
    <3> HIDE DEF x
    <3>2. x + 1 + r = n
      BY <3>1, <2>1, <2>2
    <3> QED BY <3>2 DEF x
  <2> QED BY <2>2, <2>4, <2>5, <1>4
<1>6. t \in Seq(Token) /\ Len(t) = m * line
  <2> DEFINE e(n) == Tok((n - 1) \div line, (n - 1) % line)
  <2>1. \A n \in 1 .. m * line : e(n) \in Token
    BY <1>3, <1>5, Zenon
  <2> HIDE DEF e, line, m, t, Tok
  <2>2. t = [n \in 1 .. m * line |-> e(n)]
    BY <1>3, Zenon DEF e
  <2> QED BY <2>1, <2>2, <1>2, IsASeq
<1>7. ASSUME NEW bn \in 0 .. m - 1
      PROVE  /\ bn * line + 1 \in 1 .. Len(t)
             /\ t[bn * line + 1] = [k |-> "int", v |-> bn + 1]
             /\ \A ch \in 1 .. Len(cube) :
                  /\ bn * line + 1 + ch \in 1 .. Len(t)
                  /\ t[bn * line + 1 + ch] = [k |-> "real", v |-> cube[ch][bn + 1]]
  <2>1. 0 \in 0 .. line - 1 /\ \A ch \in 1 .. Len(cube) : ch \in 0 .. line - 1 /\ ch # 0
    BY <1>1
  <2>2. bn * line + 1 + 0 = bn * line + 1
    BY <1>1
  <2>3. Tok(bn, 0) = [k |-> "int", v |-> bn + 1]
    OBVIOUS
  <2>4. \A ch \in 1 .. Len(cube) : Tok(bn, ch) = [k |-> "real", v |-> cube[ch][bn + 1]]
    BY <2>1
  <2> HIDE DEF Tok, t, line, m
  <2>5. bn * line + 1 \in 1 .. Len(t) /\ t[bn * line + 1] = [k |-> "int", v |-> bn + 1]
    BY <2>1, <2>2, <2>3, <1>4, <1>6
  <2>6. \A ch \in 1 .. Len(cube) :
                  /\ bn * line + 1 + ch \in 1 .. Len(t)
                  /\ t[bn * line + 1 + ch] = [k |-> "real", v |-> cube[ch][bn + 1]]
    BY <2>1, <2>4, <1>4, <1>6
  <2> QED BY <2>5, <2>6
<1> QED BY <1>6, <1>7

\* A sub-integration is its header and then its bins.
LEMMA SubintTokensAre ==
  ASSUME NEW sub, IsWhole(sub)
  PROVE  LET line == Len(sub.cube) + 1
             m == Positive(sub.hdr.numbins)
             t == SubintTokens(sub)
         IN  /\ t \in Seq(Token)
             /\ Len(t) = 10 + m * line
             /\ \A n \in 1 .. 10 : n \in 1 .. Len(t) /\ t[n] = HeaderTokens(sub.hdr)[n]
             /\ \A bn \in 0 .. m - 1 :
                  /\ 10 + bn * line + 1 \in 1 .. Len(t)
                  /\ t[10 + bn * line + 1] = [k |-> "int", v |-> bn + 1]
                  /\ \A ch \in 1 .. Len(sub.cube) :
                       /\ 10 + bn * line + 1 + ch \in 1 .. Len(t)
                       /\ t[10 + bn * line + 1 + ch] = [k |-> "real", v |-> sub.cube[ch][bn + 1]]
<1> DEFINE line == Len(sub.cube) + 1
           m == Positive(sub.hdr.numbins)
           h == HeaderTokens(sub.hdr)
           u == BinTokens(sub.cube, sub.hdr.numbins)
           t == SubintTokens(sub)
<1>1. /\ sub.hdr \in [FieldNames -> Int] /\ sub.cube \in Seq(Seq(Int)) /\ sub.hdr.numbins \in Int
      /\ \A ch \in DOMAIN sub.cube : DOMAIN sub.cube[ch] = 1 .. sub.hdr.numbins
  BY DEF IsWhole, Subints, FieldNames
<1>2. line \in Nat \ {0} /\ m \in Nat
  BY <1>1 DEF Positive
<1>3. h \in Seq(Token) /\ Len(h) = 10
  BY <1>1, HeaderTokensAre
<1>4. /\ u \in Seq(Token) /\ Len(u) = m * line
      /\ \A bn \in 0 .. m - 1 :
           /\ bn * line + 1 \in 1 .. Len(u)
           /\ u[bn * line + 1] = [k |-> "int", v |-> bn + 1]
           /\ \A ch \in 1 .. Len(sub.cube) :
                /\ bn * line + 1 + ch \in 1 .. Len(u)
                /\ u[bn * line + 1 + ch] = [k |-> "real", v |-> sub.cube[ch][bn + 1]]
  BY <1>1, BinTokensAre
<1>5. t = h \o u
  BY DEF SubintTokens
<1> HIDE DEF h, u, t
<1>6. /\ t \in Seq(Token) /\ Len(t) = 10 + m * line
      /\ \A n \in 1 .. 10 : t[n] = h[n]
      /\ \A n \in 1 .. Len(u) : t[10 + n] = u[n]
  <2>1. /\ h \o u \in Seq(Token) /\ Len(h \o u) = Len(h) + Len(u)
        /\ \A n \in 1 .. Len(h) : (h \o u)[n] = h[n]
        /\ \A n \in 1 .. Len(u) : (h \o u)[Len(h) + n] = u[n]
    <3>1. h \in Seq(Token) /\ u \in Seq(Token)
      BY <1>3, <1>4
    <3> HIDE DEF m, line
    <3> QED BY <3>1, JoinedElement
  <2> QED BY <2>1, <1>3, <1>4, <1>5
<1> HIDE DEF m, line
<1>7. m * line \in Nat
  BY <1>2
<1>8. Len(t) \in Nat /\ Len(u) \in Nat /\ Len(t) = 10 + Len(u)
  BY <1>4, <1>6, <1>7
<1>9. ASSUME NEW bn \in 0 .. m - 1
      PROVE  /\ 10 + bn * line + 1 \in 1 .. Len(t)
             /\ t[10 + bn * line + 1] = [k |-> "int", v |-> bn + 1]
             /\ \A ch \in 1 .. Len(sub.cube) :
                  /\ 10 + bn * line + 1 + ch \in 1 .. Len(t)
                  /\ t[10 + bn * line + 1 + ch] = [k |-> "real", v |-> sub.cube[ch][bn + 1]]
  <2> DEFINE x == bn * line
  <2>1. x \in Nat
    BY <1>2
  <2>2. /\ x + 1 \in 1 .. Len(u)
        /\ u[x + 1] = [k |-> "int", v |-> bn + 1]
        /\ \A ch \in 1 .. Len(sub.cube) :
             /\ x + 1 + ch \in 1 .. Len(u)
             /\ u[x + 1 + ch] = [k |-> "real", v |-> sub.cube[ch][bn + 1]]
    BY <1>4
  <2> HIDE DEF x
  <2>3. 10 + x + 1 = 10 + (x + 1) /\ \A ch \in 1 .. Len(sub.cube) : 10 + x + 1 + ch = 10 + (x + 1 + ch)
    BY <2>1, <1>1
  <2>4. \A n \in 1 .. Len(u) : 10 + n \in 1 .. Len(t)
    BY <1>8
  <2>5. /\ 10 + x + 1 \in 1 .. Len(t)
        /\ t[10 + x + 1] = [k |-> "int", v |-> bn + 1]
    BY <2>2, <2>3, <2>4, <1>6
  <2>6. \A ch \in 1 .. Len(sub.cube) :
             /\ 10 + x + 1 + ch \in 1 .. Len(t)
             /\ t[10 + x + 1 + ch] = [k |-> "real", v |-> sub.cube[ch][bn + 1]]
    <3> TAKE ch \in 1 .. Len(sub.cube)
    <3> DEFINE n == x + 1 + ch
    <3>1. n \in 1 .. Len(u) /\ u[n] = [k |-> "real", v |-> sub.cube[ch][bn + 1]] /\ 10 + x + 1 + ch = 10 + n
      BY <2>2, <2>3
    <3> HIDE DEF n
    <3>2. 10 + n \in 1 .. Len(t) /\ t[10 + n] = u[n]
      BY <3>1, <2>4, <1>6
    <3> QED BY <3>1, <3>2
  <2> QED BY <2>5, <2>6 DEF x
<1>10. \A n \in 1 .. 10 : n \in 1 .. Len(t)
  BY <1>8
<1> QED BY <1>6, <1>9, <1>10 DEF t, h, m, line

\* A file of one shape: where its sub-integrations begin, and their bins.
SubintLength(nb, nc) == 10 + Positive(nb) * (nc + 1)

StartOf(nb, nc, s) == (s - 1) * SubintLength(nb, nc)

BinOf(nb, nc, s, bn) == StartOf(nb, nc, s) + 10 + bn * (nc + 1)

OneShape(subs, nb, nc) ==
  /\ subs \in Seq(Subints)
  /\ \A s \in 1 .. Len(subs) : IsWhole(subs[s]) /\ subs[s].hdr.numbins = nb /\ Len(subs[s].cube) = nc

\* Where the tokens of such a file are.
Laid(r, subs, nb, nc) ==
  /\ r \in Seq(Token)
  /\ Len(r) = Len(subs) * SubintLength(nb, nc)
  /\ \A s \in 1 .. Len(subs) :
       /\ \A n \in 1 .. 10 : r[StartOf(nb, nc, s) + n] = HeaderTokens(subs[s].hdr)[n]
       /\ \A bn \in 0 .. Positive(nb) - 1 :
            /\ r[BinOf(nb, nc, s, bn) + 1] = [k |-> "int", v |-> bn + 1]
            /\ \A ch \in 1 .. nc :
                 r[BinOf(nb, nc, s, bn) + 1 + ch] = [k |-> "real", v |-> subs[s].cube[ch][bn + 1]]

\* Render writes them there.
LEMMA RenderIs ==
  ASSUME NEW nb \in Int, NEW nc \in Nat, NEW subs, OneShape(subs, nb, nc)
  PROVE  Laid(Render(subs), subs, nb, nc)
<1> DEFINE w == SubintLength(nb, nc)
           t == [s \in DOMAIN subs |-> SubintTokens(subs[s])]
           r == Render(subs)
<1>1. Len(subs) \in Nat /\ DOMAIN subs = 1 .. Len(subs)
  BY DEF OneShape
<1>2. w \in Nat
  BY DEF SubintLength, Positive
<1>3. \A s \in 1 .. Len(subs) : SubintTokens(subs[s]) \in Seq(Token) /\ Len(SubintTokens(subs[s])) = w
  BY SubintTokensAre DEF OneShape, SubintLength
<1>4. t \in Seq(Seq(Token)) /\ Len(t) = Len(subs) /\ \A s \in 1 .. Len(subs) : t[s] = SubintTokens(subs[s])
  <2> DEFINE e(s) == SubintTokens(subs[s])
  <2>1. \A s \in 1 .. Len(subs) : e(s) \in Seq(Token)
    BY <1>3
  <2>2. t = [s \in 1 .. Len(subs) |-> e(s)]
    BY <1>1
  <2> HIDE DEF e, t
  <2>3. t \in Seq(Seq(Token)) /\ Len(t) = Len(subs) /\ \A s \in 1 .. Len(subs) : t[s] = e(s)
    BY <2>1, <2>2, <1>1, IsASeq
  <2> QED BY <2>3 DEF e
<1>5. r = FlattenSeq(t)
  BY Zenon DEF Render
<1> HIDE DEF w, t, r
<1>6. /\ r \in Seq(Token) /\ Len(r) = Len(subs) * w
      /\ \A s \in 1 .. Len(subs) : \A p \in 1 .. w : r[(s - 1) * w + p] = SubintTokens(subs[s])[p]
  <2>1. \A s \in 1 .. Len(t) : Len(t[s]) = w
    BY <1>3, <1>4
  <2>2. /\ FlattenSeq(t) \in Seq(Token) /\ Len(FlattenSeq(t)) = Len(t) * w
        /\ \A i \in 1 .. Len(t) : \A p \in 1 .. w : FlattenSeq(t)[(i - 1) * w + p] = t[i][p]
    BY <2>1, <1>2, <1>4, FlattenEven
  <2> QED BY <2>2, <1>4, <1>5
<1>7. ASSUME NEW s \in 1 .. Len(subs)
      PROVE  /\ \A n \in 1 .. 10 : r[StartOf(nb, nc, s) + n] = HeaderTokens(subs[s].hdr)[n]
             /\ \A bn \in 0 .. Positive(nb) - 1 :
                  /\ r[BinOf(nb, nc, s, bn) + 1] = [k |-> "int", v |-> bn + 1]
                  /\ \A ch \in 1 .. nc :
                       r[BinOf(nb, nc, s, bn) + 1 + ch] = [k |-> "real", v |-> subs[s].cube[ch][bn + 1]]
  <2> DEFINE x == (s - 1) * w
             u == SubintTokens(subs[s])
  <2>1. /\ IsWhole(subs[s]) /\ subs[s].hdr.numbins = nb /\ Len(subs[s].cube) = nc /\ Len(u) = w
    BY <1>3 DEF OneShape
  <2>2. /\ \A n \in 1 .. 10 : n \in 1 .. w /\ u[n] = HeaderTokens(subs[s].hdr)[n]
        /\ \A bn \in 0 .. Positive(nb) - 1 :
                  /\ 10 + bn * (nc + 1) + 1 \in 1 .. w
                  /\ u[10 + bn * (nc + 1) + 1] = [k |-> "int", v |-> bn + 1]
                  /\ \A ch \in 1 .. nc :
                       /\ 10 + bn * (nc + 1) + 1 + ch \in 1 .. w
                       /\ u[10 + bn * (nc + 1) + 1 + ch] = [k |-> "real", v |-> subs[s].cube[ch][bn + 1]]
    <3> DEFINE sub == subs[s]
    <3>1. IsWhole(sub) /\ sub.hdr.numbins = nb /\ Len(sub.cube) = nc /\ Len(SubintTokens(sub)) = w
      BY <2>1
    <3> HIDE DEF sub
    <3>2. LET line == Len(sub.cube) + 1
             m == Positive(sub.hdr.numbins)
             v == SubintTokens(sub)
         IN  /\ \A n \in 1 .. 10 : n \in 1 .. Len(v) /\ v[n] = HeaderTokens(sub.hdr)[n]
             /\ \A bn \in 0 .. m - 1 :
                  /\ 10 + bn * line + 1 \in 1 .. Len(v)
                  /\ v[10 + bn * line + 1] = [k |-> "int", v |-> bn + 1]
                  /\ \A ch \in 1 .. Len(sub.cube) :
                       /\ 10 + bn * line + 1 + ch \in 1 .. Len(v)
                       /\ v[10 + bn * line + 1 + ch] = [k |-> "real", v |-> sub.cube[ch][bn + 1]]
      BY <3>1, SubintTokensAre, Zenon
    <3>3. /\ \A n \in 1 .. 10 : n \in 1 .. w /\ SubintTokens(sub)[n] = HeaderTokens(sub.hdr)[n]
          /\ \A bn \in 0 .. Positive(nb) - 1 :
               /\ 10 + bn * (nc + 1) + 1 \in 1 .. w
               /\ SubintTokens(sub)[10 + bn * (nc + 1) + 1] = [k |-> "int", v |-> bn + 1]
               /\ \A ch \in 1 .. nc :
                    /\ 10 + bn * (nc + 1) + 1 + ch \in 1 .. w
                    /\ SubintTokens(sub)[10 + bn * (nc + 1) + 1 + ch] = [k |-> "real", v |-> sub.cube[ch][bn + 1]]
      BY <3>1, <3>2, Zenon
    <3> QED BY <3>3, Zenon DEF sub
  <2>3. \A p \in 1 .. w : r[x + p] = u[p]
    BY <1>6
  <2>4. x = StartOf(nb, nc, s)
    BY DEF StartOf, w
  <2>5. x \in Nat
    BY <1>1, <1>2
  <2> HIDE DEF x, u
  <2>6. \A n \in 1 .. 10 : r[x + n] = HeaderTokens(subs[s].hdr)[n]
    BY <2>2, <2>3
  <2>7. ASSUME NEW bn \in 0 .. Positive(nb) - 1
        PROVE  /\ r[x + 10 + bn * (nc + 1) + 1] = [k |-> "int", v |-> bn + 1]
               /\ \A ch \in 1 .. nc :
                    r[x + 10 + bn * (nc + 1) + 1 + ch] = [k |-> "real", v |-> subs[s].cube[ch][bn + 1]]
    <3> DEFINE y == bn * (nc + 1)
    <3>1. y \in Nat
      OBVIOUS
    <3>2. /\ 10 + y + 1 \in 1 .. w
          /\ u[10 + y + 1] = [k |-> "int", v |-> bn + 1]
          /\ \A ch \in 1 .. nc :
               /\ 10 + y + 1 + ch \in 1 .. w
               /\ u[10 + y + 1 + ch] = [k |-> "real", v |-> subs[s].cube[ch][bn + 1]]
      BY <2>2
    <3> HIDE DEF y
    <3>3. x + 10 + y + 1 = x + (10 + y + 1) /\ \A ch \in 1 .. nc : x + 10 + y + 1 + ch = x + (10 + y + 1 + ch)
      BY <2>5, <3>1
    <3>4. r[x + 10 + y + 1] = [k |-> "int", v |-> bn + 1]
      BY <2>3, <3>2, <3>3
    <3>5. \A ch \in 1 .. nc : r[x + 10 + y + 1 + ch] = [k |-> "real", v |-> subs[s].cube[ch][bn + 1]]
      <4> TAKE ch \in 1 .. nc
      <4> DEFINE p == 10 + y + 1 + ch
      <4>1. p \in 1 .. w /\ u[p] = [k |-> "real", v |-> subs[s].cube[ch][bn + 1]] /\ x + 10 + y + 1 + ch = x + p
        BY <3>2, <3>3
      <4> HIDE DEF p
      <4>2. r[x + p] = u[p]
        BY <4>1, <2>3
      <4> QED BY <4>1, <4>2
    <3> QED BY <3>4, <3>5 DEF y
  <2> QED BY <2>4, <2>6, <2>7 DEF BinOf
<1> QED BY <1>6, <1>7 DEF r, w, Laid

-----------------------------------------------------------------------------
(* Scanning a header *)

\* What is left of the file after p tokens.
Left(p) == SubSeq(input.prof, p + 1, Len(input.prof))

Over(p) == p >= Len(input.prof)

\* The header that stands after the first p tokens, if the file goes on so far.
HeaderAt(p, hdr) ==
  \A n \in 1 .. 10 : ~Over(p + n - 1) => input.prof[p + n] = HeaderTokens(hdr)[n]

\* readHeader after fld - 1 conversions.
Scanned(p, hdr) ==
  /\ ~feof
  /\ fld \in 1 .. 11
  /\ file = Left(p + fld - 1)
  /\ \A n \in 2 .. fld - 1 : fh[HeaderFormat[n].name] = hdr[HeaderFormat[n].name]

\* What is known of the input.
LEMMA InputIs ==
  ASSUME TypeOK
  PROVE  /\ input.prof \in Seq(Token) /\ input.numchans \in Int /\ Len(input.prof) \in Nat
         /\ input.subints \in Seq(Subints)
         /\ \A s \in DOMAIN input.subints : IsWhole(input.subints[s])
<1>1. input \in Inputs
  BY DEF TypeOK
<1>2. /\ input.prof \in Seq(Token) /\ input.numchans \in Int /\ input.subints \in Seq(Subints)
      /\ \A s \in DOMAIN input.subints : \A ch \in DOMAIN input.subints[s].cube :
         DOMAIN input.subints[s].cube[ch] = 1 .. input.subints[s].hdr.numbins
  BY <1>1, InputsAssumption, Zenon DEF Subints
<1>3. \A s \in DOMAIN input.subints : input.subints[s] \in Subints
  BY <1>2
<1> QED BY <1>2, <1>3 DEF IsWhole

\* What is left is nothing, or a token and what is left after it.
LEMMA LeftIs ==
  ASSUME NEW p \in Nat, input.prof \in Seq(Token)
  PROVE  /\ Over(p) <=> Left(p) = << >>
         /\ ~Over(p) => /\ Head(Left(p)) = input.prof[p + 1]
                        /\ input.prof[p + 1] \in Token
                        /\ Tail(Left(p)) = Left(p + 1)
<1> DEFINE s == input.prof
<1>1. s \in Seq(Token) /\ Len(s) \in Nat
  OBVIOUS
<1> HIDE DEF s
<1>2. (p >= Len(s)) <=> SubSeq(s, p + 1, Len(s)) = << >>
  <2> DEFINE u == SubSeq(s, p + 1, Len(s))
  <2>1. u \in Seq(Token) /\ Len(u) = IF p + 1 <= Len(s) THEN Len(s) - p ELSE 0
    BY <1>1
  <2>2. u = << >> <=> Len(u) = 0
    <3> HIDE DEF u
    <3> QED BY <2>1
  <2> HIDE DEF u
  <2> QED BY <2>1, <2>2, <1>1 DEF u
<1>3. CASE p < Len(s)
  <2> DEFINE u == SubSeq(s, p + 1, Len(s))
             v == SubSeq(s, p + 2, Len(s))
  <2>1. u \in Seq(Token) /\ Len(u) = Len(s) - p /\ \A n \in 1 .. Len(s) - p : u[n] = s[p + n]
    BY <1>1, <1>3
  <2>2. v \in Seq(Token) /\ Len(v) = Len(s) - p - 1 /\ \A n \in 1 .. Len(s) - p - 1 : v[n] = s[p + 1 + n]
    BY <1>1, <1>3
  <2> HIDE DEF u, v
  <2>3. u # << >> /\ Head(u) = s[p + 1] /\ s[p + 1] \in Token
    BY <2>1, <1>1, <1>3
  <2>4. Tail(u) \in Seq(Token) /\ Len(Tail(u)) = Len(v) /\ \A n \in 1 .. Len(v) : Tail(u)[n] = v[n]
    BY <2>1, <2>2, <2>3, <1>1, <1>3
  <2>5. Tail(u) = v
    BY <2>4, <2>2, SameSeq
  <2>6. (p + 1) + 1 = p + 2
    OBVIOUS
  <2> QED BY <2>3, <2>5, <2>6, <1>2, <1>3, <1>1 DEF u, v, s, Left, Over
<1>4. CASE ~(p < Len(s))
  BY <1>2, <1>4, <1>1 DEF s, Left, Over
<1> QED BY <1>3, <1>4

\* A header token is taken whole by its conversion.
LEMMA FieldFits ==
  ASSUME TypeOK, NEW p \in Nat, NEW hdr \in [FieldNames -> Int], HeaderAt(p, hdr),
         fld \in 1 .. 10, file = Left(p + fld - 1)
  PROVE  /\ ~Over(p + fld - 1) =>
              /\ Fits(HeaderFormat[fld].conv)
              /\ AfterConversion(HeaderFormat[fld].conv) = Left(p + fld)
              /\ fld \in 2 .. 10 => Head(file).v = hdr[HeaderFormat[fld].name]
         /\ Over(p + fld - 1) <=> AtEnd
<1>1. p + fld - 1 \in Nat /\ (p + fld - 1) + 1 = p + fld
  OBVIOUS
<1>2. input.prof \in Seq(Token)
  BY InputIs
<1>3. Over(p + fld - 1) <=> AtEnd
  BY <1>1, <1>2, LeftIs DEF AtEnd
<1>4. CASE ~Over(p + fld - 1)
  <2> DEFINE t == HeaderTokens(hdr)[fld]
             conv == HeaderFormat[fld].conv
  <2>1. Head(file) = input.prof[p + fld] /\ Tail(file) = Left(p + fld)
    BY <1>1, <1>2, <1>4, LeftIs
  <2>2. Head(file) = t
    BY <2>1, <1>4 DEF HeaderAt
  <2>3. t.k \in Accepts(conv) /\ Leftover(conv, t) = << >>
    BY HeaderTokensAre
  <2>4. fld \in 2 .. 10 => t.v = hdr[HeaderFormat[fld].name]
    BY HeaderTokensAre
  <2> HIDE DEF t, conv
  <2>5. Fits(conv)
    BY <2>2, <2>3, <1>3, <1>4 DEF Fits
  <2>6. AfterConversion(conv) = << >> \o Left(p + fld)
    BY <2>1, <2>2, <2>3 DEF AfterConversion
  <2>7. Left(p + fld) \in Seq(Token)
    BY <1>2 DEF Left
  <2>8. << >> \o Left(p + fld) = Left(p + fld)
    <3> HIDE DEF Left
    <3> QED BY <2>7
  <2> QED BY <2>2, <2>4, <2>5, <2>6, <2>8, <1>3 DEF conv
<1> QED BY <1>3, <1>4

\* A field of the header is scanned.
LEMMA ScanField ==
  ASSUME TypeOK, NEW p \in Nat, NEW hdr \in [FieldNames -> Int], HeaderAt(p, hdr),
         Scanned(p, hdr), HeaderField, input' = input
  PROVE  /\ Scanned(p, hdr)'
         /\ \A f \in FieldNames : fh'[f] \in {fh[f], hdr[f]}
         /\ DOMAIN fh' = FieldNames
<1>1. /\ fld \in 1 .. 10 /\ fld' = fld + 1 /\ feof' = feof
      /\ Fits(HeaderFormat[fld].conv)
      /\ file' = AfterConversion(HeaderFormat[fld].conv)
      /\ fh' = [f \in FieldNames |->
              IF f = HeaderFormat[fld].name THEN Head(file).v ELSE fh[f]]
  BY FormatLength, Zenon DEF HeaderField
<1>2. file = Left(p + fld - 1) /\ ~feof
  BY Zenon DEF Scanned
<1>3. ~Over(p + fld - 1)
  BY <1>1, <1>2, FieldFits DEF Fits
<1>4. file' = Left(p + fld) /\ (fld \in 2 .. 10 => Head(file).v = hdr[HeaderFormat[fld].name])
  BY <1>1, <1>2, <1>3, FieldFits
<1>5. p + fld' - 1 = p + fld /\ fld' \in 1 .. 11
  BY <1>1
<1>6. Left(p + fld)' = Left(p + fld')
  BY Zenon DEF Left
<1>7. file' = SubSeq(input'.prof, (p + fld' - 1) + 1, Len(input'.prof))
  BY <1>4, <1>5 DEF Left
<1>8. HeaderFormat[1].name = ""  /\ "" \notin FieldNames
  BY DEF HeaderFormat, FieldNames
<1>9. \A f \in FieldNames : f = HeaderFormat[fld].name => Head(file).v = hdr[f]
  <2> SUFFICES ASSUME NEW f \in FieldNames, f = HeaderFormat[fld].name PROVE Head(file).v = hdr[f]
    OBVIOUS
  <2>1. fld # 1
    BY <1>8
  <2>2. fld \in 2 .. 10
    BY <2>1, <1>1
  <2> QED BY <2>2, <1>4
<1>10. \A f \in FieldNames : fh'[f] = IF f = HeaderFormat[fld].name THEN Head(file).v ELSE fh[f]
  BY <1>1, Zenon
<1>11. \A n \in 2 .. 10 : HeaderFormat[n].name \in FieldNames
  <2> SUFFICES ASSUME NEW n \in 2 .. 10 PROVE HeaderFormat[n].name \in FieldNames
    OBVIOUS
  <2>1. n - 1 \in 1 .. 9 /\ (n - 1) + 1 = n
    OBVIOUS
  <2> QED BY <2>1, FieldIs
<1>12. \A n \in 2 .. fld' - 1 : fh'[HeaderFormat[n].name] = hdr[HeaderFormat[n].name]
  <2> SUFFICES ASSUME NEW n \in 2 .. fld' - 1 PROVE fh'[HeaderFormat[n].name] = hdr[HeaderFormat[n].name]
    OBVIOUS
  <2>1. n \in 2 .. 10 /\ (n = fld \/ n \in 2 .. fld - 1)
    BY <1>1
  <2> DEFINE f == HeaderFormat[n].name
  <2>2. f \in FieldNames
    BY <2>1, <1>11
  <2>3. n # fld => fh[f] = hdr[f]
    BY <2>1 DEF Scanned
  <2>4. n = fld => f = HeaderFormat[fld].name
    OBVIOUS
  <2> HIDE DEF f
  <2>5. fh'[f] = hdr[f]
    BY <2>2, <2>3, <2>4, <1>9, <1>10
  <2> QED BY <2>5 DEF f
<1>13. Scanned(p, hdr)'
  BY <1>1, <1>2, <1>5, <1>7, <1>12, Zenon DEF Scanned, Left
<1>14. \A f \in FieldNames : fh'[f] \in {fh[f], hdr[f]}
  BY <1>9, <1>10
<1> QED BY <1>1, <1>13, <1>14

\* readHeader returns: all of the header is read, or the file is at its end.
LEMMA ScanReturn ==
  ASSUME TypeOK, NEW p \in Nat, NEW hdr \in [FieldNames -> Int], HeaderAt(p, hdr),
         Scanned(p, hdr), HeaderReturn
  PROVE  /\ feof' <=> Over(p + 10)
         /\ ~feof' => fh = hdr /\ file = Left(p + 10)
<1>1. /\ fld \in 1 .. 11 /\ file = Left(p + fld - 1) /\ ~feof
      /\ \A n \in 2 .. fld - 1 : fh[HeaderFormat[n].name] = hdr[HeaderFormat[n].name]
  BY Zenon DEF Scanned
<1>2. feof' = (feof \/ AtEnd)
  BY DEF HeaderReturn
<1>3. CASE fld = 11
  <2>1. p + fld - 1 = p + 10 /\ p + 10 \in Nat
    BY <1>3
  <2>2. Over(p + 10) <=> AtEnd
    BY <2>1, <1>1, InputIs, LeftIs DEF AtEnd
  <2>3. \A f \in FieldNames : \E n \in 2 .. 10 : f = HeaderFormat[n].name
    <3> SUFFICES ASSUME NEW f \in FieldNames PROVE \E n \in 2 .. 10 : f = HeaderFormat[n].name
      OBVIOUS
    <3>1. 2 \in 2 .. 10 /\ 3 \in 2 .. 10 /\ 4 \in 2 .. 10 /\ 5 \in 2 .. 10 /\ 6 \in 2 .. 10
          /\ 7 \in 2 .. 10 /\ 8 \in 2 .. 10 /\ 9 \in 2 .. 10 /\ 10 \in 2 .. 10
      OBVIOUS
    <3>2. \/ f = HeaderFormat[2].name \/ f = HeaderFormat[3].name \/ f = HeaderFormat[4].name
          \/ f = HeaderFormat[5].name \/ f = HeaderFormat[6].name \/ f = HeaderFormat[7].name
          \/ f = HeaderFormat[8].name \/ f = HeaderFormat[9].name \/ f = HeaderFormat[10].name
      BY FieldsAre DEF FieldNames
    <3> QED BY <3>1, <3>2, Zenon
  <2>4. \A f \in FieldNames : fh[f] = hdr[f]
    BY <1>1, <1>3, <2>3
  <2>5. fh \in [FieldNames -> Int]
    BY DEF TypeOK, ProfTypeOK
  <2>6. fh = hdr
    BY <2>4, <2>5
  <2> QED BY <1>1, <1>2, <2>1, <2>2, <2>6
<1>4. CASE fld # 11
  <2>1. fld \in 1 .. 10
    BY <1>1, <1>4
  <2>2. ~Fits(HeaderFormat[fld].conv)
    BY <2>1, FormatLength DEF HeaderReturn
  <2>3. Over(p + fld - 1) /\ AtEnd
    BY <2>1, <2>2, <1>1, FieldFits
  <2>4. Len(input.prof) \in Nat /\ p + fld - 1 <= p + 10
    BY <2>1, InputIs
  <2>5. Over(p + 10)
    BY <2>1, <2>3, <2>4 DEF Over
  <2> QED BY <1>2, <2>3, <2>5
<1> QED BY <1>3, <1>4

-----------------------------------------------------------------------------
(* The HDUs and the first header *)

First == input.subints[1].hdr

\* No operation of the reader is in progress but where main called it.
Quiet ==
  exit = "running" =>
    /\ call = "header" => pc \in {"sanity", "loop"}
    /\ call = "subs" => pc = "cols"

BeforeLoop == {"sanity", "create", "primary", "history", "par", "table"}

\* Of a complete file the first header is read first, and it is what the reader
\* has until the loop of PutSubint.
FirstInv ==
  exit = "running" /\ Complete(input) =>
    /\ pc = "sanity" /\ call = "header" => Scanned(0, First)
    /\ pc \in BeforeLoop /\ call = "none" => fh = First

\* A keyword says what the header says, or as much of it as a short holds.
Says(name, value, field) ==
  \/ value \in {Blank, field}
  \/ /\ name = "HISTORY" /\ ~IsShort(field)
     /\ (value - field) % (2 * (ShortMax + 1)) = 0

Describes(hdu) ==
  /\ Says(hdu.name, hdu.npol, First.pol)
  /\ Says(hdu.name, hdu.nbin, First.numbins)
  /\ Says(hdu.name, hdu.nchan, numchans)
  /\ Says(hdu.name, hdu.freq, First.freq)
  /\ hdu.name = "SUBINT" =>
       LET size == hdu.nbin * hdu.nchan * hdu.npol
       IN  IsLong(size) => width[19] = size

AllDescribe == \A h \in DOMAIN hdus : Describes(hdus[h])

NoSubint == \A h \in DOMAIN hdus : hdus[h].name # "SUBINT"

DescribedInv ==
  Complete(input) =>
    /\ exit = "running" /\ status = 0 /\ pc \notin Early =>
         /\ AllDescribe
         /\ pc \in BeforeLoop => NoSubint
    /\ exit = "ok" /\ disk = "complete" => AllDescribe

\* The reader changes neither main's place nor the input, and calls nothing.
LEMMA ReaderFrame ==
  ASSUME Reader
  PROVE  /\ exit = "running" /\ exit' = exit /\ pc' = pc /\ input' = input
         /\ numchans' = numchans /\ status' = status
         /\ call \in {"header", "subs"} /\ call' \in {call, "none"}
         /\ call = "header" => HeaderField \/ HeaderReturn
         /\ call = "subs" => ReadIndex \/ ReadSample \/ EndBin \/ SubsReturn
  BY DEF Reader, ReaderStep, HeaderField, HeaderReturn, ReadIndex, ReadSample, EndBin, SubsReturn, runVars

LEMMA NextQuiet == TypeOK /\ Quiet /\ [Next]_vars => Quiet'
<1> SUFFICES ASSUME TypeOK, Quiet, [Next]_vars, exit' = "running"
             PROVE  /\ call' = "header" => pc' \in {"sanity", "loop"}
                    /\ call' = "subs" => pc' = "cols"
  BY DEF Quiet
<1>1. CASE Launch
  BY <1>1 DEF Launch
<1>2. CASE RemoveOutput
  BY <1>2 DEF RemoveOutput
<1>3. CASE OpenProf
  BY <1>3 DEF OpenProf, At
<1>4. CASE SanityCheck \/ CreateFITS \/ PrimaryHeader \/ PutHistoryTable \/ PutPar \/ CreateSubint
  BY <1>4 DEF SanityCheck, CreateFITS, PrimaryHeader, PutHistoryTable, PutPar, CreateSubint, At, profVars
<1>5. CASE BeginSubint
  BY <1>5 DEF BeginSubint, At, CallReadSubs, profVars
<1>6. CASE WriteCol \/ EndSubints \/ CloseFITS
  BY <1>6 DEF WriteCol, EndSubints, CloseFITS, At, profVars
<1>7. CASE NextSubint
  BY <1>7 DEF NextSubint, At, CallReadHeader
<1>8. CASE HeapOverrun
  BY <1>8 DEF HeapOverrun
<1>9. CASE Reader
  BY <1>9, ReaderFrame DEF Quiet
<1>10. CASE UNCHANGED vars
  BY <1>10 DEF vars, profVars, Quiet
<1> QED
  BY <1>1, <1>2, <1>3, <1>4, <1>5, <1>6, <1>7, <1>8, <1>9, <1>10 DEF Next, Program, Operator

\* A complete file begins with its first header, and goes on after it.
LEMMA CompleteBegins ==
  ASSUME TypeOK, Complete(input)
  PROVE  /\ First \in [FieldNames -> Int]
         /\ HeaderAt(0, First)
         /\ ~Over(10)
<1> DEFINE subs == input.subints
           t == [i \in DOMAIN subs |-> SubintTokens(subs[i])]
<1>1. /\ subs \in Seq(Subints) /\ subs # << >> /\ input.prof = Render(subs)
      /\ \A s \in DOMAIN subs : IsWhole(subs[s]) /\ subs[s].hdr.numbins >= 1
  BY InputIs DEF Complete
<1> HIDE DEF subs
<1>2. Len(subs) \in Nat /\ DOMAIN subs = 1 .. Len(subs) /\ 1 \in DOMAIN subs /\ subs[1] \in Subints
  BY <1>1
<1>3. \A s \in DOMAIN subs : SubintTokens(subs[s]) \in Seq(Token)
  BY <1>1, SubintTokensAre, Zenon
<1>4. t \in Seq(Seq(Token)) /\ Len(t) = Len(subs) /\ t # << >> /\ t[1] = SubintTokens(subs[1])
  <2> DEFINE e(s) == SubintTokens(subs[s])
  <2>1. \A s \in 1 .. Len(subs) : e(s) \in Seq(Token)
    BY <1>2, <1>3
  <2>2. t = [s \in 1 .. Len(subs) |-> e(s)]
    BY <1>2
  <2> HIDE DEF e, t
  <2>3. t \in Seq(Seq(Token)) /\ Len(t) = Len(subs) /\ \A s \in 1 .. Len(subs) : t[s] = e(s)
    BY <2>1, <2>2, <1>2, IsASeq
  <2>4. t # << >> /\ 1 \in 1 .. Len(subs)
    BY <2>3, <1>2
  <2> QED BY <2>3, <2>4 DEF e
<1>5. input.prof = FlattenSeq(t)
  BY <1>1, Zenon DEF Render
<1> HIDE DEF t
<1> DEFINE u == SubintTokens(subs[1])
<1>6. /\ Len(input.prof) >= Len(u)
      /\ \A p \in 1 .. Len(u) : input.prof[p] = u[p]
  BY <1>4, <1>5, FlattenBegins
<1>7. LET line == Len(subs[1].cube) + 1
          m == Positive(subs[1].hdr.numbins)
      IN  /\ Len(u) = 10 + m * line
          /\ \A n \in 1 .. 10 : n \in 1 .. Len(u) /\ u[n] = HeaderTokens(subs[1].hdr)[n]
  BY <1>1, <1>2, SubintTokensAre, Zenon
<1> HIDE DEF u
<1>8. Len(u) > 10
  <2> DEFINE line == Len(subs[1].cube) + 1
             m == Positive(subs[1].hdr.numbins)
  <2>1. subs[1].hdr.numbins \in Int /\ subs[1].hdr.numbins >= 1 /\ Len(subs[1].cube) \in Nat
    <3>1. subs[1].hdr \in [FieldNames -> Int] /\ subs[1].cube \in Seq(Seq(Int))
      BY <1>2 DEF Subints
    <3>2. "numbins" \in FieldNames
      BY DEF FieldNames
    <3> QED BY <1>1, <1>2, <3>1, <3>2
  <2>2. m \in Nat \ {0} /\ line \in Nat \ {0}
    BY <2>1 DEF Positive
  <2>3. Len(u) = 10 + m * line
    BY <1>7
  <2> HIDE DEF m, line
  <2>4. m * line \in Nat \ {0}
    BY <2>2
  <2> QED BY <2>3, <2>4
<1>9. First = subs[1].hdr
  BY DEF First, subs
<1>10. Len(input.prof) \in Nat /\ \A n \in 1 .. 10 : 0 + n = n
  BY InputIs
<1>11. HeaderAt(0, First)
  BY <1>6, <1>7, <1>9, <1>10 DEF HeaderAt
<1>12. ~Over(10)
  <2>1. Len(u) \in Int
    BY <1>7, <1>4 DEF u
  <2> QED BY <1>6, <1>8, <1>10, <2>1 DEF Over
<1>13. First \in [FieldNames -> Int]
  BY <1>9, <1>2 DEF Subints
<1> QED BY <1>11, <1>12, <1>13

\* The whole of a sequence.
LEMMA LeftOfAll ==
  ASSUME TypeOK
  PROVE  Left(0) = input.prof
<1> DEFINE s == input.prof
<1>1. s \in Seq(Token) /\ Len(s) \in Nat
  BY InputIs
<1> HIDE DEF s
<1>2. SubSeq(s, 1, Len(s)) \in Seq(Token) /\ Len(SubSeq(s, 1, Len(s))) = Len(s)
      /\ \A n \in 1 .. Len(s) : SubSeq(s, 1, Len(s))[n] = s[n]
  BY <1>1
<1>3. SubSeq(s, 1, Len(s)) = s
  BY <1>1, <1>2, SameSeq
<1> QED BY <1>3 DEF Left, s

LEMMA NextFirst == TypeOK /\ ControlInv /\ Quiet /\ FirstInv /\ [Next]_vars => FirstInv'
<1> SUFFICES ASSUME TypeOK, ControlInv, Quiet, FirstInv, [Next]_vars, exit' = "running", Complete(input)'
             PROVE  /\ pc' = "sanity" /\ call' = "header" => Scanned(0, First)'
                    /\ pc' \in BeforeLoop /\ call' = "none" => fh' = First'
  BY DEF FirstInv
<1>1. CASE Launch
  BY <1>1 DEF Launch, BeforeLoop
<1>2. CASE RemoveOutput
  BY <1>2 DEF RemoveOutput
<1>3. CASE OpenProf
  <2>1. /\ pc = "open" /\ ~feof
    BY <1>3 DEF OpenProf, At, ControlInv
  <2>2. /\ file' = input.prof /\ call' = "header" /\ fld' = 1 /\ feof' = feof /\ input' = input
    BY <1>3, <2>1 DEF OpenProf, At, runVars
  <2>3. file' = Left(0)'
    BY <2>2, LeftOfAll DEF Left
  <2>4. Scanned(0, First)'
    BY <2>1, <2>2, <2>3 DEF Scanned, Left
  <2> QED BY <2>2, <2>4
<1>4. CASE SanityCheck \/ CreateFITS \/ PrimaryHeader \/ PutHistoryTable \/ PutPar
  <2>1. /\ exit = "running" /\ call = "none" /\ pc \in BeforeLoop /\ input' = input /\ fh' = fh /\ call' = call
    BY <1>4 DEF SanityCheck, CreateFITS, PrimaryHeader, PutHistoryTable, PutPar, At, profVars, runVars, BeforeLoop
  <2> QED BY <2>1 DEF FirstInv, First
<1>5. CASE CreateSubint
  <2>1. pc' = "loop"
    BY <1>5 DEF CreateSubint, At
  <2> QED BY <2>1 DEF BeforeLoop
<1>6. CASE BeginSubint \/ WriteCol \/ NextSubint \/ EndSubints \/ CloseFITS
  <2>1. pc' \in {"loop", "cols", "close"}
    BY <1>6 DEF BeginSubint, WriteCol, NextSubint, EndSubints, CloseFITS, At, ReportAndExitOnError
  <2> QED BY <2>1 DEF BeforeLoop
<1>7. CASE HeapOverrun
  BY <1>7 DEF HeapOverrun
<1>8. CASE Reader
  <2>1. /\ exit = "running" /\ pc' = pc /\ input' = input /\ call \in {"header", "subs"} /\ call' \in {call, "none"}
        /\ call = "header" => HeaderField \/ HeaderReturn
    BY <1>8, ReaderFrame
  <2>2. SUFFICES ASSUME pc \in BeforeLoop
                 PROVE  /\ call' = "header" => Scanned(0, First)'
                        /\ call' = "none" => fh' = First'
    BY <2>1 DEF BeforeLoop
  <2>3. pc = "sanity" /\ call = "header"
    BY <2>1, <2>2 DEF Quiet, BeforeLoop
  <2>4. Complete(input) /\ First' = First
    BY <2>1 DEF First
  <2>5. /\ First \in [FieldNames -> Int] /\ HeaderAt(0, First) /\ ~Over(0 + 10)
    BY <2>4, CompleteBegins
  <2>6. Scanned(0, First)
    BY <2>1, <2>3, <2>4 DEF FirstInv
  <2>7. CASE HeaderField
    <3>1. Scanned(0, First)'
      <4> DEFINE hdr == First
      <4>1. hdr' = hdr
        BY <2>4
      <4>2. Scanned(0, hdr) /\ HeaderAt(0, hdr) /\ hdr \in [FieldNames -> Int]
        BY <2>5, <2>6
      <4> HIDE DEF hdr
      <4> QED BY <4>1, <4>2, <2>1, <2>7, ScanField DEF hdr
    <3> QED BY <3>1, <2>3, <2>7 DEF HeaderField
  <2>8. CASE HeaderReturn
    <3>1. 0 \in Nat
      OBVIOUS
    <3>2. (feof' <=> Over(0 + 10)) /\ (~feof' => fh = First)
      BY <3>1, <2>5, <2>6, <2>8, ScanReturn, Zenon
    <3>3. fh' = fh /\ call' = "none"
      BY <2>8 DEF HeaderReturn
    <3> QED BY <3>2, <3>3, <2>4, <2>5
  <2> QED BY <2>1, <2>3, <2>7, <2>8
<1>9. CASE UNCHANGED vars
  BY <1>9 DEF vars, profVars, runVars, FirstInv, First, Scanned, Left
<1> QED
  BY <1>1, <1>2, <1>3, <1>4, <1>5, <1>6, <1>7, <1>8, <1>9 DEF Next, Program, Operator

\* What a short holds of a number: the number, or one that differs by a multiple
\* of the short's range.
LEMMA ShortIs ==
  ASSUME NEW n \in Int
  PROVE  /\ IsShort(n) => Short(n) = n
         /\ (Short(n) - n) % (2 * (ShortMax + 1)) = 0
<1> DEFINE h == ShortMax + 1
           w == 2 * h
           m == n + h
<1>1. h \in Nat \ {0} /\ w \in Nat \ {0} /\ m \in Int /\ w = h + h /\ n + ShortMax + 1 = m
  BY ShortMaxAssumption
<1>2. Short(n) = (m % w) - h
  BY <1>1 DEF Short, Narrow
<1>3. IsShort(n) => m \in 0 .. w - 1
  <2>1. IsShort(n) => n \in (-h) .. h - 1
    BY ShortMaxAssumption DEF IsShort
  <2> HIDE DEF h, w
  <2> QED BY <2>1, <1>1
<1> HIDE DEF w
<1>4. m \in 0 .. w - 1 => m % w = m
  <2> HIDE DEF m
  <2> QED BY <1>1
<1>5. ((m % w) - m) % w = 0
  <2> HIDE DEF m
  <2>1. m \div w \in Int /\ m = (m \div w) * w + (m % w)
    BY <1>1, DivisionOfInt
  <2> DEFINE q == m \div w
             r == m % w
  <2>2. q \in Int /\ r - m = (-q) * w
    BY <2>1, <1>1
  <2> HIDE DEF q, r
  <2>3. -q \in Int /\ ((-q) * w) % w = 0
    BY <2>2, <1>1
  <2> QED BY <2>2, <2>3 DEF q, r
<1>6. (m % w) - h - n = (m % w) - m
  <2>1. m % w \in Int
    BY <1>1
  <2> QED BY <2>1, <1>1
<1>7. IsShort(n) => (m % w) - h = n
  <2> HIDE DEF h, IsShort
  <2> QED BY <1>1, <1>3, <1>4
<1> QED BY <1>2, <1>5, <1>6, <1>7 DEF w

\* A step that leaves the HDUs and the reader's channels alone keeps them
\* described.
LEMMA SameDescribed ==
  ASSUME DescribedInv, input' = input, hdus' = hdus, width' = width, numchans' = numchans,
         exit = "running", pc \notin Early, status' = 0 => status = 0,
         exit' = "ok" => status' = 0,
         pc' \in BeforeLoop => pc \in BeforeLoop
  PROVE  DescribedInv'
<1>1. Complete(input)' = Complete(input) /\ AllDescribe' = AllDescribe /\ NoSubint' = NoSubint
  BY DEF Complete, AllDescribe, NoSubint, Describes, Says, First, IsShort
<1> QED BY <1>1 DEF DescribedInv

\* A HDU put behind those there are.
LEMMA AppendDescribed ==
  ASSUME TypeOK, AllDescribe, NEW e \in Hdu, hdus' = Append(hdus, e), Describes(e),
         input' = input, numchans' = numchans, width' = width
  PROVE  AllDescribe' /\ (NoSubint /\ e.name # "SUBINT" => NoSubint')
<1>1. hdus \in Seq(Hdu) /\ Len(hdus) \in Nat /\ DOMAIN hdus = 1 .. Len(hdus)
  BY DEF TypeOK
<1>2. /\ DOMAIN hdus' = 1 .. Len(hdus) + 1
      /\ \A h \in 1 .. Len(hdus) : hdus'[h] = hdus[h]
      /\ hdus'[Len(hdus) + 1] = e
  BY <1>1
<1>3. \A h \in DOMAIN hdus' : (h \in DOMAIN hdus /\ hdus'[h] = hdus[h]) \/ hdus'[h] = e
  BY <1>1, <1>2
<1>4. \A hdu : Describes(hdu)' = Describes(hdu)
  BY DEF Describes, Says, First, IsShort
<1>5. AllDescribe'
  <2> SUFFICES ASSUME NEW h \in DOMAIN hdus' PROVE Describes(hdus'[h])
    BY <1>4, Zenon DEF AllDescribe
  <2>1. CASE h \in DOMAIN hdus /\ hdus'[h] = hdus[h]
    <3>1. Describes(hdus[h])
      BY <2>1, Zenon DEF AllDescribe
    <3> QED BY <2>1, <3>1, Zenon
  <2>2. CASE hdus'[h] = e
    BY <2>2, Zenon
  <2> QED BY <1>3, <2>1, <2>2, Zenon
<1>6. NoSubint /\ e.name # "SUBINT" => NoSubint'
  BY <1>3 DEF NoSubint
<1> QED BY <1>5, <1>6

LEMMA NextDescribed ==
  TypeOK /\ ControlInv /\ FirstInv /\ DescribedInv /\ [Next]_vars => DescribedInv'
<1> SUFFICES ASSUME TypeOK, ControlInv, FirstInv, DescribedInv, [Next]_vars PROVE DescribedInv'
  OBVIOUS
<1>0. fh.pol \in Int /\ fh.numbins \in Int /\ numchans \in Int
  BY DEF TypeOK, ProfTypeOK, FieldNames
<1>1. CASE Launch
  BY <1>1 DEF Launch, DescribedInv, Early
<1>2. CASE RemoveOutput
  BY <1>2 DEF RemoveOutput, DescribedInv
<1>3. CASE OpenProf \/ SanityCheck
  BY <1>3 DEF OpenProf, SanityCheck, At, GoOn, DescribedInv, Early
<1>4. CASE CreateFITS
  <2>1. exit' = "running" /\ pc' = "primary" /\ (status' = 0 => hdus' = << Keywords("PRIMARY", Blank, Blank, Blank, Blank) >>)
    BY <1>4 DEF CreateFITS, At, FILE_NOT_CREATED
  <2>2. \A h \in {1} : << Keywords("PRIMARY", Blank, Blank, Blank, Blank) >>[h] = Keywords("PRIMARY", Blank, Blank, Blank, Blank)
    OBVIOUS
  <2>3. status' = 0 => AllDescribe' /\ NoSubint'
    BY <2>1, <2>2 DEF AllDescribe, NoSubint, Describes, Says, Keywords
  <2> QED BY <2>1, <2>3 DEF DescribedInv
<1>5. CASE PrimaryHeader
  <2>1. /\ exit = "running" /\ call = "none" /\ pc = "primary" /\ input' = input /\ fh' = fh /\ numchans' = numchans
        /\ exit' \in {"running", "abort"} /\ (status' = 0 => status = 0)
        /\ exit' = "running" => input.badcfg # "primary"
        /\ hdus' = IF status' = 0 /\ input.badcfg # "primary"
               THEN << Keywords("PRIMARY", fh.pol, Blank, numchans, fh.freq) >>
               ELSE hdus
    BY <1>5 DEF PrimaryHeader, At, GoOn, MayFail, runVars, profVars
  <2>2. Complete(input) => fh = First'
    BY <2>1 DEF FirstInv, First, BeforeLoop
  <2> DEFINE e == Keywords("PRIMARY", fh.pol, Blank, numchans, fh.freq)
  <2>3. \A h \in DOMAIN << e >> : << e >>[h] = e
    OBVIOUS
  <2>4. e.name = "PRIMARY" /\ e.npol = fh.pol /\ e.nbin = Blank /\ e.nchan = numchans /\ e.freq = fh.freq
    BY DEF Keywords
  <2> HIDE DEF e
  <2>5. Complete(input) /\ status' = 0 /\ exit' = "running" => AllDescribe' /\ NoSubint'
    <3> SUFFICES ASSUME Complete(input), status' = 0, exit' = "running" PROVE AllDescribe' /\ NoSubint'
      OBVIOUS
    <3>1. hdus' = << e >>
      BY <2>1 DEF e
    <3> QED BY <3>1, <2>1, <2>2, <2>3, <2>4 DEF AllDescribe, NoSubint, Describes, Says
  <2>6. Complete(input)' = Complete(input)
    BY <2>1 DEF Complete
  <2> QED BY <2>1, <2>5, <2>6 DEF DescribedInv
<1>6. CASE PutHistoryTable
  <2>1. /\ exit = "running" /\ call = "none" /\ pc = "history" /\ input' = input /\ fh' = fh /\ numchans' = numchans
        /\ exit' \in {"running", "abort"} /\ (status' = 0 => status = 0) /\ width' = width
    BY <1>6 DEF PutHistoryTable, At, GoOn, MayFail, runVars, profVars, tableVars
  <2> DEFINE e == Keywords("HISTORY", Short(fh.pol), Short(fh.numbins), Short(numchans), fh.freq)
  <2>2. status' = 0 => hdus' = Append(hdus, e)
    BY <1>6 DEF PutHistoryTable
  <2>3. Complete(input) => fh = First
    BY <2>1 DEF FirstInv, BeforeLoop
  <2>4. e \in Hdu
    BY HeaderKeywordsType
  <2>5. /\ e.name = "HISTORY" /\ e.npol = Short(fh.pol) /\ e.nbin = Short(fh.numbins)
        /\ e.nchan = Short(numchans) /\ e.freq = fh.freq
    BY DEF Keywords
  <2> HIDE DEF e
  <2>6. \A n \in Int : Says("HISTORY", Short(n), n)
    BY ShortIs DEF Says
  <2>7. Complete(input) => Describes(e)
    <3>1. Says(e.name, e.npol, fh.pol) /\ Says(e.name, e.nbin, fh.numbins) /\ Says(e.name, e.nchan, numchans)
      BY <2>5, <2>6, <1>0
    <3>2. Says(e.name, e.freq, fh.freq)
      BY <2>5 DEF Says
    <3> QED BY <2>3, <2>5, <3>1, <3>2 DEF Describes
  <2>8. Complete(input) /\ status = 0 => AllDescribe /\ NoSubint
    BY <2>1 DEF DescribedInv, Early, BeforeLoop
  <2>9. Complete(input) /\ status' = 0 => AllDescribe' /\ NoSubint'
    BY <2>1, <2>2, <2>4, <2>5, <2>7, <2>8, AppendDescribed
  <2>10. Complete(input)' = Complete(input)
    BY <2>1 DEF Complete
  <2> QED BY <2>1, <2>9, <2>10 DEF DescribedInv
<1>7. CASE PutPar
  <2>1. /\ exit = "running" /\ call = "none" /\ pc = "par" /\ input' = input /\ fh' = fh /\ numchans' = numchans
        /\ exit' \in {"running", "error"} /\ (status' = 0 => status = 0) /\ width' = width
    BY <1>7 DEF PutPar, At, ReportAndExitOnError, MayFail, runVars, profVars, tableVars
  <2> DEFINE e == Keywords("PSRPARAM", Blank, Blank, Blank, Blank)
  <2>2. status' = 0 => hdus' = Append(hdus, e)
    BY <1>7 DEF PutPar
  <2>3. e \in Hdu
    BY HeaderKeywordsType
  <2>4. e.name = "PSRPARAM" /\ e.npol = Blank /\ e.nbin = Blank /\ e.nchan = Blank /\ e.freq = Blank
    BY DEF Keywords
  <2> HIDE DEF e
  <2>5. Describes(e)
    BY <2>4 DEF Describes, Says
  <2>6. Complete(input) /\ status = 0 => AllDescribe /\ NoSubint
    BY <2>1 DEF DescribedInv, Early, BeforeLoop
  <2>7. Complete(input) /\ status' = 0 => AllDescribe' /\ NoSubint'
    BY <2>1, <2>2, <2>3, <2>4, <2>5, <2>6, AppendDescribed
  <2>8. Complete(input)' = Complete(input)
    BY <2>1 DEF Complete
  <2> QED BY <2>1, <2>7, <2>8 DEF DescribedInv
<1>8. CASE CreateSubint
  <2>1. /\ exit = "running" /\ call = "none" /\ pc = "table" /\ input' = input /\ fh' = fh /\ numchans' = numchans
        /\ exit' \in {"running", "abort", "error"} /\ (status' = 0 => status = 0)
        /\ exit' = "running" => pc' = "loop" /\ status' = 0
    BY <1>8 DEF CreateSubint, At, TableStatus, KeywordStatus, BAD_F2C, runVars, profVars
  <2> DEFINE e == Keywords("SUBINT", fh.pol, fh.numbins, numchans, Blank)
             size == fh.numbins * numchans * fh.pol
  <2>2. status' = 0 => /\ hdus' = Append(hdus, e)
                       /\ width' = [k \in Columns |-> Elements(k)]
    BY <1>8 DEF CreateSubint
  <2>3. e \in Hdu
    BY HeaderKeywordsType
  <2>4. e.name = "SUBINT" /\ e.npol = fh.pol /\ e.nbin = fh.numbins /\ e.nchan = numchans /\ e.freq = Blank
    BY DEF Keywords
  <2> HIDE DEF e
  <2>5. Elements(19) = ndata
    BY DEF Elements
  <2>6. status' = 0 /\ IsLong(size) => ndata = size
    <3>1. size \in Int
      BY <1>0
    <3>2. LongMax \in Nat
      BY IntMaxAssumption DEF LongMax
    <3>3. status' = 0 => Narrow(size, LongMax) = ndata
      BY <1>8 DEF CreateSubint, TableStatus, BAD_TFORM, BAD_TDIM
    <3> HIDE DEF size
    <3> QED BY <3>1, <3>2, <3>3, NarrowIs DEF IsLong
  <2>7. Complete(input) => fh = First /\ First' = First
    BY <2>1 DEF FirstInv, BeforeLoop, First
  <2>8. Complete(input) /\ status' = 0 /\ status = 0 => AllDescribe'
    <3> SUFFICES ASSUME Complete(input), status' = 0, status = 0, NEW h \in DOMAIN hdus'
                 PROVE  Describes(hdus[h])'
      BY DEF AllDescribe
    <3>1. AllDescribe /\ NoSubint
      BY <2>1 DEF DescribedInv, Early, BeforeLoop
    <3>2. hdus \in Seq(Hdu) /\ Len(hdus) \in Nat /\ DOMAIN hdus = 1 .. Len(hdus)
      BY DEF TypeOK
    <3>3. (h \in DOMAIN hdus /\ hdus'[h] = hdus[h]) \/ hdus'[h] = e
      <4>1. hdus' = Append(hdus, e)
        BY <2>2
      <4> HIDE <2>2
      <4> QED BY <3>2, <2>3, <4>1
    <3>4. IsLong(size) => width'[19] = size
      BY <2>2, <2>5, <2>6 DEF Columns
    <3>5. CASE h \in DOMAIN hdus /\ hdus'[h] = hdus[h]
      BY <3>5, <3>1, <2>1, <2>7 DEF AllDescribe, NoSubint, Describes, Says, IsShort
    <3>6. CASE hdus'[h] = e
      BY <3>6, <3>4, <2>4, <2>1, <2>7 DEF Describes, Says
    <3> QED BY <3>3, <3>5, <3>6
  <2>9. Complete(input)' = Complete(input)
    BY <2>1 DEF Complete
  <2> QED BY <2>1, <2>8, <2>9 DEF DescribedInv, BeforeLoop
<1>9. CASE BeginSubint
  BY <1>9, SameDescribed DEF BeginSubint, At, CallReadSubs, runVars, outputVars, tableVars, profVars, Early, BeforeLoop
<1>10. CASE WriteCol
  <2>1. exit' \in {"running", "error"} /\ (status' = 0 => status = 0)
    BY <1>10 DEF WriteCol, At, ReportAndExitOnError, ColumnStatus, MayFail
  <2> QED BY <1>10, <2>1, SameDescribed DEF WriteCol, At, ReportAndExitOnError, runVars, profVars, Early, BeforeLoop
<1>11. CASE NextSubint
  BY <1>11, SameDescribed DEF NextSubint, At, CallReadHeader, runVars, outputVars, tableVars, Early, BeforeLoop
<1>12. CASE EndSubints
  BY <1>12, SameDescribed DEF EndSubints, At, ReportAndExitOnError, runVars, outputVars, tableVars, profVars, Early, BeforeLoop
<1>13. CASE CloseFITS
  BY <1>13, SameDescribed DEF CloseFITS, At, MayFail, runVars, outputVars, tableVars, profVars, Early, BeforeLoop
<1>14. CASE HeapOverrun
  <2>1. exit' = "abort"
    BY <1>14 DEF HeapOverrun
  <2> QED BY <2>1 DEF DescribedInv
<1>15. CASE Reader
  <2>1. /\ exit = "running" /\ exit' = exit /\ pc' = pc /\ input' = input /\ numchans' = numchans /\ status' = status
    BY <1>15, ReaderFrame
  <2>2. hdus' = hdus /\ width' = width
    BY <1>15 DEF Reader, outputVars, tableVars
  <2>3. CASE pc \in Early
    BY <2>1, <2>3 DEF DescribedInv
  <2>4. CASE pc \notin Early
    <3>1. exit' # "ok" /\ (pc' \in BeforeLoop => pc \in BeforeLoop) /\ (status' = 0 => status = 0)
      BY <2>1, Zenon
    <3> QED BY <2>1, <2>2, <2>4, <3>1, SameDescribed
  <2> QED BY <2>3, <2>4
<1>16. CASE UNCHANGED vars
  BY <1>16 DEF vars, runVars, outputVars, tableVars, profVars, DescribedInv, Complete, AllDescribe, NoSubint, Describes, Says, First, IsShort
<1> QED
  BY <1>1, <1>2, <1>3, <1>4, <1>5, <1>6, <1>7, <1>8, <1>9, <1>10, <1>11, <1>12,
     <1>13, <1>14, <1>15, <1>16
  DEF Next, Program, Operator

\* In every file the program is done with, of a complete PROF file, all HDUs
\* describe the first header and the DATA column has its size: whatever the
\* number of sub-integrations, and however they differ in shape, the reader has
\* the first header at each of the three places where it is asked.
THEOREM HdusDescribeHeader == Spec => []HdusDescribeFirstHeader
<1>1. Init => Quiet /\ FirstInv /\ DescribedInv
  BY DEF Init, Quiet, FirstInv, DescribedInv
<1>2. TypeOK /\ Quiet /\ [Next]_vars => Quiet'
  BY NextQuiet
<1>3. TypeOK /\ ControlInv /\ Quiet /\ FirstInv /\ [Next]_vars => FirstInv'
  BY NextFirst
<1>4. TypeOK /\ ControlInv /\ FirstInv /\ DescribedInv /\ [Next]_vars => DescribedInv'
  BY NextDescribed
<1>5. DescribedInv => HdusDescribeFirstHeader
  <2> SUFFICES ASSUME DescribedInv, exit = "ok", disk = "complete", Complete(input), NEW h \in DOMAIN hdus
               PROVE  Describes(hdus[h])
    BY Zenon DEF HdusDescribeFirstHeader, Describes, Says, First
  <2> QED BY DEF DescribedInv, AllDescribe
<1> QED
  BY <1>1, <1>2, <1>3, <1>4, <1>5, TypeCorrect, ControlIsRight, PTL DEF Spec

-----------------------------------------------------------------------------
(* Where the reader is in a file of one shape, which may end anywhere *)

\* The shape: bins of every sub-integration, and polarisations.
Nb == IF input.subints = << >> THEN 0 ELSE First.numbins

Start(s) == StartOf(Nb, input.numchans, s)

Bin(s, bn) == BinOf(Nb, input.numchans, s, bn)

\* The header of a sub-integration; of one there is not, any.
HdrOf(s) == IF s \in DOMAIN input.subints THEN input.subints[s].hdr ELSE [f \in FieldNames |-> 0]

\* The places, as numbers.
LEMMA Places ==
  ASSUME TypeOK, Uniform(input)
  PROVE  /\ Nb \in Int /\ input.numchans \in Nat \ {0}
         /\ Start(1) = 0
         /\ \A s \in Nat \ {0} :
              /\ Start(s) \in Nat
              /\ Start(s) + 10 <= Start(s + 1)
              /\ Bin(s, 0) = Start(s) + 10
              /\ Bin(s, Positive(Nb)) = Start(s + 1)
              /\ \A bn \in Nat : /\ Bin(s, bn) \in Nat
                                 /\ Bin(s, bn + 1) = Bin(s, bn) + input.numchans + 1
         /\ \A s, t \in Nat \ {0} : s <= t => Start(s) <= Start(t)
<1> DEFINE nc == input.numchans
           m == Positive(Nb)
           L == SubintLength(Nb, nc)
<1>1. Nb \in Int
  <2>1. input.subints \in Seq(Subints)
    BY InputIs
  <2>2. input.subints # << >> => input.subints[1] \in Subints
    BY <2>1
  <2> QED BY <2>2 DEF Nb, First, Subints, FieldNames
<1>2. nc \in Nat \ {0}
  BY InputIs DEF Uniform
<1>3. m \in Nat
  BY <1>1 DEF Positive
<1>4. /\ L = 10 + m * (nc + 1)
      /\ \A s : Start(s) = (s - 1) * L
      /\ \A s, bn : Bin(s, bn) = (s - 1) * L + 10 + bn * (nc + 1)
  BY DEF SubintLength, Start, Bin, StartOf, BinOf
<1> HIDE DEF nc, m, L
<1>5. m * (nc + 1) \in Nat /\ L \in Nat /\ L >= 10
  <2>1. m * (nc + 1) \in Nat
    BY <1>2, <1>3
  <2> QED BY <2>1, <1>4
<1>6. Start(1) = 0
  BY <1>4, <1>5
<1>7. ASSUME NEW s \in Nat \ {0}
      PROVE  /\ Start(s) \in Nat
             /\ Start(s) + 10 <= Start(s + 1)
             /\ Bin(s, 0) = Start(s) + 10
             /\ Bin(s, m) = Start(s + 1)
             /\ \A bn \in Nat : /\ Bin(s, bn) \in Nat
                                /\ Bin(s, bn + 1) = Bin(s, bn) + nc + 1
  <2> DEFINE x == (s - 1) * L
  <2>1. s - 1 \in Nat /\ x \in Nat /\ ((s + 1) - 1) * L = x + L
    BY <1>5
  <2>2. Start(s) = x /\ Start(s + 1) = x + L /\ \A bn : Bin(s, bn) = x + 10 + bn * (nc + 1)
    BY <1>4, <2>1
  <2> HIDE DEF x
  <2>3. Start(s) \in Nat /\ Start(s) + 10 <= Start(s + 1)
    BY <2>1, <2>2, <1>5
  <2>4. Bin(s, 0) = Start(s) + 10
    <3>1. 0 * (nc + 1) = 0
      BY <1>2
    <3> QED BY <3>1, <2>1, <2>2
  <2>5. Bin(s, m) = Start(s + 1)
    <3> DEFINE y == m * (nc + 1)
    <3>1. y \in Nat /\ L = 10 + y /\ Bin(s, m) = x + 10 + y
      BY <1>4, <1>5, <2>2
    <3> HIDE DEF y
    <3> QED BY <3>1, <2>1, <2>2
  <2>6. ASSUME NEW bn \in Nat
        PROVE  Bin(s, bn) \in Nat /\ Bin(s, bn + 1) = Bin(s, bn) + nc + 1
    <3> DEFINE y == bn * (nc + 1)
    <3>1. y \in Nat /\ (bn + 1) * (nc + 1) = y + nc + 1
      BY <1>2
    <3>2. Bin(s, bn) = x + 10 + y /\ Bin(s, bn + 1) = x + 10 + (y + nc + 1)
      BY <2>2, <3>1
    <3> HIDE DEF y
    <3> QED BY <3>1, <3>2, <2>1, <1>2
  <2> QED BY <2>3, <2>4, <2>5, <2>6
<1>8. ASSUME NEW s \in Nat \ {0}, NEW t \in Nat \ {0}, s <= t PROVE Start(s) <= Start(t)
  <2>1. s - 1 \in Nat /\ t - 1 \in Nat /\ s - 1 <= t - 1
    BY <1>8
  <2> QED BY <2>1, <1>4, <1>5, TimesIsMonotonic
<1> QED BY <1>1, <1>2, <1>6, <1>7, <1>8 DEF nc, m

\* What stands at the places.
LEMMA Tokens ==
  ASSUME TypeOK, Uniform(input), Cut(input), NEW s \in Nat \ {0}
  PROVE  /\ HdrOf(s) \in [FieldNames -> Int]
         /\ HeaderAt(Start(s), HdrOf(s))
         /\ ~Over(Start(s)) => /\ s \in DOMAIN input.subints
                               /\ HdrOf(s) = input.subints[s].hdr
                               /\ HdrOf(s).numbins = Nb /\ HdrOf(s).pol = First.pol
                               /\ Len(input.subints[s].cube) = input.numchans
         /\ \A bn \in 0 .. Positive(Nb) - 1 :
              /\ ~Over(Bin(s, bn)) => input.prof[Bin(s, bn) + 1] = [k |-> "int", v |-> bn + 1]
              /\ \A ch \in 1 .. input.numchans :
                   ~Over(Bin(s, bn) + ch) =>
                      input.prof[Bin(s, bn) + 1 + ch]
                        = [k |-> "real", v |-> input.subints[s].cube[ch][bn + 1]]
<1> DEFINE subs == input.subints
           nc == input.numchans
           prof == input.prof
           r == Render(subs)
           L == SubintLength(Nb, nc)
<1>1. /\ Nb \in Int /\ nc \in Nat \ {0} /\ Start(s) \in Nat
      /\ \A bn \in Nat : Bin(s, bn) \in Nat /\ Bin(s, bn) >= Start(s)
  <2>1. Nb \in Int /\ nc \in Nat \ {0} /\ Start(s) \in Nat /\ \A bn \in Nat : Bin(s, bn) \in Nat
    BY Places
  <2>2. ASSUME NEW bn \in Nat PROVE Bin(s, bn) >= Start(s)
    <3> DEFINE y == bn * (nc + 1)
    <3>1. y \in Nat
      BY <2>1
    <3>2. Bin(s, bn) = Start(s) + 10 + y
      BY DEF Bin, Start, BinOf
    <3> HIDE DEF y
    <3> QED BY <3>1, <3>2, <2>1
  <2> QED BY <2>1, <2>2
<1>2. /\ subs \in Seq(Subints) /\ prof \in Seq(Token) /\ Len(prof) \in Nat /\ Len(subs) \in Nat
      /\ DOMAIN subs = 1 .. Len(subs)
      /\ \A i \in DOMAIN subs : IsWhole(subs[i])
  BY InputIs
<1>3. \A i \in 1 .. Len(subs) :
        subs[i].hdr.numbins = Nb /\ subs[i].hdr.pol = First.pol /\ Len(subs[i].cube) = nc
  BY <1>2 DEF Uniform, Nb, First
<1>4. OneShape(subs, Nb, nc)
  BY <1>2, <1>3 DEF OneShape
<1>5. /\ r \in Seq(Token)
      /\ Len(r) = Len(subs) * L
      /\ \A i \in 1 .. Len(subs) :
           /\ \A n \in 1 .. 10 : r[StartOf(Nb, nc, i) + n] = HeaderTokens(subs[i].hdr)[n]
           /\ \A bn \in 0 .. Positive(Nb) - 1 :
                /\ r[BinOf(Nb, nc, i, bn) + 1] = [k |-> "int", v |-> bn + 1]
                /\ \A ch \in 1 .. nc :
                     r[BinOf(Nb, nc, i, bn) + 1 + ch] = [k |-> "real", v |-> subs[i].cube[ch][bn + 1]]
  <2>1. Nb \in Int /\ nc \in Nat
    BY <1>1
  <2> HIDE DEF nc, subs, r, L
  <2>2. Laid(Render(subs), subs, Nb, nc)
    BY <2>1, <1>4, RenderIs
  <2> QED BY <2>2, Zenon DEF r, L, Laid
<1>6. Len(prof) <= Len(r) /\ \A p \in 1 .. Len(prof) : prof[p] = r[p]
  <2>1. Len(prof) <= Len(r) /\ SubSeq(prof, 1, Len(prof)) = SubSeq(r, 1, Len(prof))
    BY Zenon DEF Cut, IsPrefix
  <2> HIDE DEF prof, r
  <2>2. Len(r) \in Nat
    BY <1>5
  <2>3. \A p \in 1 .. Len(prof) : SubSeq(prof, 1, Len(prof))[p] = prof[p] /\ SubSeq(r, 1, Len(prof))[p] = r[p]
    BY <1>2, <1>5, <2>1, <2>2
  <2> QED BY <2>1, <2>3
<1>0. Start(s) \in Nat /\ Len(prof) \in Nat
  BY <1>1, <1>2, Zenon
<1>7. ASSUME ~Over(Start(s)) PROVE s \in DOMAIN subs
  <2> SUFFICES ASSUME ~(s <= Len(subs)) PROVE FALSE
    BY <1>2
  <2>1. L \in Nat
    <3> DEFINE m == Positive(Nb)
    <3>0. Nb \in Int /\ nc \in Nat \ {0}
      BY <1>1, Zenon
    <3>1. m \in Nat /\ nc + 1 \in Nat
      BY <3>0 DEF Positive
    <3>2. L = 10 + m * (nc + 1)
      BY DEF SubintLength
    <3> HIDE DEF m, nc, L
    <3>3. m * (nc + 1) \in Nat
      BY <3>1
    <3> QED BY <3>2, <3>3
  <2>2. Start(s) = (s - 1) * L
    BY DEF Start, StartOf
  <2> HIDE DEF L, subs, prof, r
  <2>3. Len(subs) * L <= (s - 1) * L
    BY <2>1, <1>2, TimesIsMonotonic
  <2>4. Start(s) < Len(prof)
    BY <1>0, <1>7 DEF Over, prof
  <2>5. Len(r) \in Nat
    BY <1>5
  <2>6. Len(r) <= Start(s)
    BY <2>2, <2>3, <1>5
  <2> QED BY <2>4, <2>5, <2>6, <1>1, <1>2, <1>6
<1>8. \A p \in Nat : ~Over(p) => prof[p + 1] = r[p + 1]
  <2> HIDE DEF r
  <2> QED BY <1>2, <1>6 DEF Over
<1>9. HdrOf(s) \in [FieldNames -> Int]
  <2>1. s \in DOMAIN subs => subs[s] \in Subints
    BY <1>2
  <2> QED BY <2>1 DEF HdrOf, Subints
<1>10. \A p \in Nat : ~Over(p) /\ p >= Start(s) => ~Over(Start(s))
  BY <1>0 DEF Over
<1> HIDE DEF subs, prof, r, L, nc
<1>11. HeaderAt(Start(s), HdrOf(s))
  <2> SUFFICES ASSUME NEW n \in 1 .. 10, ~Over(Start(s) + n - 1)
               PROVE  prof[Start(s) + n] = HeaderTokens(HdrOf(s))[n]
    BY DEF HeaderAt, prof
  <2> DEFINE p == Start(s) + n - 1
  <2>1. p \in Nat /\ p >= Start(s) /\ p + 1 = Start(s) + n
    BY <1>1
  <2>2. s \in DOMAIN subs
    BY <2>1, <1>7, <1>10
  <2>3. prof[Start(s) + n] = r[Start(s) + n]
    BY <2>1, <1>8
  <2>4. r[Start(s) + n] = HeaderTokens(subs[s].hdr)[n]
    BY <2>2, <1>2, <1>5 DEF Start, nc
  <2>5. HdrOf(s) = subs[s].hdr
    BY <2>2 DEF HdrOf, subs
  <2> QED BY <2>3, <2>4, <2>5
<1>12. ~Over(Start(s)) => /\ s \in DOMAIN subs
                          /\ HdrOf(s) = subs[s].hdr
                          /\ HdrOf(s).numbins = Nb /\ HdrOf(s).pol = First.pol
                          /\ Len(subs[s].cube) = nc
  BY <1>2, <1>3, <1>7 DEF HdrOf, subs
<1>13. ASSUME NEW bn \in 0 .. Positive(Nb) - 1
       PROVE  /\ ~Over(Bin(s, bn)) => prof[Bin(s, bn) + 1] = [k |-> "int", v |-> bn + 1]
              /\ \A ch \in 1 .. nc :
                   ~Over(Bin(s, bn) + ch) =>
                      prof[Bin(s, bn) + 1 + ch] = [k |-> "real", v |-> subs[s].cube[ch][bn + 1]]
  <2>1. bn \in Nat /\ Bin(s, bn) \in Nat /\ Bin(s, bn) >= Start(s) /\ Bin(s, bn) = BinOf(Nb, nc, s, bn)
    BY <1>1 DEF Bin, nc
  <2>2. CASE s \in DOMAIN subs
    <3>1. /\ r[Bin(s, bn) + 1] = [k |-> "int", v |-> bn + 1]
          /\ \A ch \in 1 .. nc :
               r[Bin(s, bn) + 1 + ch] = [k |-> "real", v |-> subs[s].cube[ch][bn + 1]]
      <4> HIDE DEF nc, subs, r, L
      <4>1. s \in 1 .. Len(subs)
        BY <2>2, <1>2
      <4>2. /\ r[BinOf(Nb, nc, s, bn) + 1] = [k |-> "int", v |-> bn + 1]
            /\ \A ch \in 1 .. nc :
                 r[BinOf(Nb, nc, s, bn) + 1 + ch] = [k |-> "real", v |-> subs[s].cube[ch][bn + 1]]
        BY <4>1, <1>5, Zenon
      <4> QED BY <4>2, <2>1, Zenon
    <3>2. \A ch \in 1 .. nc : Bin(s, bn) + ch \in Nat /\ (Bin(s, bn) + ch) + 1 = Bin(s, bn) + 1 + ch
      BY <2>1, <1>1
    <3> QED BY <3>1, <3>2, <2>1, <1>8
  <2>3. CASE s \notin DOMAIN subs
    <3>1. \A ch \in 1 .. nc : Bin(s, bn) + ch \in Nat /\ Bin(s, bn) + ch >= Start(s)
      BY <2>1, <1>1
    <3> QED BY <3>1, <2>1, <2>3, <1>7, <1>10
  <2> QED BY <2>2, <2>3
<1> QED BY <1>9, <1>11, <1>12, <1>13 DEF subs, nc, prof

\* readHeader is in the header of the row that is to be written next.
InHeader == Scanned(Start(subint_cnt), HdrOf(subint_cnt))

\* The header is read; or there was no more of the file than that.
AfterHeader ==
  /\ feof <=> Over(Start(subint_cnt) + 10)
  /\ ~feof => file = Left(Start(subint_cnt) + 10) /\ fh = HdrOf(subint_cnt)

\* readSubs is at bin b, before its number (c = -1) or before channel c of it.
InBins ==
  /\ b \in 0 .. Positive(Nb) /\ c \in -1 .. input.numchans
  /\ b = Positive(Nb) => c = -1
  /\ file = Left(Bin(subint_cnt, b) + c + 1)
  /\ feof => Over(Bin(subint_cnt, b) + c + 1)
  /\ c = -1 => (feof <=> Over(Bin(subint_cnt, b)))

AfterBins ==
  /\ file = Left(Start(subint_cnt + 1))
  /\ feof <=> Over(Start(subint_cnt + 1))

Shaped == exit = "running" /\ Uniform(input) /\ Cut(input)

\* Where the reader is at each label of main; and of every row counted there is
\* more in the file than its header.
PlaceInv ==
  Shaped =>
    /\ pc # "open" => numchans = input.numchans
    /\ call = "header" => InHeader
    /\ call = "none" /\ pc \notin {"open", "cols"} => AfterHeader
    /\ pc = "cols" => ~Over(Start(subint_cnt) + 10) /\ fh = HdrOf(subint_cnt)
    /\ call = "subs" => InBins
    /\ call = "none" /\ pc = "cols" => AfterBins
    /\ pc \in {"loop", "close"} /\ subint_cnt > 1 => ~Over(Start(subint_cnt - 1) + 10)
    /\ pc = "close" => feof

\* The elements of a row.
RowWidth == Nb * (input.numchans * First.pol)

\* The sample of bin bn and channel ch, both from 0, of sub-integration s: whether
\* it is in the file, and what readSubs reads for it.
InTheFile(s, ch, bn) == ~Over(Bin(s, bn) + ch + 1)

SampleOf(s, ch, bn) == [k |-> "real", v |-> input.subints[s].cube[ch + 1][bn + 1]]

\* The buffer has the size of a row; what has been read is at its place.
SubwayInv ==
  Shaped /\ pc = "cols" =>
    /\ Len(subway) = RowWidth
    /\ RowWidth # 0 =>
         \A ch \in 0 .. input.numchans - 1 : \A bn \in 0 .. Nb - 1 :
           InTheFile(subint_cnt, ch, bn) /\ (call = "none" \/ bn < b \/ (bn = b /\ ch < c)) =>
             subway[ch * Nb + bn + 1] = SampleOf(subint_cnt, ch, bn)

\* Row r has the samples of its sub-integration that are in the file.
RowHeld(r) ==
  /\ r \in DOMAIN input.subints
  /\ \A ch \in 0 .. input.numchans - 1 : \A bn \in 0 .. Nb - 1 :
       InTheFile(r, ch, bn) =>
         /\ (r - 1) * width[19] + (ch * Nb + bn + 1) \in DOMAIN data
         /\ data[(r - 1) * width[19] + (ch * Nb + bn + 1)] = SampleOf(r, ch, bn)

\* The rows whose DATA column has been written.
Written(r) == r < subint_cnt \/ (pc = "cols" /\ col > 19 /\ r = subint_cnt)

\* A fresh output has no data, and the rows that are written hold their samples.
DataInv ==
  /\ disk = "absent" => data = << >>
  /\ exit = "running" /\ status = 0 =>
       /\ pc \in {"primary", "history", "par", "table"} => data = << >>
       /\ Shaped /\ pc \in {"loop", "cols"} =>
            /\ ~Over(10) => width[19] = RowWidth
            /\ Len(data) <= Len(cells) * width[19]
            /\ \A r \in Nat \ {0} : Written(r) => RowHeld(r)

\* What depends on the input alone.
LEMMA SameInput ==
  ASSUME input' = input
  PROVE  /\ Nb' = Nb /\ First' = First /\ Uniform(input)' = Uniform(input) /\ Cut(input)' = Cut(input)
         /\ \A p : Over(p)' = Over(p) /\ Left(p)' = Left(p)
         /\ \A s : Start(s)' = Start(s) /\ HdrOf(s)' = HdrOf(s)
         /\ \A s, bn : Bin(s, bn)' = Bin(s, bn)
  BY DEF Nb, First, Uniform, Cut, Over, Left, Start, HdrOf, Bin

\* A step of main that leaves the reader and the row counter alone.
LEMMA SamePlace ==
  ASSUME RowsInv, PlaceInv, input' = input, profVars' = profVars, subint_cnt' = subint_cnt,
         exit = "running", call = "none", pc # "open",
         exit' = "running" =>
           /\ pc' # "open" /\ (pc' = "cols" <=> pc = "cols")
           /\ pc' = "close" => feof
  PROVE  PlaceInv'
<1> SUFFICES ASSUME Shaped' PROVE PlaceInv'
  BY DEF PlaceInv
<1>1. Shaped /\ exit' = "running"
  BY DEF Shaped, Uniform, Cut
<1>2. /\ numchans = input.numchans
      /\ pc # "cols" => AfterHeader
      /\ pc = "cols" => ~Over(Start(subint_cnt) + 10) /\ fh = HdrOf(subint_cnt) /\ AfterBins
      /\ pc \in {"loop", "close"} /\ subint_cnt > 1 => ~Over(Start(subint_cnt - 1) + 10)
  BY <1>1 DEF PlaceInv
<1>3. pc # "cols" => AfterHeader'
  BY <1>2 DEF AfterHeader, profVars, Over, Start, Left, HdrOf, Nb, First
<1>4. pc = "cols" => ~Over(Start(subint_cnt) + 10)' /\ fh' = HdrOf(subint_cnt)' /\ AfterBins'
  BY <1>2 DEF AfterBins, profVars, Over, Start, Left, HdrOf, Nb, First
<1>5. pc' \in {"loop", "close"} /\ subint_cnt > 1 => pc \in {"loop", "close"}
  BY <1>1 DEF RowsInv
<1>6. pc' \in {"loop", "close"} /\ (subint_cnt > 1)' => ~Over(Start(subint_cnt - 1) + 10)'
  BY <1>2, <1>5 DEF Over, Start, Nb, First
<1> QED BY <1>1, <1>2, <1>3, <1>4, <1>6 DEF PlaceInv, profVars

\* The file is opened.
LEMMA OpenPlace == TypeOK /\ ControlInv /\ RowsInv /\ OpenProf => PlaceInv'
<1> SUFFICES ASSUME TypeOK, ControlInv, RowsInv, OpenProf, Shaped' PROVE PlaceInv'
  BY DEF PlaceInv
<1>1. pc = "open" /\ ~feof /\ subint_cnt = 1
  BY DEF OpenProf, At, ControlInv, RowsInv
<1>2. /\ file' = input.prof /\ call' = "header" /\ fld' = 1 /\ feof' = feof /\ input' = input
      /\ pc' = "sanity" /\ numchans' = input.numchans /\ subint_cnt' = 1
  BY <1>1 DEF OpenProf, At, runVars, subintVars, Shaped
<1>3. Uniform(input)
  BY <1>2 DEF Shaped, Uniform
<1>4. Start(1) = 0
  BY <1>3, Places
<1>5. file' = Left(Start(1) + 1 - 1)
  BY <1>2, <1>4, LeftOfAll
<1>6. Left(Start(1) + 1 - 1)' = Left(Start(1) + 1 - 1)
  BY <1>2 DEF Left, Start, Nb, First
<1>7. InHeader'
  BY <1>1, <1>2, <1>5, <1>6 DEF InHeader, Scanned
<1> QED BY <1>2, <1>7 DEF PlaceInv

\* readSubs is called.
LEMMA BeginPlace == TypeOK /\ PlaceInv /\ BeginSubint => PlaceInv'
<1> SUFFICES ASSUME TypeOK, PlaceInv, BeginSubint, Shaped' PROVE PlaceInv'
  BY DEF PlaceInv
<1> DEFINE s == subint_cnt
<1>1. /\ exit = "running" /\ pc = "loop" /\ call = "none" /\ ~feof /\ exit' = "running"
      /\ CallReadSubs(ndata) /\ pc' = "cols" /\ input' = input /\ subint_cnt' = subint_cnt
  BY DEF BeginSubint, At, runVars, Shaped
<1>2. Shaped /\ Uniform(input)
  BY <1>1 DEF Shaped, Uniform, Cut
<1>3. /\ numchans = input.numchans /\ ~Over(Start(s) + 10)
      /\ file = Left(Start(s) + 10) /\ fh = HdrOf(s)
  BY <1>1, <1>2 DEF PlaceInv, AfterHeader
<1>4. /\ numchans' = numchans /\ file' = file /\ fh' = fh /\ feof' = feof /\ b' = 0 /\ c' = -1 /\ call' = "subs"
  BY <1>1 DEF CallReadSubs
<1>5. s \in Nat \ {0}
  BY DEF TypeOK
<1> HIDE DEF s
<1>6. Bin(s, 0) = Start(s) + 10 /\ Start(s) \in Nat /\ Nb \in Int /\ input.numchans \in Nat
  BY <1>2, <1>5, Places
<1>7. 0 \in 0 .. Positive(Nb) /\ -1 \in -1 .. input.numchans /\ Bin(s, 0) + (-1) + 1 = Start(s) + 10
  BY <1>6 DEF Positive
<1>8. s' = s /\ Bin(s, 0)' = Bin(s, 0) /\ Nb' = Nb
  BY <1>1 DEF s, Bin, Nb, First
<1>9. \A p : Over(p)' = Over(p) /\ Left(p)' = Left(p)
  BY <1>1, SameInput
<1>10. Over(Start(s) + 10)' = Over(Start(s) + 10) /\ HdrOf(s)' = HdrOf(s)
  BY <1>1 DEF s, Over, HdrOf, Start, Nb, First
<1>11. InBins'
  <2> DEFINE p == Bin(s, 0)
  <2>1. p' = p
    BY <1>8
  <2>2. file' = Left(p + c' + 1) /\ (feof' <=> Over(p)) /\ p + c' + 1 = p
    BY <1>1, <1>3, <1>4, <1>6
  <2>3. /\ b' = 0 /\ c' = -1 /\ b' \in 0 .. Positive(Nb) /\ c' \in -1 .. input.numchans
    BY <1>4, <1>7
  <2>4. p = Bin(subint_cnt, 0)
    BY DEF s
  <2>5. Bin(subint_cnt, b)' = p
    BY <2>1, <2>3, <1>1 DEF s, Bin, Nb, First
  <2> HIDE DEF p
  <2>6. Left(p + c' + 1) = Left(p + c + 1)' /\ Over(p + c + 1)' = Over(p + c' + 1) /\ Over(p)' = Over(p)
    BY <2>1, <1>1 DEF Left, Over
  <2>7. file' = Left(Bin(subint_cnt, b) + c + 1)'
    BY <2>2, <2>5, <2>6, <1>1, <2>1 DEF Left
  <2>8. feof' => Over(Bin(subint_cnt, b) + c + 1)'
    BY <1>1, <1>4
  <2>9. feof' <=> Over(Bin(subint_cnt, b))'
    BY <2>2, <2>5, <1>1 DEF Over
  <2> QED BY <2>3, <2>7, <2>8, <2>9, <1>1, <1>8 DEF InBins
<1> QED BY <1>1, <1>3, <1>4, <1>10, <1>11 DEF PlaceInv, s

\* The next header is asked for.
LEMMA NextSubintPlace == TypeOK /\ PlaceInv /\ NextSubint => PlaceInv'
<1> SUFFICES ASSUME TypeOK, PlaceInv, NextSubint, Shaped' PROVE PlaceInv'
  BY DEF PlaceInv
<1> DEFINE s == subint_cnt
           t == subint_cnt + 1
<1>1. /\ exit = "running" /\ pc = "cols" /\ call = "none"
      /\ CallReadHeader /\ pc' = "loop" /\ input' = input /\ subint_cnt' = t
  BY DEF NextSubint, At, runVars, Shaped
<1>2. Shaped /\ Uniform(input)
  BY <1>1 DEF Shaped, Uniform, Cut, NextSubint
<1>3. /\ numchans = input.numchans /\ ~Over(Start(s) + 10)
      /\ file = Left(Start(t)) /\ (feof <=> Over(Start(t)))
  BY <1>1, <1>2 DEF PlaceInv, AfterBins
<1>4. /\ numchans' = numchans /\ file' = file /\ fh' = fh /\ feof' = feof
      /\ feof => call' = "none"
      /\ ~feof => call' = "header" /\ fld' = 1
  BY <1>1 DEF CallReadHeader
<1>5. s \in Nat \ {0} /\ t \in Nat \ {0} /\ t - 1 = s
  BY DEF TypeOK
<1>6. Start(t) \in Nat /\ Len(input.prof) \in Nat
  <2> HIDE DEF t
  <2> QED BY <1>2, <1>5, Places, InputIs
<1>7. Over(Start(t)) => Over(Start(t) + 10)
  <2> HIDE DEF t
  <2> QED BY <1>6 DEF Over
<1>8. Over(Start(subint_cnt) + 10)' = Over(Start(t) + 10)
  BY <1>1 DEF Over, Start, Nb, First
<1>9. Over(Start(subint_cnt - 1) + 10)' = Over(Start(s) + 10)
  <2>1. (subint_cnt - 1)' = s
    BY <1>1, <1>5
  <2> QED BY <2>1, <1>1 DEF Over, Start, Nb, First
<1>10. Left(Start(subint_cnt) + fld - 1)' = Left(Start(t) + fld' - 1)
  BY <1>1 DEF Left, Start, Nb, First
<1>11. feof => AfterHeader'
  BY <1>3, <1>4, <1>7, <1>8 DEF AfterHeader
<1>12. ~feof => InHeader'
  <2> SUFFICES ASSUME ~feof PROVE InHeader'
    OBVIOUS
  <2> HIDE DEF t
  <2>1. fld' = 1 /\ Start(t) + fld' - 1 = Start(t)
    BY <1>4, <1>6
  <2>2. file' = Left(Start(subint_cnt) + fld - 1)'
    BY <1>3, <1>4, <1>10, <2>1
  <2> QED BY <1>4, <2>1, <2>2 DEF InHeader, Scanned
<1> QED BY <1>1, <1>3, <1>4, <1>9, <1>11, <1>12 DEF PlaceInv

\* A conversion takes a token that it accepts whole, or the file is over.
LEMMA TakeToken ==
  ASSUME TypeOK, NEW p \in Nat, file = Left(p), NEW conv,
         ~Over(p) => /\ input.prof[p + 1].k \in Accepts(conv)
                     /\ Leftover(conv, input.prof[p + 1]) = << >>
  PROVE  /\ Over(p) <=> AtEnd
         /\ Fits(conv) <=> ~Over(p)
         /\ ~Over(p) => AfterConversion(conv) = Left(p + 1) /\ Head(file) = input.prof[p + 1]
         /\ Over(p) => file = Left(p + 1) /\ Over(p + 1)
<1>1. input.prof \in Seq(Token) /\ Len(input.prof) \in Nat
  BY InputIs
<1>2. Over(p) <=> AtEnd
  BY <1>1, LeftIs DEF AtEnd
<1>3. CASE ~Over(p)
  <2>1. Head(file) = input.prof[p + 1] /\ Tail(file) = Left(p + 1)
    BY <1>1, <1>3, LeftIs
  <2>2. Fits(conv)
    BY <2>1, <1>2, <1>3 DEF Fits
  <2>3. AfterConversion(conv) = << >> \o Left(p + 1)
    BY <2>1, <1>3 DEF AfterConversion
  <2>4. Left(p + 1) \in Seq(Token)
    BY <1>1 DEF Left
  <2>5. << >> \o Left(p + 1) = Left(p + 1)
    <3> HIDE DEF Left
    <3> QED BY <2>4
  <2> QED BY <2>1, <2>2, <2>3, <2>5, <1>2, <1>3
<1>4. CASE Over(p)
  <2>1. p + 1 \in Nat /\ Over(p + 1)
    BY <1>1, <1>4 DEF Over
  <2>2. Left(p + 1) = << >> /\ file = << >>
    BY <2>1, <1>1, <1>2, <1>4, LeftIs DEF AtEnd
  <2> QED BY <2>1, <2>2, <1>2, <1>4 DEF Fits
<1> QED BY <1>3, <1>4

\* readHeader.
LEMMA HeaderPlace ==
  ASSUME TypeOK, Quiet, PlaceInv, Reader, call = "header"
  PROVE  PlaceInv'
<1> SUFFICES ASSUME Shaped' PROVE PlaceInv'
  BY DEF PlaceInv
<1> DEFINE s == subint_cnt
           p == Start(s)
           hdr == HdrOf(s)
<1>1. /\ exit = "running" /\ pc' = pc /\ input' = input /\ numchans' = numchans
      /\ HeaderField \/ HeaderReturn
      /\ pc \in {"sanity", "loop"}
  BY ReaderFrame DEF Quiet
<1>2. subint_cnt' = subint_cnt
  BY DEF Reader, subintVars
<1>3. Shaped /\ Uniform(input) /\ Cut(input)
  BY <1>1 DEF Shaped, Uniform, Cut
<1>4. /\ numchans = input.numchans /\ Scanned(p, hdr)
      /\ pc \in {"loop", "close"} /\ s > 1 => ~Over(Start(s - 1) + 10)
  BY <1>1, <1>3 DEF PlaceInv, InHeader
<1>5. s \in Nat \ {0}
  BY DEF TypeOK
<1>6. p \in Nat /\ HeaderAt(p, hdr) /\ hdr \in [FieldNames -> Int]
  <2> HIDE DEF s
  <2> QED BY <1>3, <1>5, Places, Tokens
<1>7. p' = p /\ hdr' = hdr
  BY <1>1, <1>2 DEF Start, HdrOf, Nb, First
<1>8. pc \in {"loop", "close"} /\ (s > 1)' => ~Over(Start(s - 1) + 10)'
  BY <1>1, <1>2, <1>4 DEF Over, Start, Nb, First
<1>9. CASE HeaderField
  <2>1. Scanned(p, hdr)'
    <3> HIDE DEF p, hdr
    <3> QED BY <1>1, <1>4, <1>6, <1>7, <1>9, ScanField
  <2>2. call' = "header"
    BY <1>9 DEF HeaderField
  <2>3. InHeader'
    BY <2>1 DEF InHeader
  <2> QED BY <2>2, <2>3, <1>1, <1>4, <1>8 DEF PlaceInv
<1>10. CASE HeaderReturn
  <2>1. /\ feof' <=> Over(p + 10)
        /\ ~feof' => fh = hdr /\ file = Left(p + 10)
    <3> HIDE DEF p, hdr
    <3> QED BY <1>4, <1>6, <1>10, ScanReturn
  <2>2. file' = file /\ fh' = fh /\ call' = "none"
    BY <1>10 DEF HeaderReturn
  <2>3. Over(p + 10)' = Over(p + 10) /\ Left(p + 10)' = Left(p + 10)
    BY <1>1, <1>7 DEF Over, Left
  <2>4. AfterHeader'
    BY <2>1, <2>2, <2>3, <1>7 DEF AfterHeader
  <2> QED BY <2>2, <2>4, <1>1, <1>4, <1>8 DEF PlaceInv
<1> QED BY <1>1, <1>9, <1>10

\* While bins are read: what is known of the place.
LEMMA AtBins ==
  ASSUME TypeOK, Quiet, BufferInv, PlaceInv, Shaped, call = "subs"
  PROVE  /\ subint_cnt \in Nat \ {0} /\ pc = "cols" /\ numbins = Nb /\ Nb \in Int
         /\ subint_cnt \in DOMAIN input.subints /\ fh.pol = First.pol
         /\ numchans = input.numchans /\ numchans \in Nat \ {0}
         /\ InBins
         /\ ~Over(Start(subint_cnt) + 10) /\ fh = HdrOf(subint_cnt)
         /\ Bin(subint_cnt, b) \in Nat
         /\ Bin(subint_cnt, b + 1) = Bin(subint_cnt, b) + numchans + 1
         /\ Len(input.subints[subint_cnt].cube) = numchans
<1> DEFINE s == subint_cnt
<1>1. Uniform(input) /\ Cut(input) /\ exit = "running" /\ pc = "cols"
  BY DEF Shaped, Quiet
<1>2. s \in Nat \ {0} /\ b \in Nat
  BY DEF TypeOK, ProfTypeOK
<1>3. /\ numchans = input.numchans /\ InBins /\ ~Over(Start(s) + 10) /\ fh = HdrOf(s)
  BY <1>1 DEF PlaceInv
<1>4. numbins = fh.numbins
  BY <1>1 DEF BufferInv
<1> HIDE DEF s
<1>5. Start(s) \in Nat /\ Nb \in Int /\ input.numchans \in Nat \ {0} /\ Bin(s, b) \in Nat
      /\ Bin(s, b + 1) = Bin(s, b) + input.numchans + 1
  BY <1>1, <1>2, Places
<1>6. ~Over(Start(s))
  BY <1>3, <1>5, InputIs DEF Over
<1>7. s \in DOMAIN input.subints /\ HdrOf(s).numbins = Nb /\ HdrOf(s).pol = First.pol
      /\ Len(input.subints[s].cube) = input.numchans
  BY <1>1, <1>2, <1>6, Tokens
<1> QED BY <1>1, <1>2, <1>3, <1>4, <1>5, <1>7 DEF s

\* Where readSubs gets.
LEMMA BinsPlace ==
  ASSUME TypeOK, Quiet, BufferInv, PlaceInv, Reader, call = "subs"
  PROVE  PlaceInv'
<1> SUFFICES ASSUME Shaped' PROVE PlaceInv'
  BY DEF PlaceInv
<1> DEFINE s == subint_cnt
           p == Bin(s, b)
<1>1. /\ exit = "running" /\ pc' = pc /\ input' = input /\ numchans' = numchans
      /\ ReadIndex \/ ReadSample \/ EndBin \/ SubsReturn
  BY ReaderFrame
<1>2. subint_cnt' = subint_cnt
  BY DEF Reader, subintVars
<1>3. Shaped /\ Uniform(input) /\ Cut(input)
  BY <1>1 DEF Shaped, Uniform, Cut
<1>4. /\ s \in Nat \ {0} /\ pc = "cols" /\ numbins = Nb /\ Nb \in Int
      /\ numchans = input.numchans /\ numchans \in Nat \ {0}
      /\ InBins
      /\ ~Over(Start(s) + 10) /\ fh = HdrOf(s)
      /\ p \in Nat
      /\ Bin(s, b + 1) = p + numchans + 1
  BY <1>3, AtBins
<1>5. /\ b \in 0 .. Positive(Nb) /\ c \in -1 .. numchans
      /\ b = Positive(Nb) => c = -1
      /\ file = Left(p + c + 1)
      /\ feof => Over(p + c + 1)
      /\ c = -1 => (feof <=> Over(p))
  BY <1>4 DEF InBins
<1>6. b < numbins => b \in 0 .. Positive(Nb) - 1
  BY <1>4, <1>5 DEF Positive
<1>7. Len(input.prof) \in Nat
  BY InputIs
<1>8. b \in 0 .. Positive(Nb) - 1 =>
         /\ ~Over(p) => input.prof[p + 1] = [k |-> "int", v |-> b + 1]
         /\ \A ch \in 1 .. numchans :
              ~Over(p + ch) => input.prof[p + 1 + ch].k = "real"
  <2> HIDE DEF s
  <2>1. \A bn \in 0 .. Positive(Nb) - 1 :
              /\ ~Over(Bin(s, bn)) => input.prof[Bin(s, bn) + 1] = [k |-> "int", v |-> bn + 1]
              /\ \A ch \in 1 .. input.numchans :
                   ~Over(Bin(s, bn) + ch) =>
                      input.prof[Bin(s, bn) + 1 + ch]
                        = [k |-> "real", v |-> input.subints[s].cube[ch][bn + 1]]
    BY <1>3, <1>4, Tokens
  <2> SUFFICES ASSUME b \in 0 .. Positive(Nb) - 1
               PROVE  /\ ~Over(p) => input.prof[p + 1] = [k |-> "int", v |-> b + 1]
                      /\ \A ch \in 1 .. numchans :
                           ~Over(p + ch) => input.prof[p + 1 + ch].k = "real"
    OBVIOUS
  <2>2. /\ ~Over(p) => input.prof[p + 1] = [k |-> "int", v |-> b + 1]
        /\ \A ch \in 1 .. numchans :
             ~Over(p + ch) => input.prof[p + 1 + ch] = [k |-> "real", v |-> input.subints[s].cube[ch][b + 1]]
    BY <2>1, <1>4, Zenon
  <2>3. \A x : [k |-> "real", v |-> x].k = "real"
    OBVIOUS
  <2> HIDE DEF p
  <2> QED BY <2>2, <2>3, Zenon
<1>9. fh' = fh
  BY <1>1 DEF ReadIndex, ReadSample, EndBin, SubsReturn
<1>10. ~Over(Start(s) + 10)' /\ fh' = HdrOf(s)'
  BY <1>1, <1>2, <1>4, <1>9 DEF Over, Start, HdrOf, Nb, First
<1>11. \A q : Over(q)' = Over(q) /\ Left(q)' = Left(q)
  BY <1>1, SameInput
<1>12. Nb' = Nb /\ input'.numchans = input.numchans
  BY <1>1, SameInput
<1>13. \A bn : Bin(s, bn)' = Bin(s, bn)
  BY <1>1, <1>2 DEF Bin, Nb, First
<1>14. ASSUME b' \in 0 .. Positive(Nb), c' \in -1 .. numchans, b' = Positive(Nb) => c' = -1,
              NEW q \in Nat, q = Bin(s, b') + c' + 1,
              file' = Left(q), feof' => Over(q), c' = -1 => (feof' <=> Over(q)), call' = "subs"
       PROVE  PlaceInv'
  <2>1. Bin(subint_cnt, b)' = Bin(s, b')
    BY <1>1, <1>2 DEF Bin, Nb, First
  <2>2. (Bin(subint_cnt, b) + c + 1)' = q
    BY <2>1, <1>14
  <2>3. c' = -1 => (Bin(subint_cnt, b))' = q
    <3> SUFFICES ASSUME c' = -1 PROVE Bin(subint_cnt, b)' = q
      OBVIOUS
    <3>1. Bin(s, b') \in Nat
      <4>1. b' \in Nat
        BY <1>14, <1>4 DEF Positive
      <4> HIDE DEF s
      <4> QED BY <4>1, <1>3, <1>4, Places
    <3> QED BY <3>1, <2>1, <1>14
  <2>4. Over(Bin(subint_cnt, b) + c + 1)' = Over(q) /\ Left(Bin(subint_cnt, b) + c + 1)' = Left(q)
    BY <2>2, <1>1 DEF Over, Left
  <2>5. c' = -1 => Over(Bin(subint_cnt, b))' = Over(q)
    BY <2>3, <1>1 DEF Over
  <2>6. InBins'
    BY <2>4, <2>5, <1>4, <1>12, <1>14 DEF InBins
  <2> QED BY <2>6, <1>1, <1>4, <1>10, <1>14 DEF PlaceInv
<1>15. CASE ReadIndex
  <2>1. /\ b \in 0 .. Positive(Nb) - 1 /\ c = -1 /\ c' = 0 /\ b' = b /\ call' = "subs"
        /\ file' = (IF Fits("d") THEN AfterConversion("d") ELSE file) /\ feof' = (feof \/ AtEnd)
    BY <1>6, <1>15 DEF ReadIndex
  <2>2. file = Left(p) /\ (feof <=> Over(p)) /\ p + c + 1 = p
    BY <1>4, <1>5, <2>1
  <2>3. ~Over(p) => /\ input.prof[p + 1].k \in Accepts("d")
                    /\ Leftover("d", input.prof[p + 1]) = << >>
    BY <2>1, <1>8 DEF Accepts, Leftover
  <2>4. /\ Over(p) <=> AtEnd
        /\ Fits("d") <=> ~Over(p)
        /\ ~Over(p) => AfterConversion("d") = Left(p + 1)
        /\ Over(p) => file = Left(p + 1) /\ Over(p + 1)
    <3> HIDE DEF p
    <3> QED BY <2>2, <2>3, <1>4, TakeToken
  <2>5. file' = Left(p + 1) /\ (feof' => Over(p + 1))
    BY <2>1, <2>2, <2>4
  <2>6. p + 1 \in Nat /\ p + 1 = Bin(s, b') + c' + 1
    BY <1>4, <2>1
  <2>7. b' # Positive(Nb) /\ b' \in 0 .. Positive(Nb) /\ c' \in -1 .. numchans /\ c' # -1
    BY <2>1, <1>4 DEF Positive
  <2> QED BY <2>1, <2>5, <2>6, <2>7, <1>14
<1>16. CASE ReadSample
  <2>1. /\ b \in 0 .. Positive(Nb) - 1 /\ c \in 0 .. numchans - 1 /\ c' = c + 1 /\ b' = b /\ call' = "subs"
        /\ feof' = (feof \/ AtEnd)
        /\ file' = (IF Fits("f") THEN AfterConversion("f") ELSE file)
    BY <1>4, <1>5, <1>6, <1>16, SMTT(20) DEF ReadSample
  <2> DEFINE q == p + c + 1
  <2>2. q \in Nat /\ file = Left(q) /\ (feof => Over(q)) /\ q = p + (c + 1) /\ q + 1 = p + 1 + (c + 1)
        /\ c + 1 \in 1 .. numchans
    BY <1>4, <1>5, <2>1
  <2>3. ~Over(q) => input.prof[q + 1].k = "real"
    BY <2>1, <2>2, <1>8
  <2> HIDE DEF q
  <2>4. ~Over(q) => /\ input.prof[q + 1].k \in Accepts("f")
                    /\ Leftover("f", input.prof[q + 1]) = << >>
    BY <2>3 DEF Accepts, Leftover
  <2>5. /\ Over(q) <=> AtEnd
        /\ Fits("f") <=> ~Over(q)
        /\ ~Over(q) => AfterConversion("f") = Left(q + 1)
        /\ Over(q) => file = Left(q + 1) /\ Over(q + 1)
    BY <2>2, <2>4, TakeToken
  <2>6. file' = Left(q + 1) /\ (feof' => Over(q + 1))
    BY <2>1, <2>2, <2>5
  <2>7. q + 1 \in Nat /\ q + 1 = Bin(s, b') + c' + 1
    BY <1>4, <2>1, <2>2 DEF q
  <2>8. b' # Positive(Nb) /\ b' \in 0 .. Positive(Nb) /\ c' \in -1 .. numchans /\ c' # -1
    BY <2>1, <1>4 DEF Positive
  <2> QED BY <2>1, <2>6, <2>7, <2>8, <1>14
<1>17. CASE EndBin
  <2>1. /\ b \in 0 .. Positive(Nb) - 1 /\ c = numchans /\ c' = -1 /\ b' = b + 1 /\ call' = "subs"
        /\ feof' = (feof \/ AtEnd) /\ file' = file
    BY <1>4, <1>5, <1>6, <1>17 DEF EndBin
  <2> DEFINE q == p + c + 1
  <2>2. q \in Nat /\ file = Left(q) /\ (feof => Over(q)) /\ q = Bin(s, b + 1)
    BY <1>4, <1>5, <2>1
  <2>3. Bin(s, b + 1) = Bin(s, b')
    BY <2>1
  <2> HIDE DEF q
  <2>4. Over(q) <=> AtEnd
    BY <2>2, InputIs, LeftIs DEF AtEnd
  <2>5. file' = Left(q) /\ (feof' <=> Over(q))
    BY <2>1, <2>2, <2>4
  <2>6. q = Bin(s, b') + c' + 1
    BY <2>1, <2>2, <2>3
  <2>7. b' \in 0 .. Positive(Nb) /\ c' \in -1 .. numchans
    BY <2>1, <1>4 DEF Positive
  <2> QED BY <2>1, <2>2, <2>5, <2>6, <2>7, <1>14
<1>18. CASE SubsReturn
  <2>1. /\ b >= numbins /\ call' = "none" /\ file' = file /\ feof' = feof
    BY <1>18 DEF SubsReturn
  <2>2. b = Positive(Nb) /\ c = -1
    BY <2>1, <1>4, <1>5 DEF Positive
  <2>3. p = Start(s + 1)
    <3> HIDE DEF s
    <3> QED BY <2>2, <1>3, <1>4, Places
  <2>4. p + c + 1 = p
    BY <2>2, <1>4
  <2>5. file' = Left(Start(s + 1)) /\ (feof' <=> Over(Start(s + 1)))
    BY <2>1, <2>2, <2>3, <2>4, <1>5
  <2>6. AfterBins'
    BY <2>5, <1>1, <1>2 DEF AfterBins, Left, Over, Start, Nb, First
  <2> QED BY <2>1, <2>6, <1>1, <1>4, <1>10 DEF PlaceInv
<1> QED BY <1>1, <1>15, <1>16, <1>17, <1>18

LEMMA NextPlace ==
  TypeOK /\ ControlInv /\ Quiet /\ BufferInv /\ RowsInv /\ PlaceInv /\ [Next]_vars => PlaceInv'
<1> SUFFICES ASSUME TypeOK, ControlInv, Quiet, BufferInv, RowsInv, PlaceInv, [Next]_vars
             PROVE  PlaceInv'
  OBVIOUS
<1>1. CASE Launch
  BY <1>1 DEF Launch, PlaceInv
<1>2. CASE RemoveOutput
  BY <1>2 DEF RemoveOutput, PlaceInv, Shaped
<1>3. CASE OpenProf
  BY <1>3, OpenPlace
<1>4. CASE SanityCheck \/ CreateFITS \/ PrimaryHeader \/ PutHistoryTable \/ PutPar
  BY <1>4, SamePlace
  DEF SanityCheck, CreateFITS, PrimaryHeader, PutHistoryTable, PutPar, At, GoOn, ReportAndExitOnError,
      runVars, subintVars
<1>5. CASE CreateSubint
  <2>1. /\ input' = input /\ profVars' = profVars /\ subint_cnt' = subint_cnt
        /\ exit = "running" /\ call = "none" /\ pc = "table"
        /\ exit' = "running" => pc' = "loop"
    BY <1>5 DEF CreateSubint, At, runVars, subintVars
  <2> QED BY <2>1, SamePlace
<1>6. CASE BeginSubint
  BY <1>6, BeginPlace
<1>7. CASE WriteCol
  <2>1. /\ input' = input /\ profVars' = profVars /\ subint_cnt' = subint_cnt
        /\ exit = "running" /\ call = "none" /\ pc = "cols" /\ pc' = "cols"
    BY <1>7 DEF WriteCol, At, ReportAndExitOnError, runVars
  <2> QED BY <2>1, SamePlace
<1>8. CASE NextSubint
  BY <1>8, NextSubintPlace
<1>9. CASE EndSubints
  BY <1>9, SamePlace DEF EndSubints, At, ReportAndExitOnError, runVars, subintVars
<1>10. CASE CloseFITS
  <2>1. exit' # "running"
    BY <1>10 DEF CloseFITS
  <2> QED BY <2>1 DEF PlaceInv, Shaped
<1>11. CASE HeapOverrun
  <2>1. exit' # "running"
    BY <1>11 DEF HeapOverrun
  <2> QED BY <2>1 DEF PlaceInv, Shaped
<1>12. CASE Reader
  <2>1. call \in {"header", "subs"}
    BY <1>12, ReaderFrame, SMTT(20)
  <2> QED BY <2>1, <1>12, HeaderPlace, BinsPlace
<1>13. CASE UNCHANGED vars
  BY <1>13 DEF vars, runVars, profVars, subintVars, PlaceInv, Shaped, Uniform, Cut, InHeader, AfterHeader, InBins,
               AfterBins, Scanned, Over, Left, Start, Bin, HdrOf, Nb, First
<1> QED
  BY <1>1, <1>2, <1>3, <1>4, <1>5, <1>6, <1>7, <1>8, <1>9, <1>10, <1>11, <1>12, <1>13
  DEF Next, Program, Operator

-----------------------------------------------------------------------------
(* RowPerSubint *)

\* Where the bins of a sub-integration begin.
LEMMA HeaderEndIs ==
  ASSUME TypeOK, Uniform(input), NEW s \in DOMAIN input.subints
  PROVE  HeaderEnd(input, s) = Start(s) + 10 /\ Start(s) \in Nat
<1> DEFINE subs == input.subints
           nc == input.numchans
<1>1. /\ subs \in Seq(Subints) /\ Len(subs) \in Nat /\ DOMAIN subs = 1 .. Len(subs)
      /\ Len(input.prof) \in Nat
      /\ \A i \in DOMAIN subs : IsWhole(subs[i])
  BY InputIs
<1>0. s \in 1 .. Len(subs)
  BY <1>1
<1>2. Nb \in Int /\ nc \in Nat
  BY Places
<1>3. \A i \in 1 .. Len(subs) : subs[i].hdr.numbins = Nb /\ Len(subs[i].cube) = nc
  BY <1>1 DEF Uniform, Nb, First
<1>4. Len(Render(SubSeq(subs, 1, s - 1))) = Start(s) /\ Start(s) \in Nat
  <2> DEFINE t == SubSeq(subs, 1, s - 1)
  <2> HIDE DEF subs
  <2>1. s \in Nat \ {0} /\ s <= Len(subs)
    BY <1>0, <1>1
  <2>2. t \in Seq(Subints) /\ Len(t) = s - 1 /\ \A i \in 1 .. s - 1 : t[i] = subs[i] /\ i \in 1 .. Len(subs)
    BY <1>1, <2>1
  <2> HIDE DEF t, nc
  <2>3. OneShape(t, Nb, nc)
    BY <2>2, <1>1, <1>3 DEF OneShape
  <2>4. Len(Render(t)) = Len(t) * SubintLength(Nb, nc)
    <3>1. Laid(Render(t), t, Nb, nc)
      BY <1>2, <2>3, RenderIs
    <3> QED BY <3>1, Zenon DEF Laid
  <2>5. Start(s) \in Nat
    BY <2>1, Places
  <2> QED BY <2>2, <2>4, <2>5 DEF Start, StartOf, t, nc
<1>5. Len(HeaderOrder) = 9
  BY DEF HeaderOrder
<1>6. HeaderEnd(input, s) = Start(s) + 10
  <2> DEFINE l == Len(Render(SubSeq(subs, 1, s - 1)))
             p == Start(s)
  <2>1. HeaderEnd(input, s) = l + 1 + Len(HeaderOrder)
    BY DEF HeaderEnd
  <2>2. l = p /\ p \in Nat
    BY <1>4
  <2> HIDE DEF l, p
  <2>3. l + 1 + 9 = p + 10
    BY <2>2
  <2> QED BY <2>1, <2>3, <1>5 DEF p
<1> QED BY <1>4, <1>6

\* A sub-integration is begun when the file goes on after its header.
LEMMA BegunIs ==
  ASSUME TypeOK, Uniform(input)
  PROVE  Begun(input) = {s \in DOMAIN input.subints : ~Over(Start(s) + 10)}
<1>1. ASSUME NEW s \in DOMAIN input.subints
      PROVE  (HeaderEnd(input, s) < Len(input.prof)) <=> ~Over(Start(s) + 10)
  BY HeaderEndIs, InputIs DEF Over
<1> QED BY <1>1, Zenon DEF Begun

LEMMA RowsAreBegun == TypeOK /\ Quiet /\ RowsInv /\ PlaceInv => RowPerSubint
<1> SUFFICES ASSUME TypeOK, Quiet, RowsInv, PlaceInv, exit = "running", Uniform(input), Cut(input)
             PROVE  /\ subint_cnt - 1 <= Cardinality(Begun(input))
                    /\ pc = "close" => subint_cnt - 1 = Cardinality(Begun(input))
  BY DEF RowPerSubint
<1> DEFINE s == subint_cnt
           B == Begun(input)
           N == Len(input.subints)
<1>1. Shaped
  BY DEF Shaped
<1>2. s \in Nat \ {0} /\ N \in Nat /\ DOMAIN input.subints = 1 .. N /\ Len(input.prof) \in Nat
  BY InputIs DEF TypeOK
<1>3. B = {r \in 1 .. N : ~Over(Start(r) + 10)}
  BY <1>2, BegunIs
<1>4. /\ s = 1 \/ ~Over(Start(s - 1) + 10)
      /\ pc = "close" => Over(Start(s) + 10)
  <2>1. CASE pc \notin {"loop", "cols", "close"}
    BY <2>1 DEF RowsInv
  <2>2. CASE pc = "cols"
    <3>1. ~Over(Start(s) + 10)
      BY <1>1, <2>2 DEF PlaceInv
    <3>2. s # 1 => Start(s - 1) <= Start(s) /\ Start(s - 1) \in Nat /\ Start(s) \in Nat
      <4> SUFFICES ASSUME s # 1 PROVE Start(s - 1) <= Start(s) /\ Start(s - 1) \in Nat /\ Start(s) \in Nat
        OBVIOUS
      <4> DEFINE t == s - 1
      <4>1. t \in Nat \ {0} /\ t <= s
        BY <1>2
      <4> HIDE DEF t, s
      <4>2. Start(t) <= Start(s) /\ Start(t) \in Nat /\ Start(s) \in Nat
        BY <4>1, <1>2, Places
      <4> QED BY <4>2 DEF t
    <3> QED BY <3>1, <3>2, <1>2, <2>2 DEF Over
  <2>3. CASE pc \in {"loop", "close"}
    <3>1. s > 1 => ~Over(Start(s - 1) + 10)
      BY <1>1, <2>3 DEF PlaceInv
    <3>2. pc = "close" => feof
      BY <1>1 DEF PlaceInv
    <3>3. pc = "close" => call = "none"
      BY DEF Quiet, TypeOK, ProfTypeOK
    <3>4. pc = "close" => Over(Start(s) + 10)
      BY <1>1, <3>2, <3>3 DEF PlaceInv, AfterHeader
    <3> QED BY <3>1, <3>4, <1>2, <2>3
  <2> QED BY <2>1, <2>2, <2>3
<1>5. \A r, q \in Nat \ {0} : r <= q /\ Over(Start(r) + 10) => Over(Start(q) + 10)
  <2> SUFFICES ASSUME NEW r \in Nat \ {0}, NEW q \in Nat \ {0}, r <= q, Over(Start(r) + 10)
               PROVE  Over(Start(q) + 10)
    OBVIOUS
  <2>1. Start(r) <= Start(q) /\ Start(r) \in Nat /\ Start(q) \in Nat
    BY Places
  <2> QED BY <2>1, <1>2 DEF Over
<1> HIDE DEF s, B, N
<1>6. 1 .. s - 1 \subseteq B
  <2> SUFFICES ASSUME NEW r \in 1 .. s - 1 PROVE r \in B
    OBVIOUS
  <2>1. s # 1 /\ r \in Nat \ {0} /\ s - 1 \in Nat \ {0} /\ r <= s - 1
    BY <1>2
  <2>2. ~Over(Start(r) + 10)
    BY <2>1, <1>4, <1>5
  <2>3. ~Over(Start(r))
    <3>1. Start(r) \in Nat
      BY <2>1, Places
    <3> QED BY <3>1, <2>2, <1>2 DEF Over
  <2>4. r \in DOMAIN input.subints
    BY <2>1, <2>3, Tokens
  <2> QED BY <2>2, <2>4, <1>2, <1>3
<1>7. pc = "close" => B \subseteq 1 .. s - 1
  <2> SUFFICES ASSUME pc = "close", NEW r \in B PROVE r \in 1 .. s - 1
    OBVIOUS
  <2>1. r \in Nat \ {0} /\ ~Over(Start(r) + 10)
    BY <1>2, <1>3
  <2>2. ~(s <= r)
    BY <2>1, <1>2, <1>4, <1>5
  <2> QED BY <2>1, <2>2, <1>2
<1>8. IsFiniteSet(1 .. N) /\ B \in SUBSET (1 .. N)
  BY <1>2, <1>3, FS_Interval
<1>9. IsFiniteSet(B)
  BY <1>8, FS_Subset
<1>10. Cardinality(1 .. s - 1) = s - 1
  <2>1. Cardinality(1 .. s - 1) = IF 1 > s - 1 THEN 0 ELSE (s - 1) - 1 + 1
    <3>1. 1 \in Int /\ s - 1 \in Int
      BY <1>2
    <3> QED BY <3>1, FS_Interval
  <2> QED BY <2>1, <1>2
<1>11. Cardinality(1 .. s - 1) <= Cardinality(B)
  BY <1>6, <1>9, FS_Subset
<1>12. pc = "close" => 1 .. s - 1 = B
  BY <1>6, <1>7
<1> QED BY <1>10, <1>11, <1>12 DEF s, B

\* Of a file of one shape that ends anywhere, PutSubint writes a row for every
\* sub-integration that was begun and none for another: for any number of bins,
\* channels and polarisations, and wherever the end is.
THEOREM RowsMatchSubints == Spec => []RowPerSubint
<1>1. Init => Quiet /\ BufferInv /\ RowsInv /\ PlaceInv
  BY InitBuffer, InitRows DEF Init, Quiet, PlaceInv, Shaped
<1>2. TypeOK /\ Quiet /\ [Next]_vars => Quiet'
  BY NextQuiet
<1>3. TypeOK /\ ControlInv /\ BufferInv /\ [Next]_vars => BufferInv'
  BY NextBuffer
<1>4. TypeOK /\ ControlInv /\ RowsInv /\ [Next]_vars => RowsInv'
  BY NextRows
<1>5. TypeOK /\ ControlInv /\ Quiet /\ BufferInv /\ RowsInv /\ PlaceInv /\ [Next]_vars => PlaceInv'
  BY NextPlace
<1>6. TypeOK /\ Quiet /\ RowsInv /\ PlaceInv => RowPerSubint
  BY RowsAreBegun
<1> QED
  BY <1>1, <1>2, <1>3, <1>4, <1>5, <1>6, TypeCorrect, ControlIsRight, PTL DEF Spec

-----------------------------------------------------------------------------
(* RowsHoldTheirSamples *)

\* The sizes PutSubint computes from the header of a sub-integration.
LEMMA WidthIs ==
  ASSUME TypeOK, Uniform(input), Cut(input), NEW s \in Nat \ {0},
         numchans = input.numchans, fh = HdrOf(s), ~Over(Start(s) + 10)
  PROVE  ndata = RowWidth /\ ~Over(10) /\ IsInt(RowWidth)
<1>1. Start(s) \in Nat /\ Len(input.prof) \in Nat
  BY Places, InputIs
<1>2. ~Over(Start(s)) /\ ~Over(10)
  BY <1>1 DEF Over
<1>3. /\ HdrOf(s).numbins = Nb /\ HdrOf(s).pol = First.pol
      /\ s \in DOMAIN input.subints /\ HdrOf(s) = input.subints[s].hdr
      /\ HdrOf(s) \in [FieldNames -> Int]
  BY <1>2, Tokens
<1>4. input.numchans * First.pol \in Int /\ Nb * (input.numchans * First.pol) \in Int
  <2>1. First.pol \in Int
    BY <1>3 DEF FieldNames
  <2>2. input.numchans \in Nat \ {0} /\ Nb \in Int
    BY Places
  <2>3. input.numchans * First.pol \in Int
    BY <2>1, <2>2
  <2> QED BY <2>2, <2>3
<1>5. IsInt(input.numchans * First.pol) /\ IsInt(Nb * (input.numchans * First.pol))
  BY <1>3 DEF Uniform
<1>6. nscl = input.numchans * First.pol
  BY <1>3, <1>4, <1>5, AsIntIs DEF nscl
<1>7. ndata = Nb * (input.numchans * First.pol)
  BY <1>3, <1>4, <1>5, <1>6, AsIntIs DEF ndata
<1> QED BY <1>2, <1>5, <1>7 DEF RowWidth

\* What readSubs stores next, if there is more of the file.
LEMMA SampleIs ==
  ASSUME TypeOK, Quiet, BufferInv, PlaceInv, Shaped, call = "subs", b < numbins, c >= 0, c < numchans
  PROVE  LET sub == input.subints[subint_cnt]
         IN  /\ subint_cnt \in DOMAIN input.subints
             /\ b \in 0 .. Positive(Nb) - 1 /\ c \in 0 .. input.numchans - 1
             /\ AtEnd <=> Over(Bin(subint_cnt, b) + c + 1)
             /\ c + 1 \in DOMAIN sub.cube /\ b + 1 \in DOMAIN sub.cube[c + 1]
             /\ ~AtEnd => Head(file) = [k |-> "real", v |-> sub.cube[c + 1][b + 1]]
<1> DEFINE s == subint_cnt
           p == Bin(s, b)
           q == p + c + 1
           sub == input.subints[s]
<1>2. /\ s \in Nat \ {0} /\ numbins = Nb /\ Nb \in Int
      /\ s \in DOMAIN input.subints
      /\ numchans = input.numchans /\ numchans \in Nat \ {0}
      /\ InBins /\ p \in Nat /\ Len(sub.cube) = numchans
  BY AtBins
<1>3. b \in 0 .. Positive(Nb) - 1 /\ c \in 0 .. numchans - 1 /\ c + 1 \in 1 .. numchans
  BY <1>2 DEF InBins, Positive
<1>4. q \in Nat /\ q = p + (c + 1) /\ q + 1 = p + 1 + (c + 1) /\ file = Left(q)
  <2>1. p \in Nat /\ c \in Nat /\ file = Left(p + c + 1)
    BY <1>2, <1>3 DEF InBins
  <2> HIDE DEF p
  <2> QED BY <2>1
<1>5. AtEnd <=> Over(q)
  <2> HIDE DEF q
  <2> QED BY <1>4, InputIs, LeftIs DEF AtEnd
<1>6. ~AtEnd => Head(file) = input.prof[q + 1]
  <2> HIDE DEF q
  <2> QED BY <1>4, <1>5, InputIs, LeftIs
<1>7. Uniform(input) /\ Cut(input)
  BY DEF Shaped
<1>8. ~AtEnd => input.prof[q + 1] = [k |-> "real", v |-> sub.cube[c + 1][b + 1]]
  <2> HIDE DEF s
  <2>1. \A bn \in 0 .. Positive(Nb) - 1 :
           \A ch \in 1 .. input.numchans :
              ~Over(Bin(s, bn) + ch) =>
                 input.prof[Bin(s, bn) + 1 + ch]
                   = [k |-> "real", v |-> input.subints[s].cube[ch][bn + 1]]
    BY <1>2, <1>7, Tokens
  <2> QED BY <2>1, <1>2, <1>3, <1>4, <1>5
<1>9. c + 1 \in DOMAIN sub.cube /\ b + 1 \in DOMAIN sub.cube[c + 1]
  <2>1. input.subints \in Seq(Subints)
    BY InputIs
  <2>2. sub \in Subints
    BY <2>1, <1>2
  <2>3. sub.cube \in Seq(Seq(Int))
    BY <2>2 DEF Subints
  <2>4. c + 1 \in DOMAIN sub.cube
    BY <2>3, <1>2, <1>3, SMTT(20)
  <2>5. DOMAIN sub.cube[c + 1] = 1 .. sub.hdr.numbins
    BY <2>4, <1>2, InputsAssumption DEF TypeOK
  <2>6. sub.hdr.numbins = Nb
    BY <1>2, <1>7 DEF Uniform, Nb, First
  <2>7. b + 1 \in 1 .. Nb
    BY <1>2, <1>3 DEF Positive
  <2> QED BY <2>4, <2>5, <2>6, <2>7
<1> QED BY <1>2, <1>3, <1>5, <1>6, <1>8, <1>9

\* Different samples have different places.
LEMMA SlotsDiffer ==
  ASSUME NEW nb \in Nat \ {0}, NEW bn \in 0 .. nb - 1, NEW bm \in 0 .. nb - 1,
         NEW ch \in Nat, NEW cm \in Nat, ch * nb + bn + 1 = cm * nb + bm + 1
  PROVE  ch = cm /\ bn = bm
<1>1. (ch * nb + bn) \div nb = ch /\ (ch * nb + bn) % nb = bn
  BY Division
<1>2. (cm * nb + bm) \div nb = cm /\ (cm * nb + bm) % nb = bm
  BY Division
<1>3. ch * nb + bn = cm * nb + bm
  <2> DEFINE x == ch * nb
             y == cm * nb
  <2>1. x \in Nat /\ y \in Nat /\ x + bn + 1 = y + bm + 1
    OBVIOUS
  <2> HIDE DEF x, y
  <2>2. x + bn = y + bm
    BY <2>1
  <2> QED BY <2>2 DEF x, y
<1> QED BY <1>1, <1>2, <1>3

\* In a row with elements every bin and channel has a place.
LEMMA PlaceIsInRow ==
  ASSUME TypeOK, Uniform(input), input.subints # << >>, RowWidth \in Nat, RowWidth # 0,
         NEW ch \in 0 .. input.numchans - 1, NEW bn \in 0 .. Nb - 1
  PROVE  /\ First.pol \in Nat \ {0}
         /\ ch * Nb + bn + 1 \in 1 .. RowWidth
<1>1. input.numchans \in Nat \ {0} /\ Nb \in Int
  BY Places
<1>2. Nb \in Nat \ {0}
  BY <1>1
<1>3. First.pol \in Int
  <2>1. input.subints \in Seq(Subints) /\ 1 \in DOMAIN input.subints
    BY InputIs
  <2>2. input.subints[1] \in Subints
    BY <2>1
  <2> QED BY <2>2 DEF Subints, First, FieldNames
<1> DEFINE row == input.numchans * First.pol
<1>4. row > 0
  <2>1. row \in Int /\ Nb * row \in Nat /\ Nb * row # 0
    BY <1>1, <1>3 DEF RowWidth
  <2> HIDE DEF row
  <2> QED BY <2>1, <1>2
<1>5. First.pol > 0
  BY <1>1, <1>3, <1>4
<1>6. ch * Nb + bn + 1 \in 1 .. Nb * (input.numchans * First.pol)
  <2>1. First.pol \in Nat \ {0}
    BY <1>3, <1>5
  <2> QED BY <1>1, <1>2, <2>1, SlotIsInBuffer
<1> QED BY <1>3, <1>5, <1>6 DEF RowWidth

\* readSubs stores a sample in its place and leaves the others.
LEMMA SampleStored ==
  ASSUME TypeOK, Quiet, BufferInv, PlaceInv, SubwayInv, Shaped, Reader, ReadSample
  PROVE  SubwayInv'
<1> DEFINE s == subint_cnt
           nc == input.numchans
<1>1. /\ exit = "running" /\ call = "subs" /\ pc = "cols" /\ pc' = pc /\ input' = input
      /\ subint_cnt' = subint_cnt /\ call' = call /\ b' = b /\ c' = c + 1
      /\ b < numbins /\ c >= 0 /\ c < numchans
  BY DEF Reader, ReadSample, Quiet, runVars, subintVars
<1>2. /\ s \in Nat \ {0} /\ s \in DOMAIN input.subints /\ numbins = Nb /\ Nb \in Int
      /\ numchans = nc /\ nc \in Nat \ {0}
      /\ ~Over(Start(s) + 10) /\ fh = HdrOf(s)
  BY <1>1, AtBins
<1>3. /\ b \in 0 .. Nb - 1 /\ c \in 0 .. nc - 1 /\ Nb \in Nat \ {0}
      /\ AtEnd <=> ~InTheFile(s, c, b)
      /\ ~AtEnd => Head(file) = SampleOf(s, c, b)
  <2>1. /\ b \in 0 .. Positive(Nb) - 1 /\ c \in 0 .. nc - 1
        /\ AtEnd <=> Over(Bin(s, b) + c + 1)
        /\ ~AtEnd => Head(file) = [k |-> "real", v |-> input.subints[s].cube[c + 1][b + 1]]
    BY <1>1, SampleIs
  <2>2. Nb \in Nat \ {0} /\ b \in 0 .. Nb - 1
    BY <2>1, <1>1, <1>2 DEF Positive
  <2> QED BY <2>1, <2>2 DEF InTheFile, SampleOf
<1>4. Fits("f") <=> ~AtEnd
  <2>1. ~AtEnd => Head(file).k = "real"
    BY <1>3 DEF SampleOf
  <2> QED BY <2>1 DEF Fits, Accepts
<1>5. /\ Len(subway) = RowWidth /\ RowWidth \in Nat
      /\ RowWidth # 0 =>
           \A ch \in 0 .. nc - 1 : \A bn \in 0 .. Nb - 1 :
             InTheFile(s, ch, bn) /\ (bn < b \/ (bn = b /\ ch < c)) =>
               subway[ch * Nb + bn + 1] = SampleOf(s, ch, bn)
  <2>1. Len(subway) \in Nat
    BY DEF TypeOK, ProfTypeOK
  <2> QED BY <1>1, <2>1 DEF SubwayInv
<1>6. /\ Nb' = Nb /\ RowWidth' = RowWidth
      /\ \A ch, bn : InTheFile(s, ch, bn)' = InTheFile(s, ch, bn)
      /\ \A ch, bn : SampleOf(s, ch, bn)' = SampleOf(s, ch, bn)
  BY <1>1, SameInput DEF RowWidth, InTheFile, SampleOf
<1>7. Len(subway') = RowWidth
  BY <1>4, <1>5 DEF ReadSample
<1>8. ASSUME RowWidth # 0, NEW ch \in 0 .. nc - 1, NEW bn \in 0 .. Nb - 1,
             InTheFile(s, ch, bn), bn < b \/ (bn = b /\ ch < c + 1)
      PROVE  subway'[ch * Nb + bn + 1] = SampleOf(s, ch, bn)
  <2> DEFINE i == ch * Nb + bn + 1
  <2>1. Uniform(input) /\ Cut(input) /\ input.subints # << >>
    BY <1>2 DEF Shaped
  <2>2. First.pol \in Nat \ {0} /\ i \in 1 .. RowWidth
    BY <1>5, <1>8, <2>1, PlaceIsInRow
  <2>3. IsInt(RowWidth)
    BY <1>2, <2>1, WidthIs
  <2>4. Slot = c * Nb + b + 1
    BY <1>2, <1>3, <2>2, <2>3, SlotIs DEF RowWidth
  <2>5. CASE ch = c /\ bn = b
    <3>1. Fits("f") /\ Head(file) = SampleOf(s, c, b)
      BY <1>3, <1>4, <1>8, <2>5
    <3>2. subway' = [k \in 1 .. Len(subway) |-> IF k = Slot THEN Head(file) ELSE subway[k]]
      BY <3>1 DEF ReadSample
    <3> QED BY <3>1, <3>2, <2>2, <2>4, <2>5, <1>5
  <2>6. CASE ~(ch = c /\ bn = b)
    <3>1. bn < b \/ (bn = b /\ ch < c)
      BY <1>3, <1>8, <2>6, <1>2
    <3>2. subway[i] = SampleOf(s, ch, bn)
      BY <3>1, <1>5, <1>8
    <3>3. i # Slot
      <4>1. ch \in Nat /\ c \in Nat
        BY <1>2, <1>3
      <4> QED BY <4>1, <1>3, <2>4, <2>6, SlotsDiffer
    <3>4. subway' = subway \/ subway' = [k \in 1 .. Len(subway) |-> IF k = Slot THEN Head(file) ELSE subway[k]]
      BY DEF ReadSample
    <3>5. subway'[i] = subway[i]
      <4> HIDE DEF i
      <4> QED BY <3>3, <3>4, <2>2, <1>5
    <3> QED BY <3>2, <3>5
  <2> QED BY <2>5, <2>6
<1> QED BY <1>1, <1>6, <1>7, <1>8 DEF SubwayInv

LEMMA NextSubway ==
  TypeOK /\ Quiet /\ BufferInv /\ PlaceInv /\ SubwayInv /\ [Next]_vars => SubwayInv'
<1> SUFFICES ASSUME TypeOK, Quiet, BufferInv, PlaceInv, SubwayInv, [Next]_vars,
                    Shaped', pc' = "cols"
             PROVE  SubwayInv'
  BY DEF SubwayInv
<1>1. ASSUME input' = input, subint_cnt' = subint_cnt
      PROVE  /\ Nb' = Nb /\ RowWidth' = RowWidth
             /\ \A ch, bn : InTheFile(subint_cnt, ch, bn)' = InTheFile(subint_cnt, ch, bn)
             /\ \A ch, bn : SampleOf(subint_cnt, ch, bn)' = SampleOf(subint_cnt, ch, bn)
  BY <1>1, SameInput DEF RowWidth, InTheFile, SampleOf
<1>2. ASSUME input' = input, subint_cnt' = subint_cnt, subway' = subway, exit = "running", pc = "cols",
             \A ch \in 0 .. input.numchans - 1 : \A bn \in 0 .. Nb - 1 :
               call' = "none" \/ bn < b' \/ (bn = b' /\ ch < c') =>
                 call = "none" \/ bn < b \/ (bn = b /\ ch < c)
      PROVE  SubwayInv'
  <2>1. Shaped
    BY <1>2 DEF Shaped, Uniform, Cut
  <2> QED BY <2>1, <1>1, <1>2 DEF SubwayInv
<1>3. CASE Launch \/ RemoveOutput
  BY <1>3 DEF Launch, RemoveOutput, Shaped
<1>4. CASE OpenProf \/ SanityCheck \/ CreateFITS \/ PrimaryHeader \/ PutHistoryTable \/ PutPar \/ CreateSubint
  BY <1>4 DEF OpenProf, SanityCheck, CreateFITS, PrimaryHeader, PutHistoryTable, PutPar, CreateSubint, At,
              GoOn, ReportAndExitOnError, Shaped
<1>5. CASE BeginSubint
  <2>1. /\ exit = "running" /\ pc = "loop" /\ call = "none" /\ ~feof
        /\ numchans >= 0 /\ nscl >= 0 /\ ndata >= 0
        /\ CallReadSubs(ndata) /\ input' = input /\ subint_cnt' = subint_cnt
    <3>1. /\ exit = "running" /\ pc = "loop" /\ call = "none" /\ ~feof
          /\ ~(numchans < 0 \/ nscl < 0 \/ ndata < 0)
          /\ CallReadSubs(ndata) /\ input' = input /\ subint_cnt' = subint_cnt
      BY <1>5 DEF BeginSubint, At, runVars, Shaped
    <3>2. numchans \in Int /\ nscl \in Int /\ ndata \in Int
      BY SizesAreIntegers DEF TypeOK, ProfTypeOK
    <3> QED BY <3>1, <3>2
  <2>2. Shaped
    BY <2>1 DEF Shaped, Uniform, Cut
  <2>3. /\ numchans = input.numchans /\ ~Over(Start(subint_cnt) + 10) /\ fh = HdrOf(subint_cnt)
        /\ Uniform(input) /\ Cut(input) /\ subint_cnt \in Nat \ {0}
    BY <2>1, <2>2 DEF PlaceInv, AfterHeader, Shaped, TypeOK
  <2>4. ndata = RowWidth /\ ndata \in Nat
    BY <2>1, <2>3, WidthIs, SizesAreIntegers
  <2>5. Len(subway') = ndata
    BY <2>1, <2>4, NewBuffer
  <2>6. call' = "subs" /\ b' = 0 /\ c' = -1
    BY <2>1 DEF CallReadSubs
  <2>7. Nb' = Nb /\ RowWidth' = RowWidth
    BY <2>1, <1>1
  <2>8. \A ch \in 0 .. input.numchans - 1 : \A bn \in 0 .. Nb - 1 :
           ~(call' = "none" \/ bn < b' \/ (bn = b' /\ ch < c'))
    BY <2>6, <2>3, Places
  <2> QED BY <2>1, <2>4, <2>5, <2>7, <2>8 DEF SubwayInv
<1>6. CASE WriteCol
  BY <1>6, <1>2 DEF WriteCol, At, runVars, profVars
<1>7. CASE NextSubint \/ EndSubints \/ CloseFITS \/ HeapOverrun
  BY <1>7 DEF NextSubint, EndSubints, CloseFITS, HeapOverrun, At, ReportAndExitOnError, Shaped
<1>8. CASE Reader
  <2>1. /\ exit = "running" /\ pc = "cols" /\ input' = input /\ subint_cnt' = subint_cnt /\ call = "subs"
        /\ ReadIndex \/ ReadSample \/ EndBin \/ SubsReturn
    BY <1>8, ReaderFrame DEF Reader, subintVars, Quiet
  <2>2. Shaped
    BY <2>1 DEF Shaped, Uniform, Cut
  <2>3. numbins = Nb /\ Nb \in Int /\ numchans = input.numchans /\ input.numchans \in Nat \ {0} /\ InBins
    BY <2>1, <2>2, AtBins
  <2>4. b \in 0 .. Positive(Nb) /\ c \in -1 .. input.numchans
    BY <2>3 DEF InBins
  <2>5. CASE ReadSample
    BY <1>8, <2>2, <2>5, SampleStored
  <2>6. CASE ReadIndex
    BY <2>1, <2>3, <2>4, <2>6, <1>2 DEF ReadIndex
  <2>7. CASE EndBin
    <3>1. c = input.numchans /\ b' = b + 1 /\ c' = -1 /\ subway' = subway /\ call' = call
      BY <2>3, <2>4, <2>7 DEF EndBin
    <3>2. b \in Nat
      BY DEF TypeOK, ProfTypeOK
    <3> QED BY <3>1, <3>2, <2>1, <2>3, <1>2
  <2>8. CASE SubsReturn
    <3>1. b >= Nb /\ b' = b /\ c' = c /\ subway' = subway /\ b \in Nat
      BY <2>3, <2>8 DEF SubsReturn, TypeOK, ProfTypeOK
    <3> QED BY <3>1, <2>1, <2>3, <1>2
  <2> QED BY <2>1, <2>5, <2>6, <2>7, <2>8
<1>9. CASE UNCHANGED vars
  BY <1>9, <1>2 DEF vars, runVars, profVars, subintVars, Shaped
<1> QED
  BY <1>3, <1>4, <1>5, <1>6, <1>7, <1>8, <1>9 DEF Next, Program, Operator

\* The elements of DATA after a write: those written, and the ones before.
LEMMA DataAfterIs ==
  ASSUME TypeOK, NEW n \in Nat, n >= subint_cnt, NEW elems \in Seq(Sample), Len(elems) \in {0, width[19]},
         Len(data) <= Len(cells) * width[19]
  PROVE  LET new   == DataAfter(n, subint_cnt, elems)
             first == (subint_cnt - 1) * width[19]
         IN  /\ Len(new) = (IF n > Len(cells) THEN n ELSE Len(cells)) * width[19]
             /\ \A i \in DOMAIN data :
                  i <= first \/ elems = << >> => i \in DOMAIN new /\ new[i] = data[i]
             /\ \A j \in 1 .. Len(elems) : first + j \in DOMAIN new /\ new[first + j] = elems[j]
<1> DEFINE w == width[19]
           rows == IF n > Len(cells) THEN n ELSE Len(cells)
           size == rows * w
           first == (subint_cnt - 1) * w
           Elem(i) == IF i - first \in 1 .. Len(elems) THEN elems[i - first]
                      ELSE IF i <= Len(data) THEN data[i] ELSE Zero
           new == DataAfter(n, subint_cnt, elems)
<1>1. w \in Nat /\ subint_cnt \in Nat \ {0}
  BY DEF TypeOK, Columns
<1>2. Len(cells) \in Nat /\ Len(data) \in Nat /\ DOMAIN data = 1 .. Len(data) /\ Len(elems) \in {0, w}
  BY LenProperties DEF TypeOK
<1>3. rows \in Nat /\ rows >= subint_cnt /\ rows >= Len(cells)
  BY <1>1, <1>2
<1>4. size \in Nat /\ first \in Nat
  BY <1>1, <1>3
<1>5. Len(data) <= size
  <2>1. Len(cells) * w <= size
    BY <1>1, <1>2, <1>3, TimesIsMonotonic
  <2>2. Len(cells) * w \in Nat /\ Len(data) <= Len(cells) * w
    BY <1>1, <1>2
  <2> HIDE DEF size, w
  <2> QED BY <2>1, <2>2, <1>2, <1>4
<1>6. first + w <= size
  <2>1. subint_cnt * w <= size
    BY <1>1, <1>3, TimesIsMonotonic
  <2>2. subint_cnt * w = first + w
    BY <1>1
  <2> QED BY <2>1, <2>2
<1>7. new = [i \in 1 .. size |-> Elem(i)]
  BY DEF DataAfter
<1> HIDE DEF w, rows, size, Elem, new, first
<1>8. DOMAIN new = 1 .. size /\ Len(new) = size /\ \A i \in 1 .. size : new[i] = Elem(i)
  BY <1>4, <1>7
<1>9. ASSUME NEW i \in DOMAIN data, i <= first \/ elems = << >>
      PROVE  i \in DOMAIN new /\ new[i] = data[i]
  <2>1. i \in 1 .. size /\ i <= Len(data)
    BY <1>2, <1>4, <1>5
  <2>2. ~(i - first \in 1 .. Len(elems))
    BY <2>1, <1>2, <1>4, <1>9
  <2> QED BY <2>1, <2>2, <1>8 DEF Elem
<1>10. ASSUME NEW j \in 1 .. Len(elems)
       PROVE  first + j \in DOMAIN new /\ new[first + j] = elems[j]
  <2>1. first + j \in 1 .. size /\ (first + j) - first = j
    BY <1>1, <1>2, <1>4, <1>6
  <2> QED BY <2>1, <1>8 DEF Elem
<1> QED BY <1>8, <1>9, <1>10 DEF new, w, first, size, rows

\* What is written stays right as long as DATA and the input are the same.
LEMMA SameRow ==
  ASSUME input' = input, width' = width, data' = data
  PROVE  \A r : RowHeld(r)' = RowHeld(r)
  BY SameInput DEF RowHeld, InTheFile, SampleOf

\* A step that leaves the output alone.
LEMMA SameData ==
  ASSUME TypeOK, DataInv, data' = data, width' = width, cells' = cells, input' = input,
         disk' = "absent" => disk = "absent",
         exit' = "running" => exit = "running",
         exit' = "running" /\ status' = 0 => status = 0,
         exit' = "running" /\ pc' \in {"primary", "history", "par", "table"} =>
           pc \in {"primary", "history", "par", "table"},
         exit' = "running" /\ pc' \in {"loop", "cols"} =>
           /\ pc \in {"loop", "cols"}
           /\ \/ /\ subint_cnt' = subint_cnt
                 /\ pc' = "cols" /\ col' > 19 => pc = "cols" /\ col > 19
              \/ pc = "cols" /\ col > 19 /\ pc' = "loop" /\ subint_cnt' = subint_cnt + 1
  PROVE  DataInv'
<1>1. disk' = "absent" => data' = << >>
  BY DEF DataInv
<1>2. exit' = "running" /\ status' = 0 /\ pc' \in {"primary", "history", "par", "table"} => data' = << >>
  BY DEF DataInv
<1>3. ASSUME Shaped', status' = 0, pc' \in {"loop", "cols"}
      PROVE  /\ ~Over(10)' => width'[19] = RowWidth'
             /\ Len(data') <= Len(cells') * width'[19]
             /\ \A r \in Nat \ {0} : Written(r)' => RowHeld(r)'
  <2>1. Shaped /\ exit = "running" /\ status = 0 /\ pc \in {"loop", "cols"}
    BY <1>3 DEF Shaped, Uniform, Cut
  <2>2. /\ ~Over(10) => width[19] = RowWidth
        /\ Len(data) <= Len(cells) * width[19]
        /\ \A r \in Nat \ {0} : Written(r) => RowHeld(r)
    BY <2>1, <1>3 DEF DataInv
  <2>3. Over(10)' = Over(10) /\ RowWidth' = RowWidth
    BY SameInput DEF RowWidth
  <2>4. \A r \in Nat \ {0} : Written(r)' => Written(r)
    BY <1>3, <2>1 DEF Written, Shaped, TypeOK
  <2> QED BY <2>2, <2>3, <2>4, SameRow
<1> QED BY <1>1, <1>2, <1>3 DEF DataInv, Shaped

\* The table is created: its DATA column has the size of a row.
LEMMA CreateSubintData ==
  TypeOK /\ ControlInv /\ RowsInv /\ PlaceInv /\ DataInv /\ CreateSubint => DataInv'
<1> SUFFICES ASSUME TypeOK, ControlInv, RowsInv, PlaceInv, DataInv, CreateSubint PROVE DataInv'
  OBVIOUS
<1>1. /\ exit = "running" /\ pc = "table" /\ call = "none" /\ input' = input /\ data' = data /\ disk' = disk
      /\ cells' = cells /\ subint_cnt' = subint_cnt
      /\ exit' = "running" => status' = 0 /\ pc' = "loop"
      /\ status' = 0 => status = 0 /\ width' = [k \in Columns |-> Elements(k)]
  BY DEF CreateSubint, At, TableStatus, KeywordStatus, runVars, subintVars, BAD_TFORM, BAD_TDIM, BAD_F2C
<1>2. disk' = "absent" => data' = << >>
  BY <1>1 DEF DataInv
<1>3. ASSUME Shaped'
      PROVE  /\ ~Over(10)' => width'[19] = RowWidth'
             /\ Len(data') <= Len(cells') * width'[19]
             /\ \A r \in Nat \ {0} : Written(r)' => RowHeld(r)'
  <2>1. Shaped /\ Uniform(input) /\ Cut(input) /\ pc' = "loop" /\ status' = 0 /\ status = 0
    BY <1>1, <1>3 DEF Shaped, Uniform, Cut
  <2>2. subint_cnt = 1
    BY <1>1 DEF RowsInv
  <2>3. numchans = input.numchans /\ AfterHeader
    BY <1>1, <2>1 DEF PlaceInv
  <2>4. Start(1) = 0 /\ Start(1) + 10 = 10
    BY <2>1, Places
  <2>5. ~Over(10) => ~Over(Start(1) + 10) /\ fh = HdrOf(1)
    BY <2>2, <2>3, <2>4 DEF AfterHeader
  <2>6. ~Over(10) => ndata = RowWidth
    BY <2>1, <2>3, <2>5, WidthIs
  <2>7. width'[19] = ndata /\ ndata \in Nat
    <3>1. width'[19] = ndata
      BY <1>1, <2>1 DEF Columns, Elements
    <3>2. ndata \in Int /\ ~(ndata < 0)
      BY <2>1, SizesAreIntegers DEF CreateSubint, TableStatus, BAD_TFORM
    <3> QED BY <3>1, <3>2
  <2>8. Over(10)' = Over(10) /\ RowWidth' = RowWidth
    BY <1>1, SameInput DEF RowWidth
  <2>9. Len(data') <= Len(cells') * width'[19]
    <3>1. Len(data') = 0
      BY <1>1, <2>1 DEF DataInv
    <3>2. Len(cells) \in Nat
      BY LenProperties DEF TypeOK
    <3> QED BY <3>1, <3>2, <2>7, <1>1
  <2>10. \A r \in Nat \ {0} : ~Written(r)'
    BY <1>1, <2>1, <2>2 DEF Written
  <2> QED BY <2>6, <2>7, <2>8, <2>9, <2>10
<1>4. exit' = "running" => pc' = "loop"
  BY <1>1
<1> QED BY <1>2, <1>3, <1>4 DEF DataInv, Shaped

\* A column is written: DATA gets the buffer in its own row.
LEMMA WriteColData ==
  TypeOK /\ ControlInv /\ PlaceInv /\ SubwayInv /\ DataInv /\ WriteCol => DataInv'
<1> SUFFICES ASSUME TypeOK, ControlInv, PlaceInv, SubwayInv, DataInv, WriteCol PROVE DataInv'
  OBVIOUS
<1> DEFINE s == subint_cnt
           w == width[19]
           elems == IF col = 19 THEN subway ELSE << >>
           first == (s - 1) * w
           rows == IF EndRow(col) > Len(cells) THEN EndRow(col) ELSE Len(cells)
<1>1. /\ exit = "running" /\ pc = "cols" /\ call = "none" /\ col \in Columns
      /\ input' = input /\ disk' = disk /\ width' = width /\ pc' = "cols"
      /\ subint_cnt' = subint_cnt /\ col' = col + 1
      /\ exit' = "running" /\ status' = 0 => status = 0 /\ width[col] # 0
      /\ status' = 0 /\ Elements(col) > 0 =>
           /\ cells' = [Extended(EndRow(col)) EXCEPT ![subint_cnt][col] = Value(col)]
           /\ data' = DataAfter(EndRow(col), s, elems)
      /\ ~(status' = 0 /\ Elements(col) > 0) => data' = data /\ cells' = cells
  BY DEF WriteCol, At, ColumnStatus, ReportAndExitOnError, runVars, BAD_ELEM_NUM
<1>2. disk' = "absent" => data' = << >>
  <2>1. status = 0 => disk # "absent"
    BY <1>1 DEF ControlInv, Early
  <2>2. status' = 0 => status = 0
    BY DEF WriteCol, ColumnStatus, BAD_ELEM_NUM
  <2> QED BY <2>1, <2>2, <1>1 DEF DataInv
<1>3. ASSUME Shaped', status' = 0
      PROVE  /\ ~Over(10)' => width'[19] = RowWidth'
             /\ Len(data') <= Len(cells') * width'[19]
             /\ \A r \in Nat \ {0} : Written(r)' => RowHeld(r)'
  <2>1. Shaped /\ Uniform(input) /\ Cut(input) /\ status = 0 /\ width[col] # 0
    BY <1>1, <1>3 DEF Shaped, Uniform, Cut
  <2>2. s \in Nat \ {0} /\ w \in Nat /\ first \in Nat
    <3>1. s \in Nat \ {0} /\ w \in Nat
      BY DEF TypeOK, Columns
    <3> HIDE DEF s, w
    <3> QED BY <3>1
  <2>3. numchans = input.numchans /\ ~Over(Start(s) + 10) /\ fh = HdrOf(s)
    BY <1>1, <2>1 DEF PlaceInv
  <2>4. ~Over(10) /\ ndata = RowWidth
    <3> HIDE DEF s
    <3> QED BY <2>1, <2>2, <2>3, WidthIs
  <2>5. /\ w = RowWidth /\ Len(data) <= Len(cells) * w
        /\ \A r \in Nat \ {0} : Written(r) => RowHeld(r)
    BY <1>1, <2>1, <2>4 DEF DataInv
  <2>6. Len(subway) = w
    BY <1>1, <2>1, <2>5 DEF SubwayInv
  <2>7. elems \in Seq(Sample) /\ Len(elems) \in {0, w} /\ (col # 19 => elems = << >>)
    BY <2>6 DEF TypeOK, ProfTypeOK
  <2>8. /\ Nb' = Nb /\ RowWidth' = RowWidth /\ Over(10)' = Over(10)
        /\ \A r, ch, bn : InTheFile(r, ch, bn)' = InTheFile(r, ch, bn)
        /\ \A r, ch, bn : SampleOf(r, ch, bn)' = SampleOf(r, ch, bn)
    BY <1>1, SameInput DEF RowWidth, InTheFile, SampleOf
  <2>9. CASE ~(Elements(col) > 0)
    <3>1. data' = data /\ cells' = cells
      BY <1>1, <2>9
    <3>2. col # 19
      <4>1. Elements(19) = w
        BY <2>4, <2>5 DEF Elements
      <4> QED BY <4>1, <2>1, <2>2, <2>9
    <3>3. \A r \in Nat \ {0} : Written(r)' => Written(r)
      BY <1>1, <3>2 DEF Written, Columns
    <3> QED BY <3>1, <3>3, <2>5, <2>8, <1>1, SameRow
  <2>10. CASE Elements(col) > 0
    <3>1. EndRow(col) \in Nat /\ EndRow(col) >= s
      BY <1>1, <2>1, <2>10, EndRowBounds
    <3>2. data' = DataAfter(EndRow(col), s, elems)
      BY <1>1, <1>3, <2>10
    <3>3. Len(cells') = rows
      <4>1. cells \in Seq(Cells) /\ Len(Extended(EndRow(col))) = rows /\ Extended(EndRow(col)) \in Seq(Cells)
        BY <3>1, ExtendedType DEF TypeOK, Cells
      <4>2. cells' = [Extended(EndRow(col)) EXCEPT ![subint_cnt][col] = Value(col)]
        BY <1>1, <1>3, <2>10
      <4> HIDE DEF rows
      <4> QED BY <4>1, <4>2
    <3>4. /\ Len(data') = rows * w
          /\ \A i \in DOMAIN data : i <= first \/ elems = << >> => i \in DOMAIN data' /\ data'[i] = data[i]
          /\ \A j \in 1 .. Len(elems) : first + j \in DOMAIN data' /\ data'[first + j] = elems[j]
      <4>1. Len(elems) \in {0, width[19]} /\ Len(data) <= Len(cells) * width[19]
        BY <2>5, <2>7
      <4> HIDE DEF elems
      <4> QED BY <3>1, <3>2, <2>7, <4>1, DataAfterIs
    <3>5. Len(data') <= Len(cells') * w
      <4>1. rows * w \in Nat
        <5>1. Len(cells) \in Nat
          BY LenProperties DEF TypeOK
        <5>2. rows \in Nat
          BY <3>1, <5>1
        <5> HIDE DEF rows
        <5> QED BY <5>2, <2>2
      <4> QED BY <4>1, <3>3, <3>4
    <3> HIDE DEF elems, rows
    <3>6. ASSUME NEW r \in Nat \ {0}, Written(r)' PROVE RowHeld(r)'
      <4>1. CASE Written(r) /\ (r < s \/ col # 19)
        <5>1. RowHeld(r)
          BY <4>1, <2>5
        <5>2. ASSUME NEW ch \in 0 .. input.numchans - 1, NEW bn \in 0 .. Nb - 1, InTheFile(r, ch, bn)
              PROVE  LET i == (r - 1) * w + (ch * Nb + bn + 1)
                     IN  i \in DOMAIN data' /\ data'[i] = SampleOf(r, ch, bn)
          <6> DEFINE j == ch * Nb + bn + 1
                     i == (r - 1) * w + j
          <6>1. i \in DOMAIN data /\ data[i] = SampleOf(r, ch, bn)
            BY <5>1, <5>2 DEF RowHeld
          <6>2. i <= first \/ elems = << >>
            <7>1. CASE col # 19
              BY <7>1, <2>7
            <7>2. CASE r < s
              <8>1. j \in 1 .. w
                <9>1. w # 0
                  <10>1. Len(data) = 0 \/ Len(data) >= 1
                    BY DEF TypeOK
                  <10>2. Len(data) >= 1 /\ DOMAIN data = 1 .. Len(data)
                    BY <6>1, <10>1 DEF TypeOK
                  <10>3. Len(cells) \in Nat
                    BY LenProperties DEF TypeOK
                  <10> QED BY <10>2, <10>3, <2>2, <2>5
                <9>2. input.subints # << >>
                  BY <5>1 DEF RowHeld
                <9> QED BY <9>1, <9>2, <2>1, <2>2, <2>5, PlaceIsInRow
              <8>2. r * w <= first
                <9>1. r <= s - 1 /\ s - 1 \in Nat
                  BY <2>2, <7>2
                <9> QED BY <9>1, <2>2, TimesIsMonotonic
              <8>3. r * w = (r - 1) * w + w /\ (r - 1) * w \in Nat
                <9> HIDE DEF w
                <9> QED BY <2>2
              <8> HIDE DEF first, j, w
              <8> QED BY <8>1, <8>2, <8>3, <2>2
            <7> QED BY <7>1, <7>2, <4>1
          <6> HIDE DEF i
          <6>3. i \in DOMAIN data' /\ data'[i] = data[i]
            BY <6>1, <6>2, <3>4
          <6> QED BY <6>1, <6>3 DEF i
        <5> QED BY <5>1, <5>2, <2>8, <1>1 DEF RowHeld
      <4>2. CASE r = s /\ col = 19
        <5>1. s \in DOMAIN input.subints
          <6> HIDE DEF s
          <6>1. Start(s) \in Nat /\ Len(input.prof) \in Nat
            BY <2>1, <2>2, Places, InputIs
          <6>2. ~Over(Start(s))
            BY <6>1, <2>3 DEF Over
          <6> QED BY <6>2, <2>1, <2>2, Tokens
        <5>2. ASSUME NEW ch \in 0 .. input.numchans - 1, NEW bn \in 0 .. Nb - 1, InTheFile(r, ch, bn)
              PROVE  LET i == (r - 1) * w + (ch * Nb + bn + 1)
                     IN  i \in DOMAIN data' /\ data'[i] = SampleOf(r, ch, bn)
          <6> DEFINE j == ch * Nb + bn + 1
          <6>1. w # 0 /\ input.subints # << >> /\ elems = subway /\ Len(elems) = w
            BY <4>2, <2>1, <2>6, <5>1 DEF elems
          <6>2. j \in 1 .. w
            BY <6>1, <2>1, <2>2, <2>5, PlaceIsInRow
          <6>3. subway[j] = SampleOf(s, ch, bn)
            BY <6>1, <4>2, <5>2, <2>1, <2>5, <1>1 DEF SubwayInv
          <6> HIDE DEF j
          <6>4. first + j \in DOMAIN data' /\ data'[first + j] = subway[j]
            BY <6>1, <6>2, <3>4
          <6> QED BY <6>3, <6>4, <4>2 DEF j
        <5> QED BY <4>2, <5>1, <5>2, <2>8, <1>1 DEF RowHeld
      <4>3. (Written(r) /\ (r < s \/ col # 19)) \/ (r = s /\ col = 19)
        BY <3>6, <1>1, <2>2 DEF Written, Columns
      <4> QED BY <4>1, <4>2, <4>3
    <3> QED BY <3>5, <3>6, <2>5, <2>8, <1>1
  <2> QED BY <2>9, <2>10
<1> QED BY <1>1, <1>2, <1>3 DEF DataInv, Shaped

LEMMA NextData ==
  TypeOK /\ ControlInv /\ Quiet /\ RowsInv /\ PlaceInv /\ SubwayInv /\ DataInv /\ [Next]_vars => DataInv'
<1> SUFFICES ASSUME TypeOK, ControlInv, Quiet, RowsInv, PlaceInv, SubwayInv, DataInv, [Next]_vars
             PROVE  DataInv'
  OBVIOUS
<1>1. CASE Launch
  BY <1>1 DEF Launch, DataInv, outputVars, tableVars
<1>2. CASE RemoveOutput
  BY <1>2 DEF RemoveOutput, DataInv, Shaped
<1>3. CASE OpenProf
  BY <1>3, SameData DEF OpenProf, At, runVars, outputVars, tableVars
<1>4. CASE SanityCheck
  BY <1>4, SameData DEF SanityCheck, At, GoOn, runVars, outputVars, tableVars
<1>5. CASE CreateFITS
  <2>1. /\ exit = "running" /\ data' = data /\ pc' = "primary"
        /\ disk' = "absent" => disk = "absent"
        /\ status' = 0 => disk = "absent"
    BY <1>5 DEF CreateFITS, At, NameTaken, FILE_NOT_CREATED, tableVars
  <2> QED BY <2>1 DEF DataInv
<1>6. CASE PrimaryHeader
  BY <1>6, SameData DEF PrimaryHeader, At, GoOn, MayFail, runVars, tableVars
<1>7. CASE PutHistoryTable
  BY <1>7, SameData DEF PutHistoryTable, At, GoOn, MayFail, runVars, tableVars
<1>8. CASE PutPar
  BY <1>8, SameData DEF PutPar, At, ReportAndExitOnError, MayFail, runVars, tableVars
<1>9. CASE CreateSubint
  BY <1>9, CreateSubintData
<1>10. CASE BeginSubint
  <2>1. /\ pc = "loop" /\ (exit' = "running" => pc' = "cols" /\ col' = 1) /\ subint_cnt' = subint_cnt
        /\ exit = "running" /\ status' = status /\ disk' = disk /\ input' = input
        /\ data' = data /\ width' = width /\ cells' = cells
    BY <1>10 DEF BeginSubint, At, runVars, outputVars, tableVars
  <2> QED BY <2>1, SameData
<1>11. CASE WriteCol
  BY <1>11, WriteColData
<1>12. CASE NextSubint
  <2>1. /\ pc = "cols" /\ pc' = "loop" /\ col \notin Columns /\ subint_cnt' = subint_cnt + 1
        /\ exit = "running" /\ status' = status /\ disk' = disk /\ input' = input
        /\ data' = data /\ width' = width /\ cells' = cells
    BY <1>12 DEF NextSubint, At, runVars, outputVars, tableVars
  <2>2. col > 19
    BY <2>1 DEF TypeOK, Columns
  <2> QED BY <2>1, <2>2, SameData
<1>13. CASE EndSubints
  BY <1>13, SameData DEF EndSubints, At, ReportAndExitOnError, runVars, subintVars, outputVars, tableVars
<1>14. CASE CloseFITS
  BY <1>14, SameData DEF CloseFITS, At, runVars, subintVars, outputVars, tableVars
<1>15. CASE HeapOverrun
  BY <1>15, SameData DEF HeapOverrun, runVars, subintVars, outputVars, tableVars
<1>16. CASE Reader
  BY <1>16, SameData DEF Reader, runVars, subintVars, outputVars, tableVars
<1>17. CASE UNCHANGED vars
  BY <1>17, SameData DEF vars, runVars, subintVars, outputVars, tableVars
<1> QED
  BY <1>1, <1>2, <1>3, <1>4, <1>5, <1>6, <1>7, <1>8, <1>9, <1>10, <1>11, <1>12, <1>13, <1>14, <1>15,
     <1>16, <1>17
  DEF Next, Program, Operator

\* From the places counted from 0 to those of the property.
LEMMA RowsAreHeld ==
  ASSUME TypeOK, DataInv
  PROVE  RowsHoldTheirSamples
<1> SUFFICES ASSUME exit = "running", status = 0, pc \in {"loop", "cols"}, Uniform(input), Cut(input),
                    NEW r \in 1 .. subint_cnt - 1
             PROVE  /\ r \in DOMAIN input.subints
                    /\ \A ch \in DOMAIN input.subints[r].cube :
                         \A bn \in DOMAIN input.subints[r].cube[ch] :
                           (bn - 1) * (Len(input.subints[r].cube) + 1) + 1 + ch
                             <= Len(input.prof) - HeaderEnd(input, r) =>
                             data[(r - 1) * width[19] + (ch - 1) * input.subints[r].hdr.numbins + bn] =
                               [k |-> "real", v |-> input.subints[r].cube[ch][bn]]
  BY DEF RowsHoldTheirSamples
<1> DEFINE cube == input.subints[r].cube
           nc == input.numchans
<1>1. subint_cnt \in Nat \ {0} /\ r \in Nat \ {0} /\ r < subint_cnt
  BY DEF TypeOK
<1>2. Written(r)
  BY <1>1 DEF Written
<1>3. RowHeld(r)
  BY <1>1, <1>2 DEF DataInv, Shaped
<1>4. /\ r \in DOMAIN input.subints /\ Len(cube) = nc /\ nc \in Nat \ {0} /\ Nb \in Int
      /\ input.subints[r].hdr.numbins = Nb
  <2>1. r \in DOMAIN input.subints /\ input.subints # << >>
    BY <1>3 DEF RowHeld
  <2> QED BY <2>1, Places DEF Uniform, Nb, First
<1>5. cube \in Seq(Seq(Int)) /\ DOMAIN cube = 1 .. nc /\ \A ch \in DOMAIN cube : DOMAIN cube[ch] = 1 .. Nb
  <2>1. input.subints \in Seq(Subints)
    BY InputIs
  <2>2. input.subints[r] \in Subints
    BY <2>1, <1>4
  <2>3. cube \in Seq(Seq(Int))
    BY <2>2 DEF Subints
  <2>4. \A ch \in DOMAIN cube : DOMAIN cube[ch] = 1 .. Nb
    BY <1>4, InputsAssumption DEF TypeOK
  <2> QED BY <2>3, <2>4, <1>4
<1>6. HeaderEnd(input, r) = Bin(r, 0) /\ Bin(r, 0) \in Nat /\ Len(input.prof) \in Nat
  <2>1. Bin(r, 0) = Start(r) + 10 /\ Start(r) \in Nat
    BY <1>1, Places
  <2>2. HeaderEnd(input, r) = Start(r) + 10
    BY <1>1, <1>4, HeaderEndIs
  <2> QED BY <2>1, <2>2, InputIs
<1>7. ASSUME NEW ch \in DOMAIN cube, NEW bn \in DOMAIN cube[ch],
             (bn - 1) * (Len(cube) + 1) + 1 + ch <= Len(input.prof) - HeaderEnd(input, r)
      PROVE  data[(r - 1) * width[19] + (ch - 1) * Nb + bn] = [k |-> "real", v |-> cube[ch][bn]]
  <2>1. ch \in 1 .. nc /\ bn \in 1 .. Nb /\ ch - 1 \in 0 .. nc - 1 /\ bn - 1 \in 0 .. Nb - 1
        /\ (ch - 1) + 1 = ch /\ (bn - 1) + 1 = bn
    <3>1. ch \in 1 .. nc /\ bn \in 1 .. Nb
      BY <1>5
    <3> HIDE DEF nc
    <3> QED BY <3>1, <1>4
  <2>2. InTheFile(r, ch - 1, bn - 1)
    <3> DEFINE x == (bn - 1) * (nc + 1)
    <3>1. x \in Nat /\ Bin(r, bn - 1) = Bin(r, 0) + x
      <4>1. Bin(r, bn - 1) = StartOf(Nb, nc, r) + 10 + x /\ Bin(r, 0) = StartOf(Nb, nc, r) + 10 + 0 * (nc + 1)
        BY DEF Bin, BinOf
      <4>2. StartOf(Nb, nc, r) \in Nat
        BY <1>1, Places DEF Start
      <4>3. x \in Nat /\ 0 * (nc + 1) = 0
        <5>1. bn - 1 \in Nat /\ nc + 1 \in Nat
          BY <1>4, <2>1
        <5> HIDE DEF nc
        <5> QED BY <5>1
      <4> HIDE DEF x
      <4> QED BY <4>1, <4>2, <4>3
    <3>2. x + 1 + ch <= Len(input.prof) - Bin(r, 0)
      BY <1>4, <1>6, <1>7
    <3> HIDE DEF x
    <3>3. Bin(r, bn - 1) + (ch - 1) + 1 < Len(input.prof)
      BY <3>1, <3>2, <1>6, <2>1
    <3> QED BY <3>1, <3>3, <1>6, <2>1 DEF InTheFile, Over
  <2>3. data[(r - 1) * width[19] + ((ch - 1) * Nb + (bn - 1) + 1)] = SampleOf(r, ch - 1, bn - 1)
    BY <2>1, <2>2, <1>3 DEF RowHeld
  <2>4. (r - 1) * width[19] + ((ch - 1) * Nb + (bn - 1) + 1) = (r - 1) * width[19] + (ch - 1) * Nb + bn
    <3> DEFINE x == (r - 1) * width[19]
               y == (ch - 1) * Nb
    <3>1. x \in Int /\ y \in Int /\ bn \in Int
      <4>1. width[19] \in Int /\ r - 1 \in Int
        BY <1>1 DEF TypeOK, Columns
      <4>2. ch - 1 \in Int /\ Nb \in Int /\ bn \in Int
        BY <1>4, <2>1
      <4>3. x \in Int
        BY <4>1
      <4>4. y \in Int
        BY <4>2
      <4> QED BY <4>2, <4>3, <4>4
    <3> HIDE DEF x, y
    <3>2. x + (y + (bn - 1) + 1) = x + y + bn
      BY <3>1
    <3> QED BY <3>2 DEF x, y
  <2> QED BY <2>1, <2>3, <2>4 DEF SampleOf
<1> QED BY <1>4, <1>7

\* Of a file of one shape that ends anywhere, every sample that is in the file is
\* in the row of its sub-integration at the place of its bin and channel, also
\* when the buffer comes with the samples of the row before: for any number of
\* bins, channels and polarisations whose product is an int.
THEOREM RowsKeepTheirSamples == Spec => []RowsHoldTheirSamples
<1>1. Init => Quiet /\ BufferInv /\ RowsInv /\ PlaceInv /\ SubwayInv /\ DataInv
  BY InitBuffer, InitRows DEF Init, Quiet, PlaceInv, SubwayInv, DataInv, Shaped
<1>2. TypeOK /\ Quiet /\ [Next]_vars => Quiet'
  BY NextQuiet
<1>3. TypeOK /\ ControlInv /\ BufferInv /\ [Next]_vars => BufferInv'
  BY NextBuffer
<1>4. TypeOK /\ ControlInv /\ RowsInv /\ [Next]_vars => RowsInv'
  BY NextRows
<1>5. TypeOK /\ ControlInv /\ Quiet /\ BufferInv /\ RowsInv /\ PlaceInv /\ [Next]_vars => PlaceInv'
  BY NextPlace
<1>6. TypeOK /\ Quiet /\ BufferInv /\ PlaceInv /\ SubwayInv /\ [Next]_vars => SubwayInv'
  BY NextSubway
<1>7. TypeOK /\ ControlInv /\ Quiet /\ RowsInv /\ PlaceInv /\ SubwayInv /\ DataInv /\ [Next]_vars => DataInv'
  BY NextData
<1>8. TypeOK /\ DataInv => RowsHoldTheirSamples
  BY RowsAreHeld
<1> QED
  BY <1>1, <1>2, <1>3, <1>4, <1>5, <1>6, <1>7, <1>8, TypeCorrect, ControlIsRight, PTL DEF Spec
=============================================================================
