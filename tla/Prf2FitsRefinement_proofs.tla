---------------------- MODULE Prf2FitsRefinement_proofs ----------------------
(***************************************************************************)
(* Prf2Fits implements PsrFits: what the table holds at each column of     *)
(* each row, and every step of the program as one of PsrFits or none.      *)
(***************************************************************************)
EXTENDS Prf2FitsReader_proofs, Prf2FitsRefinement

-----------------------------------------------------------------------------
(* Whole files *)

Final == Len(input.subints)

\* What a convertible input is.
LEMMA ConvertibleIs ==
  ASSUME TypeOK, Convertible(input)
  PROVE  /\ Complete(input) /\ Uniform(input) /\ Cut(input)
         /\ Final \in Nat \ {0} /\ DOMAIN input.subints = 1 .. Final
         /\ Nb \in Nat \ {0} /\ Positive(Nb) = Nb /\ First.pol = 1
         /\ input.numchans \in Nat \ {0}
         /\ OneShape(input.subints, Nb, input.numchans)
         /\ \A s \in 1 .. Final :
              /\ input.subints[s].hdr \in [FieldNames -> Int] /\ HdrOf(s) = input.subints[s].hdr
              /\ input.subints[s].hdr.numbins = Nb /\ input.subints[s].hdr.pol = 1
              /\ Len(input.subints[s].cube) = input.numchans
<1> DEFINE subs == input.subints
           nc == input.numchans
<1>1. Complete(input) /\ Uniform(input) /\ subs[1].hdr.pol = 1
  BY DEF Convertible
<1>2. /\ subs \in Seq(Subints) /\ Len(subs) \in Nat /\ DOMAIN subs = 1 .. Len(subs)
      /\ \A i \in DOMAIN subs : IsWhole(subs[i])
      /\ input.prof \in Seq(Token) /\ Len(input.prof) \in Nat
      /\ nc \in Int
  BY InputIs
<1>3. Cut(input)
  <2>1. input.prof = Render(subs)
    BY <1>1 DEF Complete
  <2> DEFINE l == Len(input.prof)
  <2>2. l <= l
    BY <1>2
  <2>3. l <= Len(Render(subs)) /\ SubSeq(input.prof, 1, l) = SubSeq(Render(subs), 1, l)
    BY <2>1, <2>2, Zenon
  <2> QED BY <2>3, Zenon DEF Cut, IsPrefix
<1>4. subs # << >>
  BY <1>1 DEF Complete
<1>5. Len(subs) \in Nat \ {0} /\ 1 \in DOMAIN subs
  BY <1>2, <1>4
<1>6. \A s \in DOMAIN subs :
        /\ subs[s].hdr.numbins = Nb /\ subs[s].hdr.pol = 1
        /\ Len(subs[s].cube) = nc /\ HdrOf(s) = subs[s].hdr /\ subs[s].hdr.numbins >= 1
  BY <1>1, <1>4 DEF Uniform, Nb, First, HdrOf, Complete
<1>7. \A s \in DOMAIN subs : subs[s].hdr \in [FieldNames -> Int]
  <2> TAKE s \in DOMAIN subs
  <2>1. subs[s] \in Subints
    BY <1>2
  <2> QED BY <2>1 DEF Subints
<1>8. Nb \in Nat \ {0}
  <2>1. Nb \in Int
    BY <1>1, Places
  <2> QED BY <2>1, <1>5, <1>6
<1>9. OneShape(subs, Nb, nc)
  BY <1>2, <1>6 DEF OneShape
<1>10. Positive(Nb) = Nb
  BY <1>8 DEF Positive
<1>11. First.pol = 1 /\ nc \in Nat \ {0}
  BY <1>1, <1>2 DEF First, Uniform
<1> QED BY <1>1, <1>2, <1>3, <1>5, <1>6, <1>7, <1>8, <1>9, <1>10, <1>11 DEF Final

\* The file goes on to the end of the last sub-integration.
LEMMA InFile ==
  ASSUME TypeOK, Convertible(input), NEW s \in 1 .. Final
  PROVE  /\ ~Over(Start(s) + 10)
         /\ \A bn \in 0 .. Nb - 1 : \A ch \in 0 .. input.numchans - 1 : ~Over(Bin(s, bn) + ch + 1)
<1> DEFINE nc == input.numchans
           L == SubintLength(Nb, nc)
<1>1. /\ Uniform(input) /\ Final \in Nat \ {0} /\ Nb \in Nat \ {0} /\ nc \in Nat \ {0}
      /\ OneShape(input.subints, Nb, nc) /\ Positive(Nb) = Nb
      /\ input.prof = Render(input.subints)
  BY ConvertibleIs DEF Complete
<1>2. s \in Nat \ {0} /\ s + 1 \in Nat \ {0} /\ Final + 1 \in Nat \ {0} /\ s + 1 <= Final + 1 /\ (Final + 1) - 1 = Final
  BY <1>1
<1>3. Len(input.prof) = Start(Final + 1)
  <2>1. Laid(Render(input.subints), input.subints, Nb, nc)
    BY <1>1, RenderIs
  <2>2. Len(Render(input.subints)) = Final * L
    BY <2>1, Zenon DEF Laid, Final
  <2>3. Start(Final + 1) = Final * L
    BY <1>2, Zenon DEF Start, StartOf
  <2> QED BY <1>1, <2>2, <2>3
<1> HIDE DEF nc, L
<1>4. /\ Start(s + 1) <= Start(Final + 1) /\ Start(s + 1) \in Nat /\ Start(Final + 1) \in Nat
      /\ Start(s) \in Nat
      /\ Bin(s, Nb) = Start(s + 1) /\ Bin(s, 0) = Start(s) + 10
      /\ \A bn \in Nat : /\ Bin(s, bn) \in Nat
                         /\ Bin(s, bn + 1) = Bin(s, bn) + nc + 1
  BY <1>1, <1>2, Places DEF nc
<1>5. ASSUME NEW bn \in 0 .. Nb - 1 PROVE Bin(s, bn) + nc + 1 <= Len(input.prof)
  <2>1. bn \in Nat /\ bn + 1 \in Nat /\ bn + 1 <= Nb /\ nc + 1 \in Nat
    BY <1>1
  <2>2. (bn + 1) * (nc + 1) <= Nb * (nc + 1)
    BY <2>1, <1>1, TimesIsMonotonic
  <2>3. \A m : Bin(s, m) = Start(s) + 10 + m * (nc + 1)
    BY DEF Bin, BinOf, Start, nc
  <2> DEFINE x == (bn + 1) * (nc + 1)
             y == Nb * (nc + 1)
  <2>4. x \in Nat /\ y \in Nat /\ x <= y /\ Bin(s, bn + 1) = Start(s) + 10 + x /\ Bin(s, Nb) = Start(s) + 10 + y
    BY <2>1, <2>2, <2>3, <1>1
  <2> HIDE DEF x, y
  <2>5. Bin(s, bn + 1) <= Start(Final + 1)
    BY <2>4, <1>4
  <2> QED BY <2>1, <2>5, <1>3, <1>4
<1>6. ASSUME NEW bn \in 0 .. Nb - 1, NEW ch \in 0 .. nc - 1 PROVE ~Over(Bin(s, bn) + ch + 1)
  <2>0. bn \in Nat /\ Len(input.prof) \in Nat
    BY <1>1, InputIs
  <2>1. bn \in Nat /\ Bin(s, bn) \in Nat /\ Bin(s, bn) + nc + 1 <= Len(input.prof) /\ Len(input.prof) \in Nat
    BY <2>0, <1>4, <1>5
  <2> QED BY <2>1, <1>1 DEF Over
<1>7. ~Over(Start(s) + 10)
  <2>1. 0 \in 0 .. Nb - 1
    BY <1>1
  <2>2. Bin(s, 0) + nc + 1 <= Len(input.prof) /\ Len(input.prof) \in Nat
    BY <2>1, <1>5, InputIs
  <2>3. Start(s) \in Nat /\ Bin(s, 0) = Start(s) + 10 /\ nc \in Nat
    BY <1>1, <1>4
  <2>4. Start(s) + 10 + nc + 1 <= Len(input.prof)
    BY <2>2, <2>3
  <2> QED BY <2>2, <2>3, <2>4 DEF Over
<1> QED BY <1>6, <1>7 DEF nc

\* The rows of the sub-integrations there are, and where the loop ends.
LEMMA RowsOfFile ==
  ASSUME TypeOK, Quiet, PlaceInv, RowsInv, Convertible(input), exit = "running"
  PROVE  /\ pc = "cols" => /\ subint_cnt \in 1 .. Final /\ numchans = input.numchans
                            /\ fh = input.subints[subint_cnt].hdr
         /\ pc \in {"loop", "close"} => subint_cnt \in 1 .. Final + 1
         /\ pc = "loop" /\ call = "none" /\ ~feof =>
              /\ subint_cnt \in 1 .. Final /\ numchans = input.numchans
              /\ fh = input.subints[subint_cnt].hdr
         /\ pc = "close" => subint_cnt = Final + 1
<1> DEFINE s == subint_cnt
<1>1. Shaped /\ Uniform(input) /\ Cut(input) /\ Final \in Nat \ {0} /\ DOMAIN input.subints = 1 .. Final
  BY ConvertibleIs DEF Shaped
<1>2. s \in Nat \ {0}
  BY DEF TypeOK
<1>3. \A r \in Nat \ {0} : ~Over(Start(r) + 10) => r \in 1 .. Final /\ HdrOf(r) = input.subints[r].hdr
  <2> SUFFICES ASSUME NEW r \in Nat \ {0}, ~Over(Start(r) + 10)
               PROVE  r \in 1 .. Final /\ HdrOf(r) = input.subints[r].hdr
    OBVIOUS
  <2>1. Start(r) \in Nat /\ Len(input.prof) \in Nat
    BY <1>1, Places, InputIs
  <2>2. ~Over(Start(r))
    BY <2>1 DEF Over
  <2> QED BY <2>2, <1>1, Tokens
<1> HIDE DEF s
<1>4. pc = "cols" => ~Over(Start(s) + 10) /\ fh = HdrOf(s) /\ numchans = input.numchans
  BY <1>1 DEF PlaceInv, s
<1>5. pc = "loop" /\ call = "none" /\ ~feof =>
        ~Over(Start(s) + 10) /\ fh = HdrOf(s) /\ numchans = input.numchans
  BY <1>1 DEF PlaceInv, AfterHeader, s
<1>6. pc \in {"loop", "close"} /\ s > 1 => ~Over(Start(s - 1) + 10)
  BY <1>1 DEF PlaceInv, s
<1>7. pc \in {"loop", "close"} => s \in 1 .. Final + 1
  <2>1. CASE s > 1
    <3>1. s - 1 \in Nat \ {0}
      BY <1>2, <2>1
    <3>2. pc \in {"loop", "close"} => s - 1 \in 1 .. Final
      BY <3>1, <2>1, <1>3, <1>6
    <3> QED BY <3>2, <1>1, <1>2
  <2>2. CASE ~(s > 1)
    BY <2>2, <1>1, <1>2
  <2> QED BY <2>1, <2>2
<1>8. pc = "close" => s \notin 1 .. Final
  <2>1. pc = "close" => feof /\ call = "none"
    BY <1>1 DEF PlaceInv, Quiet, TypeOK, ProfTypeOK
  <2>2. pc = "close" => Over(Start(s) + 10)
    BY <2>1, <1>1 DEF PlaceInv, AfterHeader, s
  <2> QED BY <2>2, InFile
<1> QED BY <1>1, <1>2, <1>3, <1>4, <1>5, <1>7, <1>8 DEF s

-----------------------------------------------------------------------------
(* The rows of PsrFits *)

\* OFFS_SUB is the sum of the TSUBINTs before.
LEMMA OffsetIs ==
  ASSUME NEW j, Len(j) \in Nat \ {0}, NEW s \in 1 .. Len(j)
  PROVE  PF!Offset(j, s) = IF s = 1 THEN 0 ELSE PF!Offset(j, s - 1) + PF!Length(j, s - 1)
<1> DEFINE N == Len(j)
           len(q) == PF!Length(j, q)
           Partial(n, g) == g = [q \in 1 .. n |-> IF q = 1 THEN 0 ELSE g[q - 1] + len(q - 1)]
           S == {n \in 1 .. N : \E g : Partial(n, g)}
<1> HIDE DEF len
<1>1. 1 \in S
  <2>1. Partial(1, [q \in 1 .. 1 |-> 0])
    OBVIOUS
  <2>2. 1 \in 1 .. N
    OBVIOUS
  <2> HIDE DEF Partial
  <2> QED BY <2>1, <2>2, Zenon
<1>2. ASSUME NEW n \in 1 .. N - 1, n \in S PROVE n + 1 \in S
  <2>1. PICK g : Partial(n, g)
    BY <1>2
  <2> DEFINE h == [q \in 1 .. n + 1 |-> IF q <= n THEN g[q] ELSE g[n] + len(n)]
  <2>2. \A q \in 1 .. n : g[q] = IF q = 1 THEN 0 ELSE g[q - 1] + len(q - 1)
    BY <2>1, Zenon
  <2>3. \A q \in 1 .. n + 1 : h[q] = IF q = 1 THEN 0 ELSE h[q - 1] + len(q - 1)
    <3> SUFFICES ASSUME NEW q \in 1 .. n + 1
                 PROVE  h[q] = IF q = 1 THEN 0 ELSE h[q - 1] + len(q - 1)
      OBVIOUS
    <3>1. CASE q = 1
      BY <3>1, <2>2
    <3>2. CASE q # 1 /\ q <= n
      <4>1. h[q] = g[q] /\ h[q - 1] = g[q - 1] /\ q \in 1 .. n
        BY <3>2
      <4> QED BY <4>1, <3>2, <2>2
    <3>3. CASE q = n + 1
      <4>1. q # 1 /\ q - 1 = n /\ h[n + 1] = g[n] + len(n) /\ h[n] = g[n]
        BY <3>3
      <4> HIDE DEF h
      <4> QED BY <4>1, <3>3
    <3> QED BY <3>1, <3>2, <3>3
  <2>4. h = [q \in 1 .. n + 1 |-> h[q]]
    OBVIOUS
  <2> HIDE DEF h
  <2>5. Partial(n + 1, h)
    BY <2>3, <2>4, Zenon
  <2>6. n + 1 \in 1 .. N
    OBVIOUS
  <2> HIDE DEF Partial
  <2> QED BY <2>5, <2>6, Zenon
<1>3. N \in S
  <2>1. \A n \in 1 .. N : n \in S
    <3>1. N \in Nat
      OBVIOUS
    <3> HIDE DEF S, N
    <3> QED BY <1>1, <1>2, <3>1, UpTo
  <2>2. N \in 1 .. N
    OBVIOUS
  <2> HIDE DEF S, N
  <2> QED BY <2>1, <2>2
<1>4. PICK g : Partial(N, g)
  BY <1>3
<1> DEFINE f == CHOOSE f : Partial(N, f)
<1>5. Partial(N, f)
  <2> HIDE DEF Partial
  <2> QED BY <1>4, Zenon
<1>6. \A r : PF!Offset(j, r) = f[r]
  BY Zenon DEF PF!Offset, len
<1> HIDE DEF f
<1>7. \A q \in 1 .. N : f[q] = IF q = 1 THEN 0 ELSE f[q - 1] + len(q - 1)
  BY <1>5, Zenon
<1> QED BY <1>6, <1>7, Zenon DEF len

\* The samples of a row.
RowSize == Nb * input.numchans

\* Element n of DATA is a bin of a channel, and the other way round.
LEMMA SamplesAre ==
  ASSUME TypeOK, Convertible(input), NEW r \in 1 .. Final
  PROVE  LET sub == input.subints[r]
             samples == PF!Samples(sub)
         IN  /\ samples = [n \in 1 .. RowSize |-> samples[n]]
             /\ \A n \in 1 .. RowSize :
                  \E ch \in 0 .. input.numchans - 1 : \E bn \in 0 .. Nb - 1 :
                    n = ch * Nb + bn + 1 /\ samples[n] = sub.cube[ch + 1][bn + 1]
<1> DEFINE nc == input.numchans
           sub == input.subints[r]
           e(n) == sub.cube[((n - 1) \div Nb) + 1][((n - 1) % Nb) + 1]
<1>1. /\ Nb \in Nat \ {0} /\ nc \in Nat \ {0}
      /\ sub.hdr.numbins = Nb /\ Len(sub.cube) = nc
  BY ConvertibleIs
<1>2. PF!Samples(sub) = [n \in 1 .. RowSize |-> e(n)]
  BY <1>1, Zenon DEF PF!Samples, RowSize
<1>3. ASSUME NEW n \in 1 .. RowSize
      PROVE  \E ch \in 0 .. nc - 1 : \E bn \in 0 .. Nb - 1 :
               n = ch * Nb + bn + 1 /\ e(n) = sub.cube[ch + 1][bn + 1]
  <2> DEFINE ch == (n - 1) \div Nb
             bn == (n - 1) % Nb
  <2>1. RowSize \in Nat /\ n \in Nat /\ n - 1 \in Nat /\ n - 1 < Nb * nc
    BY <1>1 DEF RowSize
  <2>2. ch \in Nat /\ bn \in 0 .. Nb - 1 /\ n - 1 = ch * Nb + bn
    BY <2>1, <1>1, Rest
  <2>3. e(n) = sub.cube[ch + 1][bn + 1]
    OBVIOUS
  <2> HIDE DEF ch, bn, e, nc
  <2>4. ch < nc
    <3>1. CASE nc <= ch
      <4>1. nc * Nb <= ch * Nb
        BY <3>1, <2>2, <1>1, TimesIsMonotonic
      <4>2. nc * Nb = Nb * nc
        BY <1>1
      <4> DEFINE x == ch * Nb
                 y == Nb * nc
      <4>3. x \in Nat /\ y \in Nat /\ y <= x /\ n - 1 = x + bn /\ n - 1 < y
        BY <4>1, <4>2, <2>1, <2>2, <1>1
      <4> HIDE DEF x, y
      <4> QED BY <4>3, <2>2, <1>1
    <3> QED BY <3>1, <2>2, <1>1
  <2>5. ch \in 0 .. nc - 1 /\ n = ch * Nb + bn + 1
    <3> DEFINE x == ch * Nb
    <3>1. x \in Nat /\ n - 1 = x + bn
      BY <2>2, <1>1
    <3> HIDE DEF x
    <3>2. n = x + bn + 1
      BY <3>1, <2>1, <2>2, <1>1
    <3> QED BY <3>2, <2>2, <2>4, <1>1 DEF x
  <2> QED BY <2>2, <2>3, <2>5, Zenon
<1>4. /\ PF!Samples(sub) = [n \in 1 .. RowSize |-> PF!Samples(sub)[n]]
      /\ \A n \in 1 .. RowSize : PF!Samples(sub)[n] = e(n)
  <2> HIDE DEF e, sub
  <2> QED BY <1>2
<1> HIDE DEF e
<1>5. \A n \in 1 .. RowSize :
        \E ch \in 0 .. nc - 1 : \E bn \in 0 .. Nb - 1 :
          n = ch * Nb + bn + 1 /\ PF!Samples(sub)[n] = sub.cube[ch + 1][bn + 1]
  <2> SUFFICES ASSUME NEW n \in 1 .. RowSize
               PROVE  \E ch \in 0 .. nc - 1 : \E bn \in 0 .. Nb - 1 :
                        n = ch * Nb + bn + 1 /\ PF!Samples(sub)[n] = sub.cube[ch + 1][bn + 1]
    OBVIOUS
  <2>1. PICK ch \in 0 .. nc - 1 : \E bn \in 0 .. Nb - 1 :
          n = ch * Nb + bn + 1 /\ e(n) = sub.cube[ch + 1][bn + 1]
    BY <1>3
  <2>2. PF!Samples(sub)[n] = e(n)
    BY <1>4
  <2> QED BY <2>1, <2>2, Zenon
<1> QED BY <1>4, <1>5

-----------------------------------------------------------------------------
(* What the table holds at each column of each row *)

\* The elements of the columns.
WidthOf(k) ==
  CASE k \in 15 .. 18 -> input.numchans
    [] k = 19         -> RowSize
    [] OTHER          -> 1

\* SIGPROC's running pulse count before a sub-integration.
Pulses(s) == IF s = 1 THEN 0 ELSE input.subints[s - 1].hdr.numpulses

\* PutSubint keeps it across rows.
PulsesInv ==
  exit = "running" =>
    /\ pc \notin {"loop", "cols", "close"} => runpulses = 0
    /\ pc = "loop" => runpulses = Pulses(subint_cnt)
    /\ pc = "cols" => runpulses = IF col <= 3 THEN Pulses(subint_cnt) ELSE fh.numpulses

\* The columns that a row of PsrFits has.
Kept == {1, 3, 4, 15, 20, 21}

CellOf(r, k) ==
  CASE k = 1  -> r
    [] k = 3  -> PF!Length(input.subints, r)
    [] k = 4  -> PF!Offset(input.subints, r)
    [] k = 15 -> input.subints[r].hdr.freq
    [] k = 20 -> input.subints[r].hdr.period
    [] OTHER  -> input.subints[r].hdr.pol

\* Column k of row r is written.
Wrote(r, k) == r < subint_cnt \/ (pc = "cols" /\ r = subint_cnt /\ k < col)

SizesRight ==
  /\ \A k \in Columns : width[k] = WidthOf(k)
  /\ Len(cells) = IF pc = "cols" /\ col > 1 THEN subint_cnt ELSE subint_cnt - 1
  /\ Len(data) = Len(cells) * RowSize

CellsRight ==
  \A r \in 1 .. Len(cells) : \A k \in Columns :
    /\ cells[r][k] # Blank <=> Wrote(r, k)
    /\ Wrote(r, k) /\ k \in Kept => cells[r][k] = CellOf(r, k)

DataRight ==
  \A r \in 1 .. Len(cells) :
    Wrote(r, 19) =>
      \A n \in 1 .. RowSize :
        data[(r - 1) * RowSize + n].v = PF!Samples(input.subints[r])[n]

InTable == exit = "running" /\ status = 0 /\ pc \in {"loop", "cols", "close"}

\* A fresh output has no rows; then every row is as long as it should be and has
\* what it should have, as far as it is written.
TableInv ==
  /\ disk = "absent" => cells = << >>
  /\ exit = "running" /\ status = 0 /\ pc \in {"primary", "history", "par", "table"} => cells = << >>
  /\ InTable => SizesRight /\ CellsRight /\ DataRight

\* The sizes that PutSubint computes.
LEMMA SizesAre ==
  ASSUME TypeOK, Convertible(input), numchans = input.numchans, fh.pol = 1, fh.numbins = Nb
  PROVE  /\ nscl = input.numchans /\ ndata = RowSize /\ RowSize \in Nat \ {0}
         /\ \A k : Elements(k) = WidthOf(k) /\ WidthOf(k) \in Nat \ {0}
<1>1. Nb \in Nat \ {0} /\ input.numchans \in Nat \ {0}
  BY ConvertibleIs
<1>2. IsInt(input.numchans) /\ IsInt(Nb * input.numchans)
  <2>1. /\ Uniform(input) /\ 1 \in DOMAIN input.subints
        /\ input.subints[1].hdr.numbins = Nb /\ input.subints[1].hdr.pol = 1
    BY ConvertibleIs
  <2>2. IsInt(input.numchans * 1) /\ IsInt(Nb * (input.numchans * 1))
    BY <2>1 DEF Uniform
  <2>3. input.numchans * 1 = input.numchans
    BY <1>1
  <2> QED BY <2>2, <2>3
<1>3. nscl = input.numchans
  <2>1. input.numchans * 1 = input.numchans
    BY <1>1
  <2> QED BY <2>1, <1>1, <1>2, AsIntIs DEF nscl
<1>4. RowSize \in Nat \ {0}
  BY <1>1 DEF RowSize
<1>7. ndata = RowSize
  BY <1>2, <1>3, <1>4, AsIntIs DEF ndata, RowSize
<1>5. \A k : Elements(k) = WidthOf(k)
  BY <1>3, <1>7 DEF Elements, WidthOf
<1>6. \A k : WidthOf(k) \in Nat \ {0}
  BY <1>1, <1>4 DEF WidthOf
<1> QED BY <1>3, <1>4, <1>5, <1>6, <1>7

\* The same while a row is written.
LEMMA AtColumns ==
  ASSUME TypeOK, Quiet, PlaceInv, RowsInv, Convertible(input), exit = "running", pc = "cols"
  PROVE  /\ subint_cnt \in 1 .. Final /\ subint_cnt \in Nat \ {0}
         /\ numchans = input.numchans /\ fh = input.subints[subint_cnt].hdr
         /\ fh.numbins = Nb /\ fh.pol = 1
         /\ RowSize \in Nat \ {0} /\ ndata = RowSize
         /\ \A k : Elements(k) = WidthOf(k) /\ WidthOf(k) \in Nat \ {0}
<1>1. subint_cnt \in 1 .. Final /\ numchans = input.numchans /\ fh = input.subints[subint_cnt].hdr
  BY RowsOfFile
<1>2. fh.numbins = Nb /\ fh.pol = 1
  BY <1>1, ConvertibleIs
<1>3. subint_cnt \in Nat \ {0}
  BY DEF TypeOK
<1> QED BY <1>1, <1>2, <1>3, SizesAre

LEMMA NextPulses ==
  ASSUME TypeOK, Quiet, PlaceInv, RowsInv, PulsesInv, Convertible(input), [Next]_vars
  PROVE  PulsesInv'
<1> SUFFICES ASSUME exit' = "running"
             PROVE  /\ pc' \notin {"loop", "cols", "close"} => runpulses' = 0
                    /\ pc' = "loop" => runpulses' = Pulses(subint_cnt)'
                    /\ pc' = "cols" => runpulses' = IF col' <= 3 THEN Pulses(subint_cnt)' ELSE fh'.numpulses
  BY DEF PulsesInv
<1>1. CASE Launch
  BY <1>1 DEF Launch
<1>2. CASE RemoveOutput
  BY <1>2 DEF RemoveOutput
<1>3. ASSUME exit = "running", input' = input, runpulses' = runpulses, subint_cnt' = subint_cnt,
             pc \notin {"loop", "cols", "close"}, pc' \notin {"loop", "cols", "close"}
      PROVE  PulsesInv'
  BY <1>3 DEF PulsesInv
<1>4. CASE OpenProf \/ SanityCheck \/ CreateFITS \/ PrimaryHeader
  BY <1>4, <1>3 DEF OpenProf, SanityCheck, CreateFITS, PrimaryHeader, At, GoOn, runVars, subintVars, PulsesInv
<1>5. CASE PutHistoryTable \/ PutPar
  BY <1>5, <1>3 DEF PutHistoryTable, PutPar, At, GoOn, ReportAndExitOnError, runVars, subintVars, PulsesInv
<1>6. CASE CreateSubint
  <2>1. pc = "table" /\ exit = "running" /\ runpulses' = runpulses /\ subint_cnt' = subint_cnt /\ pc' = "loop"
    BY <1>6 DEF CreateSubint, At, subintVars
  <2>2. runpulses = 0 /\ subint_cnt = 1
    BY <2>1 DEF PulsesInv, RowsInv
  <2> QED BY <2>1, <2>2 DEF Pulses
<1>7. CASE BeginSubint
  <2>1. pc = "loop" /\ exit = "running" /\ runpulses' = runpulses /\ subint_cnt' = subint_cnt
        /\ pc' = "cols" /\ col' = 1 /\ input' = input
    BY <1>7 DEF BeginSubint, At, runVars
  <2> QED BY <2>1 DEF PulsesInv, Pulses
<1>8. CASE WriteCol
  <2>1. /\ pc = "cols" /\ exit = "running" /\ subint_cnt' = subint_cnt
        /\ pc' = "cols" /\ col \in 1 .. 21 /\ col' = col + 1 /\ input' = input /\ fh' = fh
        /\ runpulses' = IF col = 3 THEN fh.numpulses ELSE runpulses
    BY <1>8 DEF WriteCol, At, ReportAndExitOnError, runVars, profVars, Columns
  <2>2. Pulses(subint_cnt)' = Pulses(subint_cnt)
    BY <2>1 DEF Pulses
  <2>3. runpulses = IF col <= 3 THEN Pulses(subint_cnt) ELSE fh.numpulses
    BY <2>1 DEF PulsesInv
  <2> QED BY <2>1, <2>2, <2>3
<1>9. CASE NextSubint
  <2>1. /\ pc = "cols" /\ exit = "running" /\ subint_cnt' = subint_cnt + 1
        /\ pc' = "loop" /\ col = 22 /\ input' = input /\ runpulses' = runpulses
    BY <1>9 DEF NextSubint, At, runVars, Columns, TypeOK
  <2>2. runpulses = fh.numpulses
    BY <2>1 DEF PulsesInv
  <2>3. fh = input.subints[subint_cnt].hdr /\ subint_cnt \in Nat \ {0}
    BY <2>1, AtColumns
  <2>4. subint_cnt + 1 # 1 /\ (subint_cnt + 1) - 1 = subint_cnt
    BY <2>3
  <2> QED BY <2>1, <2>2, <2>3, <2>4 DEF Pulses
<1>10. CASE EndSubints
  BY <1>10 DEF EndSubints, At, ReportAndExitOnError
<1>11. CASE CloseFITS \/ HeapOverrun
  BY <1>11 DEF CloseFITS, HeapOverrun
<1>12. CASE Reader
  <2>1. exit = "running" /\ pc' = pc /\ runpulses' = runpulses /\ subint_cnt' = subint_cnt
        /\ col' = col /\ input' = input
    BY <1>12 DEF Reader, runVars, subintVars
  <2>2. pc = "cols" => fh' = fh
    BY <1>12, <2>1, ReaderFrame DEF Quiet, ReadIndex, ReadSample, EndBin, SubsReturn
  <2> QED BY <2>1, <2>2 DEF PulsesInv, Pulses
<1>13. CASE UNCHANGED vars
  BY <1>13 DEF vars, runVars, subintVars, profVars, PulsesInv, Pulses
<1> QED
  BY <1>1, <1>2, <1>4, <1>5, <1>6, <1>7, <1>8, <1>9, <1>10, <1>11, <1>12, <1>13
  DEF Next, Program, Operator, PulsesInv

-----------------------------------------------------------------------------
(* A column is written *)

\* A column of one row: the row is there afterwards, with the column, and
\* nothing else has changed.
LEMMA WriteColTable ==
  ASSUME TypeOK, WriteCol, status' = 0, Elements(col) > 0, EndRow(col) = subint_cnt,
         Len(cells) \in {subint_cnt - 1, subint_cnt}
  PROVE  /\ Len(cells') = subint_cnt
         /\ \A r \in 1 .. subint_cnt - 1 : cells'[r] = cells[r]
         /\ \A k \in Columns :
              cells'[subint_cnt][k] = IF k = col THEN Value(col)
                                      ELSE IF Len(cells) = subint_cnt THEN cells[subint_cnt][k]
                                      ELSE Blank
<1> DEFINE s == subint_cnt
           table == Extended(s)
           row == [table[s] EXCEPT ![col] = Value(col)]
<1>1. Len(cells) \in Nat /\ cells \in Seq(Cells) /\ s \in Nat \ {0} /\ col \in Columns
  BY LenProperties DEF TypeOK, Cells, WriteCol
<1>2. /\ table \in Seq(Cells) /\ Len(table) = s
      /\ \A r \in 1 .. s : table[r] = IF r <= Len(cells) THEN cells[r] ELSE BlankRow
  <2>1. s \in Nat /\ (IF s > Len(cells) THEN s ELSE Len(cells)) = s
    BY <1>1
  <2>2. /\ table \in Seq(Cells)
        /\ Len(table) = IF s > Len(cells) THEN s ELSE Len(cells)
        /\ \A r \in 1 .. Len(table) : table[r] = IF r <= Len(cells) THEN cells[r] ELSE BlankRow
    BY <2>1, ExtendedType
  <2> HIDE DEF s, table
  <2> QED BY <2>1, <2>2
<1>3. cells' = [table EXCEPT ![s][col] = Value(col)]
  BY DEF WriteCol
<1> HIDE DEF table
<1>4. table[s] \in Cells
  BY <1>1, <1>2, ElementOfSeq
<1>5. /\ row \in Cells
      /\ \A k \in Columns : row[k] = IF k = col THEN Value(col) ELSE table[s][k]
  BY <1>1, <1>4, ValueType DEF Cells
<1>6. cells' = [table EXCEPT ![s] = row]
  BY <1>3
<1> HIDE DEF row
<1>7. /\ Len(cells') = s
      /\ \A r \in 1 .. s : cells'[r] = IF r = s THEN row ELSE table[r]
  BY <1>1, <1>2, <1>5, <1>6, ExceptSeq
<1>8. \A r \in 1 .. s - 1 : r \in 1 .. s /\ r # s /\ r <= Len(cells)
  BY <1>1
<1>9. \A r \in 1 .. s - 1 : cells'[r] = cells[r]
  BY <1>2, <1>7, <1>8
<1>10. s \in 1 .. s /\ cells'[s] = row
  BY <1>1, <1>7
<1>11. table[s] = IF Len(cells) = s THEN cells[s] ELSE BlankRow
  BY <1>1, <1>2, <1>10
<1>12. \A k \in Columns : BlankRow[k] = Blank
  BY DEF BlankRow
<1> QED BY <1>5, <1>7, <1>9, <1>10, <1>11, <1>12

\* And of its elements, which go to DATA: the rows above are as they were, and
\* this one is what is written, or as it was.
LEMMA WriteColElements ==
  ASSUME TypeOK, Len(cells) \in {subint_cnt - 1, subint_cnt},
         width[19] \in Nat \ {0}, Len(data) = Len(cells) * width[19],
         NEW elems \in Seq(Sample), Len(elems) \in {0, width[19]}
  PROVE  LET w == width[19]
             above == (subint_cnt - 1) * w
             new == DataAfter(subint_cnt, subint_cnt, elems)
         IN  /\ Len(new) = subint_cnt * w
             /\ \A i \in 1 .. above : new[i] = data[i]
             /\ Len(elems) = w => \A n \in 1 .. w : new[above + n] = elems[n]
             /\ Len(elems) = 0 /\ Len(cells) = subint_cnt => \A n \in 1 .. w : new[above + n] = data[above + n]
<1> DEFINE s == subint_cnt
           w == width[19]
           above == (s - 1) * w
           size == s * w
           rows == IF s > Len(cells) THEN s ELSE Len(cells)
           Elem(i) == IF i - above \in 1 .. Len(elems) THEN elems[i - above]
                      ELSE IF i <= Len(data) THEN data[i] ELSE Zero
           new == DataAfter(s, s, elems)
<1>1. s \in Nat \ {0} /\ w \in Nat \ {0} /\ Len(cells) \in Nat
  BY LenProperties DEF TypeOK
<1>2. new = [i \in 1 .. rows * w |-> Elem(i)] /\ rows = s
  BY <1>1 DEF DataAfter
<1>3. above \in Nat /\ size \in Nat /\ size = above + w
  <2>1. above \in Nat /\ size \in Nat
    BY <1>1, SMTT(20)
  <2>2. size = above + w
    BY <1>1, SMTT(20)
  <2> QED BY <2>1, <2>2
<1>4. Len(data) \in {above, size} /\ (Len(cells) = s => Len(data) = size)
  BY <1>1
<1>5. new = [i \in 1 .. size |-> Elem(i)]
  BY <1>2
<1> HIDE DEF new, size, above, w, s, rows
<1>6. Len(new) = size /\ \A i \in 1 .. size : new[i] = Elem(i)
  <2> HIDE DEF Elem
  <2> QED BY <1>3, <1>5
<1>7. \A i \in 1 .. above : new[i] = data[i]
  <2> TAKE i \in 1 .. above
  <2>1. i \in 1 .. size /\ ~(i - above \in 1 .. Len(elems)) /\ i <= Len(data)
    BY <1>1, <1>3, <1>4
  <2> QED BY <2>1, <1>6
<1>8. ASSUME NEW n \in 1 .. w
      PROVE  /\ above + n \in 1 .. size /\ (above + n) - above = n
             /\ Len(data) = size => above + n <= Len(data)
  BY <1>1, <1>3
<1>9. Len(elems) = w => \A n \in 1 .. w : new[above + n] = elems[n]
  BY <1>6, <1>8
<1>10. Len(elems) = 0 /\ Len(cells) = s => \A n \in 1 .. w : new[above + n] = data[above + n]
  <2> SUFFICES ASSUME Len(elems) = 0, Len(cells) = s, NEW n \in 1 .. w
               PROVE  new[above + n] = data[above + n]
    OBVIOUS
  <2>1. ~((above + n) - above \in 1 .. Len(elems))
    BY <1>8
  <2> QED BY <2>1, <1>4, <1>6, <1>8
<1> QED BY <1>6, <1>7, <1>9, <1>10 DEF new, size, above, w, s

\* The columns of PsrFits get what it says.
LEMMA ValueIs ==
  ASSUME TypeOK, Quiet, PlaceInv, RowsInv, OffsInv, PulsesInv, TableInv, Convertible(input),
         InTable, pc = "cols", col \in Kept
  PROVE  Value(col) = CellOf(subint_cnt, col)
<1> DEFINE s == subint_cnt
<1>1. exit = "running" /\ status = 0 /\ SizesRight /\ CellsRight
  BY DEF InTable, TableInv
<1>2. s \in 1 .. Final /\ s \in Nat \ {0} /\ fh = input.subints[s].hdr
  BY <1>1, AtColumns
<1>3. CASE col = 1
  BY <1>3 DEF Value, CellOf
<1>4. CASE col = 3
  <2>1. runpulses = Pulses(s)
    BY <1>1, <1>4 DEF PulsesInv
  <2>2. PF!Length(input.subints, s) = (input.subints[s].hdr.numpulses - Pulses(s)) * input.subints[s].hdr.period
    BY DEF PF!Length, Pulses
  <2> QED BY <1>2, <1>4, <2>1, <2>2 DEF Value, CellOf
<1>5. CASE col = 4
  <2>1. off_sub = NextOffset
    BY <1>1, <1>5 DEF OffsInv, RowSoFar
  <2>2. CASE s = 1
    <3>1. PF!Offset(input.subints, 1) = 0
      <4>1. Len(input.subints) \in Nat \ {0} /\ 1 \in 1 .. Len(input.subints)
        BY <1>2, <2>2, ConvertibleIs DEF Final
      <4> QED BY <4>1, OffsetIs
    <3> QED BY <1>5, <2>1, <2>2, <3>1 DEF NextOffset, Value, CellOf
  <2>3. CASE s # 1
    <3>1. s - 1 \in 1 .. Len(cells) /\ 3 \in Columns /\ 4 \in Columns
      <4>1. Len(cells) \in {s, s - 1}
        BY <1>1 DEF SizesRight
      <4> QED BY <4>1, <1>2, <2>3 DEF Columns
    <3>2. Wrote(s - 1, 3) /\ Wrote(s - 1, 4)
      BY <1>2 DEF Wrote
    <3>3. cells[s - 1][3] = CellOf(s - 1, 3) /\ cells[s - 1][4] = CellOf(s - 1, 4)
      BY <1>1, <3>1, <3>2 DEF CellsRight, Kept
    <3>4. /\ CellOf(s - 1, 3) = PF!Length(input.subints, s - 1)
          /\ CellOf(s - 1, 4) = PF!Offset(input.subints, s - 1)
      BY DEF CellOf
    <3>5. PF!Offset(input.subints, s) = PF!Offset(input.subints, s - 1) + PF!Length(input.subints, s - 1)
      <4>1. Len(input.subints) \in Nat \ {0} /\ s \in 1 .. Len(input.subints)
        BY <1>2, ConvertibleIs DEF Final
      <4> QED BY <4>1, <2>3, OffsetIs
    <3> QED BY <1>5, <2>1, <2>3, <3>3, <3>4, <3>5 DEF NextOffset, Value, CellOf
  <2> QED BY <2>2, <2>3
<1>6. CASE col \in {15, 20, 21}
  BY <1>2, <1>6 DEF Value, CellOf
<1> QED BY <1>3, <1>4, <1>5, <1>6 DEF Kept

\* A column that is written without an error.
LEMMA WriteColRight ==
  ASSUME TypeOK, Quiet, PlaceInv, RowsInv, SubwayInv, OffsInv, PulsesInv, TableInv,
         Convertible(input), WriteCol, InTable'
  PROVE  (SizesRight /\ CellsRight /\ DataRight)'
<1> DEFINE s == subint_cnt
           w == RowSize
           above == (s - 1) * w
           elems == IF col = 19 THEN subway ELSE << >>
<1>1. /\ exit = "running" /\ pc = "cols" /\ pc' = "cols" /\ status' = 0 /\ status = 0
      /\ col \in Columns /\ col' = col + 1 /\ call = "none"
      /\ input' = input /\ subint_cnt' = subint_cnt /\ width' = width
  BY DEF WriteCol, At, ColumnStatus, ReportAndExitOnError, InTable, runVars
<1>2. InTable /\ SizesRight /\ CellsRight /\ DataRight
  BY <1>1 DEF InTable, TableInv
<1>3. /\ s \in 1 .. Final /\ s \in Nat \ {0} /\ w \in Nat \ {0}
      /\ \A k : Elements(k) = WidthOf(k) /\ WidthOf(k) \in Nat \ {0}
  BY <1>1, AtColumns
<1>4. EndRow(col) = s /\ Elements(col) > 0
  <2> DEFINE e == WidthOf(col)
  <2>1. e \in Nat \ {0} /\ Elements(col) = e /\ width[col] = e
    BY <1>1, <1>2, <1>3 DEF SizesRight
  <2>2. (e - 1) \div e = 0
    <3> HIDE DEF e
    <3>1. e - 1 \in 0 .. e - 1 /\ 0 * e + (e - 1) = e - 1
      BY <2>1
    <3> QED BY <3>1, <2>1, Division
  <2> HIDE DEF e
  <2> QED BY <2>1, <2>2, <1>3 DEF EndRow
<1>5. /\ Len(cells) = IF col > 1 THEN s ELSE s - 1
      /\ Len(data) = Len(cells) * w /\ width[19] = w
      /\ Len(cells) \in {s - 1, s}
  <2>1. 19 \in Columns /\ WidthOf(19) = w
    BY DEF Columns, WidthOf
  <2> QED BY <1>1, <1>2, <2>1 DEF SizesRight
<1>6. /\ Len(cells') = s
      /\ \A r \in 1 .. s - 1 : cells'[r] = cells[r]
      /\ \A k \in Columns : cells'[s][k] = IF k = col THEN Value(col)
                                           ELSE IF Len(cells) = s THEN cells[s][k] ELSE Blank
  BY <1>1, <1>4, <1>5, WriteColTable
<1>7. elems \in Seq(Sample) /\ Len(elems) = IF col = 19 THEN w ELSE 0
  <2>1. Shaped /\ First.pol = 1 /\ input.numchans \in Nat
    BY <1>1, ConvertibleIs DEF Shaped
  <2>2. Len(subway) = w
    BY <1>1, <2>1 DEF SubwayInv, RowWidth, RowSize
  <2> QED BY <2>2 DEF TypeOK, ProfTypeOK
<1>8. data' = DataAfter(s, s, elems)
  BY <1>1, <1>4 DEF WriteCol
<1> HIDE DEF elems
<1>9. /\ Len(data') = s * w
      /\ \A i \in 1 .. above : data'[i] = data[i]
      /\ col = 19 => \A n \in 1 .. w : data'[above + n] = elems[n]
      /\ col # 19 /\ Len(cells) = s => \A n \in 1 .. w : data'[above + n] = data[above + n]
  <2>1. Len(elems) \in {0, width[19]} /\ width[19] \in Nat \ {0} /\ Len(data) = Len(cells) * width[19]
        /\ Len(cells) \in {subint_cnt - 1, subint_cnt}
    BY <1>3, <1>5, <1>7
  <2> DEFINE new == DataAfter(subint_cnt, subint_cnt, elems)
  <2>2. /\ Len(new) = subint_cnt * width[19]
        /\ \A i \in 1 .. (subint_cnt - 1) * width[19] : new[i] = data[i]
        /\ Len(elems) = width[19] => \A n \in 1 .. width[19] : new[(subint_cnt - 1) * width[19] + n] = elems[n]
        /\ Len(elems) = 0 /\ Len(cells) = subint_cnt =>
             \A n \in 1 .. width[19] : new[(subint_cnt - 1) * width[19] + n] = data[(subint_cnt - 1) * width[19] + n]
    <3> HIDE DEF new
    <3> QED BY <2>1, <1>7, WriteColElements DEF new
  <2> HIDE DEF new
  <2>3. data' = new
    BY <1>8 DEF new
  <2>4. w # 0
    BY <1>3
  <2> HIDE DEF w
  <2> QED BY <2>2, <2>3, <2>4, <1>5, <1>7
<1>10. /\ Nb' = Nb /\ RowSize' = RowSize /\ \A k : WidthOf(k)' = WidthOf(k)
       /\ \A r, k : CellOf(r, k)' = CellOf(r, k)
  <2>1. Nb' = Nb /\ RowSize' = RowSize
    BY <1>1, SameInput DEF RowSize
  <2> QED BY <1>1, <2>1 DEF WidthOf, CellOf
<1>11. \A r, k : Wrote(r, k)' <=> r < s \/ (r = s /\ k < col + 1)
  BY <1>1 DEF Wrote
<1>12. \A r, k : Wrote(r, k) <=> r < s \/ (r = s /\ k < col)
  BY <1>1 DEF Wrote
<1>13. SizesRight'
  <2>1. col + 1 > 1
    BY <1>1 DEF Columns
  <2> QED BY <1>1, <1>2, <1>6, <1>9, <1>10, <2>1 DEF SizesRight
<1>14. CellsRight'
  <2>1. ASSUME NEW r \in 1 .. s, NEW k \in Columns
        PROVE  /\ cells'[r][k] # Blank <=> Wrote(r, k)'
               /\ Wrote(r, k)' /\ k \in Kept => cells'[r][k] = CellOf(r, k)
    <3>0. k \in 1 .. 21 /\ col \in 1 .. 21 /\ r \in Nat
      BY <1>1, <1>3 DEF Columns
    <3>1. CASE r # s
      <4>1. r \in 1 .. s - 1 /\ r \in 1 .. Len(cells) /\ r < s
        BY <1>3, <1>5, <3>1
      <4>2. cells'[r] = cells[r] /\ Wrote(r, k) /\ Wrote(r, k)'
        BY <4>1, <1>6, <1>11, <1>12
      <4> QED BY <4>1, <4>2, <1>2 DEF CellsRight
    <3>2. CASE r = s /\ k = col
      <4>1. cells'[r][k] = Value(col) /\ Wrote(r, k)'
        BY <3>0, <3>2, <1>6, <1>11
      <4>2. Value(col) # Blank
        BY ValueType, BlankAssumption
      <4>3. k \in Kept => Value(col) = CellOf(r, k)
        BY <1>1, <1>2, <3>2, ValueIs
      <4> QED BY <4>1, <4>2, <4>3
    <3>3. CASE r = s /\ k # col
      <4>1. Wrote(r, k)' <=> Wrote(r, k)
        BY <3>0, <3>3, <1>11, <1>12
      <4>2. CASE col = 1
        <5>1. Len(cells) # s /\ ~(k < col)
          BY <4>2, <3>0, <1>3, <1>5
        <5>2. cells'[r][k] = Blank /\ ~Wrote(r, k)
          BY <5>1, <3>0, <3>3, <1>3, <1>6, <1>12
        <5> QED BY <4>1, <5>2
      <4>3. CASE col > 1
        <5>1. Len(cells) = s /\ r \in 1 .. Len(cells)
          BY <4>3, <3>3, <1>3, <1>5
        <5>2. cells'[r][k] = cells[r][k]
          BY <5>1, <3>3, <1>6
        <5> QED BY <4>1, <5>1, <5>2, <1>2 DEF CellsRight
      <4> QED BY <4>2, <4>3, <3>0
    <3> QED BY <3>1, <3>2, <3>3
  <2> QED BY <2>1, <1>6, <1>10 DEF CellsRight
<1>15. DataRight'
  <2>1. ASSUME NEW r \in 1 .. s, Wrote(r, 19)', NEW n \in 1 .. w
        PROVE  data'[(r - 1) * w + n].v = PF!Samples(input.subints[r])[n]
    <3>0. col \in 1 .. 21 /\ r \in Nat \ {0} /\ n \in Nat
      BY <1>1, <1>3 DEF Columns
    <3>1. CASE r # s
      <4>1. r \in 1 .. Len(cells) /\ r < s /\ r - 1 \in Nat /\ s - 1 \in Nat /\ r <= s - 1
        BY <1>3, <1>5, <3>0, <3>1
      <4>2. (r - 1) * w + n \in 1 .. above
        <5>1. r * w <= above
          BY <4>1, <3>0, <1>3, TimesIsMonotonic
        <5>2. r * w = (r - 1) * w + w
          BY <4>1, <3>0, <1>3
        <5> DEFINE x == (r - 1) * w
        <5>3. x \in Nat /\ above \in Nat /\ x + w <= above
          BY <5>1, <5>2, <4>1, <1>3
        <5> HIDE DEF x, above, w
        <5>4. x + n \in 1 .. above
          BY <5>3, <1>3, <3>0
        <5> QED BY <5>4 DEF x
      <4>3. data'[(r - 1) * w + n] = data[(r - 1) * w + n]
        BY <4>2, <1>9
      <4>4. Wrote(r, 19)
        BY <4>1, <1>12
      <4> QED BY <4>1, <4>3, <4>4, <1>2 DEF DataRight
    <3>2. CASE r = s /\ col = 19
      <4>1. data'[(r - 1) * w + n] = subway[n]
        BY <3>2, <1>9 DEF elems
      <4>2. PICK ch \in 0 .. input.numchans - 1 : \E bn \in 0 .. Nb - 1 :
                n = ch * Nb + bn + 1 /\ PF!Samples(input.subints[s])[n] = input.subints[s].cube[ch + 1][bn + 1]
        BY <1>3, SamplesAre
      <4>3. PICK bn \in 0 .. Nb - 1 :
                n = ch * Nb + bn + 1 /\ PF!Samples(input.subints[s])[n] = input.subints[s].cube[ch + 1][bn + 1]
        BY <4>2
      <4>4. subway[ch * Nb + bn + 1].v = input.subints[subint_cnt].cube[ch + 1][bn + 1]
        <5>1. Shaped /\ RowWidth # 0
          <6>1. input.numchans * First.pol = input.numchans
            BY ConvertibleIs
          <6>2. RowWidth = w
            BY <6>1 DEF RowWidth, RowSize
          <6> QED BY <6>2, <1>1, <1>3, ConvertibleIs DEF Shaped
        <5>2. InTheFile(s, ch, bn)
          BY <1>3, InFile DEF InTheFile
        <5>3. subway[ch * Nb + bn + 1] = SampleOf(s, ch, bn)
          BY <5>1, <5>2, <1>1 DEF SubwayInv
        <5> QED BY <5>3 DEF SampleOf
      <4> QED BY <3>2, <4>1, <4>3, <4>4
    <3>3. CASE r = s /\ col # 19
      <4>1. 19 < col
        BY <3>0, <3>3, <2>1, <1>3, <1>11
      <4>2. Wrote(r, 19) /\ Len(cells) = s /\ r \in 1 .. Len(cells)
        BY <4>1, <3>0, <3>3, <1>3, <1>5, <1>12
      <4>3. data'[(r - 1) * w + n] = data[(r - 1) * w + n]
        BY <4>2, <3>3, <1>9
      <4> QED BY <4>2, <4>3, <1>2 DEF DataRight
    <3> QED BY <3>1, <3>2, <3>3
  <2> QED BY <2>1, <1>1, <1>6, <1>10 DEF DataRight
<1> QED BY <1>13, <1>14, <1>15

\* The table is created, empty, with the columns as wide as the file's rows.
LEMMA CreateSubintRight ==
  ASSUME TypeOK, ControlInv, RowsInv, FirstInv, PlaceInv, DataInv, TableInv, Convertible(input),
         CreateSubint, status' = 0
  PROVE  /\ cells = << >> /\ cells' = << >> /\ data' = << >>
         /\ InTable' => (SizesRight /\ CellsRight /\ DataRight)'
<1>1. /\ exit = "running" /\ pc = "table" /\ call = "none" /\ status = 0
      /\ input' = input /\ cells' = cells /\ data' = data /\ subint_cnt' = subint_cnt
      /\ width' = [k \in Columns |-> Elements(k)]
      /\ pc' = "loop" \/ exit' = "abort"
  BY DEF CreateSubint, At, TableStatus, MayFail, runVars, subintVars
<1>2. cells = << >> /\ data = << >>
  BY <1>1 DEF TableInv, DataInv
<1>3. subint_cnt = 1
  BY <1>1 DEF RowsInv
<1>4. /\ Complete(input) /\ Shaped /\ Nb \in Nat \ {0} /\ First.pol = 1 /\ First.numbins = Nb
  <2>1. Complete(input) /\ Uniform(input) /\ Cut(input) /\ Nb \in Nat \ {0} /\ First.pol = 1
        /\ First.numbins = Nb
    BY ConvertibleIs DEF First
  <2> QED BY <2>1, <1>1 DEF Shaped
<1>5. numchans = input.numchans /\ fh = First
  BY <1>1, <1>4 DEF PlaceInv, FirstInv, BeforeLoop
<1>6. \A k : Elements(k) = WidthOf(k)
  BY <1>4, <1>5, SizesAre
<1>7. ASSUME InTable' PROVE (SizesRight /\ CellsRight /\ DataRight)'
  <2>1. pc' = "loop"
    BY <1>1, <1>7 DEF InTable
  <2>2. Nb' = Nb /\ RowSize' = RowSize /\ \A k : WidthOf(k)' = WidthOf(k)
    <3>1. Nb' = Nb /\ RowSize' = RowSize
      BY <1>1, SameInput DEF RowSize
    <3> QED BY <1>1, <3>1 DEF WidthOf
  <2>3. \A k \in Columns : width'[k] = WidthOf(k)
    BY <1>1, <1>6
  <2>4. Len(cells') = 0 /\ Len(data') = 0
    BY <1>1, <1>2
  <2>5. 0 * RowSize = 0
    <3>1. RowSize \in Nat
      BY <1>4, ConvertibleIs DEF RowSize
    <3> QED BY <3>1
  <2>6. SizesRight'
    BY <1>1, <1>3, <2>1, <2>2, <2>3, <2>4, <2>5 DEF SizesRight
  <2>7. CellsRight' /\ DataRight'
    BY <2>4 DEF CellsRight, DataRight
  <2> QED BY <2>6, <2>7
<1> QED BY <1>1, <1>2, <1>7

\* A step that writes no column.
LEMMA SameTable ==
  ASSUME TypeOK, TableInv, cells' = cells, data' = data, width' = width, input' = input,
         disk' = "absent" => disk = "absent",
         exit' = "running" => exit = "running",
         exit' = "running" /\ status' = 0 => status = 0,
         exit' = "running" /\ pc' \in {"primary", "history", "par", "table"} =>
           pc \in {"primary", "history", "par", "table"},
         exit' = "running" /\ pc' \in {"loop", "cols", "close"} =>
           /\ pc \in {"loop", "cols", "close"}
           /\ \/ /\ subint_cnt' = subint_cnt
                 /\ \/ pc' = pc /\ (pc = "cols" => col' = col)
                    \/ pc # "cols" /\ pc' # "cols"
                    \/ pc # "cols" /\ pc' = "cols" /\ col' = 1
              \/ pc = "cols" /\ pc' # "cols" /\ col = 22 /\ subint_cnt' = subint_cnt + 1
  PROVE  TableInv'
<1>1. disk' = "absent" => cells' = << >>
  BY DEF TableInv
<1>2. exit' = "running" /\ status' = 0 /\ pc' \in {"primary", "history", "par", "table"} => cells' = << >>
  BY DEF TableInv
<1>3. ASSUME InTable' PROVE (SizesRight /\ CellsRight /\ DataRight)'
  <2>1. InTable /\ SizesRight /\ CellsRight /\ DataRight
    BY <1>3 DEF InTable, TableInv
  <2>2. subint_cnt \in Nat \ {0} /\ col \in 1 .. 22
    BY DEF TypeOK
  <2>3. Len(cells) = IF pc' = "cols" /\ col' > 1 THEN subint_cnt' ELSE subint_cnt' - 1
    BY <1>3, <2>1, <2>2 DEF InTable, SizesRight
  <2>4. \A r \in 1 .. Len(cells) : \A k \in Columns : Wrote(r, k)' <=> Wrote(r, k)
    <3> TAKE r \in 1 .. Len(cells)
    <3> TAKE k \in Columns
    <3>1. r \in Int /\ k \in 1 .. 21
      <4>1. Len(cells) \in Nat
        BY LenProperties DEF TypeOK
      <4> QED BY <4>1 DEF Columns
    <3> QED BY <1>3, <2>2, <3>1 DEF InTable, Wrote
  <2>5. /\ Nb' = Nb /\ RowSize' = RowSize /\ \A k : WidthOf(k)' = WidthOf(k)
        /\ \A r, k : CellOf(r, k)' = CellOf(r, k)
    <3>1. Nb' = Nb /\ RowSize' = RowSize
      BY SameInput DEF RowSize
    <3> QED BY <3>1 DEF WidthOf, CellOf
  <2>6. SizesRight'
    BY <2>1, <2>3, <2>5 DEF SizesRight
  <2>7. CellsRight'
    BY <2>1, <2>4, <2>5 DEF CellsRight
  <2>8. DataRight'
    <3>1. 19 \in Columns
      BY DEF Columns
    <3> QED BY <3>1, <2>1, <2>4, <2>5 DEF DataRight
  <2> QED BY <2>6, <2>7, <2>8
<1> QED BY <1>1, <1>2, <1>3 DEF TableInv

LEMMA NextTable ==
  ASSUME TypeOK, ControlInv, Quiet, FirstInv, PlaceInv, RowsInv, SubwayInv, DataInv, OffsInv, PulsesInv,
         TableInv, Convertible(input), [Next]_vars
  PROVE  TableInv'
<1>1. CASE Launch
  BY <1>1 DEF Launch, TableInv, InTable, outputVars, tableVars
<1>2. CASE RemoveOutput
  BY <1>2 DEF RemoveOutput, TableInv, InTable
<1>3. CASE OpenProf
  BY <1>3, SameTable DEF OpenProf, At, runVars, outputVars, tableVars
<1>4. CASE SanityCheck
  BY <1>4, SameTable DEF SanityCheck, At, GoOn, runVars, outputVars, tableVars
<1>5. CASE CreateFITS
  <2>1. /\ exit = "running" /\ cells' = cells /\ pc' = "primary"
        /\ disk' = "absent" => disk = "absent"
        /\ status' = 0 => disk = "absent"
    BY <1>5 DEF CreateFITS, At, NameTaken, FILE_NOT_CREATED, tableVars
  <2> QED BY <2>1 DEF TableInv, InTable
<1>6. CASE PrimaryHeader
  BY <1>6, SameTable DEF PrimaryHeader, At, GoOn, MayFail, runVars, tableVars
<1>7. CASE PutHistoryTable
  BY <1>7, SameTable DEF PutHistoryTable, At, GoOn, MayFail, runVars, tableVars
<1>8. CASE PutPar
  BY <1>8, SameTable DEF PutPar, At, ReportAndExitOnError, MayFail, runVars, tableVars
<1>9. CASE CreateSubint
  <2>1. CASE status' = 0
    <3>1. /\ cells = << >> /\ cells' = << >>
          /\ InTable' => (SizesRight /\ CellsRight /\ DataRight)'
      BY <1>9, <2>1, CreateSubintRight
    <3> QED BY <3>1 DEF TableInv
  <2>2. CASE status' # 0
    BY <1>9, <2>2 DEF CreateSubint, TableInv, InTable
  <2> QED BY <2>1, <2>2
<1>10. CASE BeginSubint
  BY <1>10, SameTable DEF BeginSubint, At, runVars, outputVars, tableVars
<1>11. CASE WriteCol
  <2>1. InTable' => (SizesRight /\ CellsRight /\ DataRight)'
    BY <1>11, WriteColRight
  <2>2. /\ exit = "running" /\ pc = "cols" /\ pc' = "cols" /\ disk' = disk
        /\ cells' = cells \/ status' = 0
        /\ status' = 0 => status = 0
    BY <1>11 DEF WriteCol, At, ColumnStatus, ReportAndExitOnError
  <2>3. disk' = "absent" => cells' = << >>
    BY <2>2 DEF TableInv, ControlInv, Early
  <2> QED BY <2>1, <2>2, <2>3 DEF TableInv
<1>12. CASE NextSubint
  <2>1. col = 22
    BY <1>12 DEF NextSubint, TypeOK, Columns
  <2> QED BY <1>12, <2>1, SameTable DEF NextSubint, At, runVars, outputVars, tableVars
<1>13. CASE EndSubints
  BY <1>13, SameTable DEF EndSubints, At, ReportAndExitOnError, runVars, outputVars, tableVars, subintVars
<1>14. CASE CloseFITS
  BY <1>14, SameTable DEF CloseFITS, At, runVars, outputVars, tableVars
<1>15. CASE HeapOverrun
  BY <1>15, SameTable DEF HeapOverrun, runVars, outputVars, tableVars
<1>16. CASE Reader
  BY <1>16, SameTable DEF Reader, runVars, outputVars, tableVars, subintVars
<1>17. CASE UNCHANGED vars
  BY <1>17, SameTable DEF vars, runVars, outputVars, tableVars, subintVars
<1> QED
  BY <1>1, <1>2, <1>3, <1>4, <1>5, <1>6, <1>7, <1>8, <1>9, <1>10, <1>11, <1>12, <1>13, <1>14, <1>15,
     <1>16, <1>17
  DEF Next, Program, Operator

-----------------------------------------------------------------------------
(* The rows of the output *)

\* The rows that are whole.
Done == IF pc = "cols" /\ col > 21 THEN subint_cnt ELSE subint_cnt - 1

\* While a run has seen no error the rows are those of the sub-integrations so
\* far.
LEMMA RowsAre ==
  ASSUME TypeOK, Quiet, PlaceInv, RowsInv, TableInv, Convertible(input), InTable
  PROVE  Done \in 0 .. Final /\ Rows = [r \in 1 .. Done |-> PF!Row(input.subints, r)]
<1> DEFINE s == subint_cnt
           subs == input.subints
<1>1. /\ exit = "running" /\ pc \in {"loop", "cols", "close"}
      /\ SizesRight /\ CellsRight /\ DataRight
  BY DEF InTable, TableInv
<1>2. s \in Nat \ {0} /\ col \in 1 .. 22 /\ Final \in Nat
  BY ConvertibleIs DEF TypeOK
<1>3. Done \in 0 .. Final
  <2>1. pc = "cols" => s \in 1 .. Final
    BY <1>1, RowsOfFile
  <2>2. pc # "cols" => s \in 1 .. Final + 1
    BY <1>1, RowsOfFile
  <2> HIDE DEF s
  <2> QED BY <2>1, <2>2, <1>2 DEF Done, s
<1>4. Done \in Nat /\ Done \in {s - 1, s}
  BY <1>2, <1>3 DEF Done
<1>5. Len(cells) \in Nat /\ Done <= Len(cells) /\ Len(cells) <= s /\ DOMAIN cells = 1 .. Len(cells)
  <2>1. Len(cells) \in Nat /\ DOMAIN cells = 1 .. Len(cells)
    BY LenProperties DEF TypeOK
  <2>2. Len(cells) = IF pc = "cols" /\ col > 1 THEN s ELSE s - 1
    BY <1>1 DEF SizesRight
  <2> QED BY <2>1, <2>2, <1>2 DEF Done
<1>6. ASSUME NEW r \in 1 .. Len(cells), NEW k \in Columns
      PROVE  /\ r <= Done => Wrote(r, k)
             /\ k = 21 /\ Wrote(r, k) => r <= Done
  <2>1. r \in Nat /\ k \in 1 .. 21
    BY <1>5 DEF Columns
  <2> QED BY <2>1, <1>2, <1>4, <1>5 DEF Wrote, Done
<1>7. FullRows = 1 .. Done
  <2>1. ASSUME NEW r \in FullRows PROVE r \in 1 .. Done
    <3>1. r \in 1 .. Len(cells) /\ 21 \in Columns /\ cells[r][21] # Blank
      BY <1>5 DEF FullRows, Columns
    <3>2. Wrote(r, 21)
      BY <3>1, <1>1 DEF CellsRight
    <3> QED BY <3>1, <3>2, <1>4, <1>5, <1>6
  <2>2. ASSUME NEW r \in 1 .. Done PROVE r \in FullRows
    <3>1. r \in 1 .. Len(cells) /\ r <= Done
      BY <1>4, <1>5
    <3>2. \A k \in Columns : cells[r][k] # Blank
      BY <3>1, <1>1, <1>6 DEF CellsRight
    <3> QED BY <3>1, <3>2, <1>5 DEF FullRows
  <2> QED BY <2>1, <2>2
<1>8. Cardinality(FullRows) = Done
  <2>1. 1 \in Int /\ Done \in Int
    BY <1>4
  <2>2. Cardinality(1 .. Done) = IF 1 > Done THEN 0 ELSE Done - 1 + 1
    BY <2>1, FS_Interval
  <2> QED BY <2>2, <1>4, <1>7
<1>9. ASSUME NEW r \in 1 .. Done PROVE RowOf(r) = PF!Row(subs, r)
  <2>1. r \in 1 .. Len(cells) /\ r <= Done /\ r \in 1 .. Final
    <3>1. Done \in 0 .. Final /\ Done \in Nat /\ Final \in Nat /\ Len(cells) \in Nat /\ Done <= Len(cells)
      BY <1>2, <1>3, <1>4, <1>5
    <3> HIDE DEF Final, Done
    <3> QED BY <3>1
  <2>2. \A k \in Columns : Wrote(r, k)
    BY <2>1, <1>6
  <2>3. \A k \in Kept : cells[r][k] = CellOf(r, k)
    <3>1. Kept \subseteq Columns
      BY DEF Kept, Columns
    <3> QED BY <3>1, <2>1, <2>2, <1>1 DEF CellsRight
  <2>4. /\ cells[r][1] = r
        /\ cells[r][3] = PF!Length(subs, r)
        /\ cells[r][4] = PF!Offset(subs, r)
        /\ cells[r][15] = subs[r].hdr.freq
        /\ cells[r][20] = subs[r].hdr.period
        /\ cells[r][21] = subs[r].hdr.pol
    BY <2>3 DEF Kept, CellOf
  <2>5. width[19] = RowSize
    <3>1. 19 \in Columns
      BY DEF Columns
    <3> QED BY <3>1, <1>1 DEF SizesRight, WidthOf
  <2> DEFINE d == [n \in 1 .. width[19] |-> data[(r - 1) * width[19] + n].v]
  <2>6. d = PF!Samples(subs[r])
    <3>1. Wrote(r, 19)
      BY <2>2 DEF Columns
    <3>2. \A n \in 1 .. RowSize : data[(r - 1) * RowSize + n].v = PF!Samples(subs[r])[n]
      BY <3>1, <2>1, <1>1 DEF DataRight
    <3>3. PF!Samples(subs[r]) = [n \in 1 .. RowSize |-> PF!Samples(subs[r])[n]]
      BY <2>1, SamplesAre
    <3> QED BY <3>2, <3>3, <2>5, Zenon
  <2> QED BY <2>4, <2>6, Zenon DEF RowOf, PF!Row
<1>10. Rows = [r \in 1 .. Done |-> RowOf(r)]
  BY <1>8, Zenon DEF Rows
<1> QED BY <1>3, <1>9, <1>10

\* They are that as long as nothing is written to the table.
LEMMA SameRowsOut ==
  ASSUME cells' = cells, width' = width, data' = data
  PROVE  Rows' = Rows
  BY DEF Rows, FullRows, RowOf

\* A table without rows.
LEMMA NoRows == cells = << >> => Rows = << >>
<1> SUFFICES ASSUME cells = << >> PROVE Rows = << >>
  OBVIOUS
<1>1. FullRows = {}
  BY DEF FullRows
<1>2. Cardinality(FullRows) = 0
  BY <1>1, FS_EmptySet
<1> QED BY <1>2 DEF Rows

LEMMA NoRowsNext == (cells = << >>)' => (Rows = << >>)'
  BY NoRows, PTL

\* What RowsAre says, as an invariant.
RowsTold ==
  InTable => Done \in 0 .. Final /\ Rows = [r \in 1 .. Done |-> PF!Row(input.subints, r)]

-----------------------------------------------------------------------------
(* Every step of the program is one of PsrFits or none *)

LEMMA AppendIs ==
  ASSUME NEW n \in Nat \ {0}, NEW S, NEW f \in [1 .. n -> S]
  PROVE  Append([r \in 1 .. n - 1 |-> f[r]], f[n]) = [r \in 1 .. n |-> f[r]]
<1> DEFINE g == [r \in 1 .. n - 1 |-> f[r]]
<1>1. g \in Seq(S) /\ f[n] \in S /\ Len(g) = n - 1
  OBVIOUS
<1>2. /\ Append(g, f[n]) \in Seq(S)
      /\ Len(Append(g, f[n])) = n
      /\ \A r \in 1 .. n : Append(g, f[n])[r] = IF r <= n - 1 THEN g[r] ELSE f[n]
  BY <1>1, AppendProperties
<1>3. \A r \in 1 .. n : Append(g, f[n])[r] = f[r]
  BY <1>2
<1> HIDE DEF g
<1>4. Append(g, f[n]) = [r \in 1 .. n |-> Append(g, f[n])[r]]
  BY <1>2
<1> QED BY <1>3, <1>4 DEF g

\* A step that leaves the table as it is, and goes on in the same phase or ends
\* the run with a failure.
LEMMA SilentStep ==
  ASSUME exit = "running", input' = input, cells' = cells, width' = width, data' = data,
         disk' = "absent" <=> disk = "absent",
         \/ exit' \in {"error", "abort"}
         \/ /\ exit' = "running"
            /\ (pc' \in Early \/ status' = FILE_NOT_CREATED)
                 <=> (pc \in Early \/ status = FILE_NOT_CREATED)
  PROVE  [PF!Next]_(PF!absVars)
<1>1. /\ Rows' = Rows /\ input'.subints = input.subints
      /\ (disk # "absent")' = (disk # "absent")
  BY SameRowsOut
<1>2. CASE exit' \in {"error", "abort"}
  <2>1. Phase \in {"started", "writing"} /\ Phase' = "failed"
    BY <1>2 DEF Phase
  <2>2. PF!Fail
    BY <1>1, <2>1 DEF PF!Fail, PF!Busy
  <2> QED BY <2>2 DEF PF!Next, PF!Work
<1>3. CASE /\ exit' = "running"
           /\ (pc' \in Early \/ status' = FILE_NOT_CREATED)
                <=> (pc \in Early \/ status = FILE_NOT_CREATED)
  <2>1. Phase' = Phase
    BY <1>3 DEF Phase, Early
  <2> QED BY <1>1, <2>1 DEF PF!absVars
<1> QED BY <1>2, <1>3

\* The operator's steps.
LEMMA LaunchStep ==
  ASSUME TypeOK, TypeOK', Launch
  PROVE  PF!Begin
<1>1. /\ exit # "running" /\ exit' = "running" /\ pc' = "open" /\ status' = 0
      /\ disk' = disk /\ cells' = cells /\ width' = width /\ data' = data
  BY DEF Launch, outputVars, tableVars
<1>2. Phase \in {"idle", "ok", "failed"} /\ Phase' = "started"
  BY <1>1 DEF Phase, TypeOK
<1>3. input'.subints \in {i.subints : i \in Inputs}
  BY DEF TypeOK
<1>4. Rows' = Rows
  BY <1>1, SameRowsOut
<1> QED BY <1>1, <1>2, <1>3, <1>4 DEF PF!Begin, PF!Busy

LEMMA RemoveStep ==
  ASSUME TypeOK, RemoveOutput
  PROVE  PF!Remove
<1>1. /\ exit # "running" /\ exit' = exit /\ pc' = pc /\ status' = status /\ input' = input
      /\ disk' = "absent" /\ cells' = << >>
  BY DEF RemoveOutput, runVars
<1>2. Phase \in {"idle", "ok", "failed"} /\ Phase' = Phase
  BY <1>1 DEF Phase, TypeOK
<1>3. Rows' = << >>
  BY <1>1, NoRowsNext
<1> QED BY <1>1, <1>2, <1>3 DEF PF!Remove, PF!Busy

\* The output belongs to the run from createFITS on, if it is a new one.
LEMMA CreateStep ==
  ASSUME CreateFITS
  PROVE  [PF!Next]_(PF!absVars)
<1>1. /\ exit = "running" /\ exit' = "running" /\ pc = "create" /\ pc' = "primary" /\ input' = input
      /\ cells' = cells /\ width' = width /\ data' = data
      /\ status' = FILE_NOT_CREATED => disk' = disk
      /\ status' # FILE_NOT_CREATED => disk = "absent" /\ disk' = "partial"
  BY DEF CreateFITS, At, NameTaken, runVars, tableVars
<1>2. CASE status' = FILE_NOT_CREATED
  BY <1>1, <1>2, SilentStep DEF Early
<1>3. CASE status' # FILE_NOT_CREATED
  <2>1. Phase = "started" /\ Phase' = "writing"
    BY <1>1, <1>3 DEF Phase
  <2>2. Rows' = Rows
    BY <1>1, SameRowsOut
  <2>3. PF!Create
    BY <1>1, <1>3, <2>1, <2>2 DEF PF!Create
  <2> QED BY <2>3 DEF PF!Next, PF!Work
<1> QED BY <1>2, <1>3

\* A column that is written: the last one completes a row.
LEMMA WriteColStep ==
  ASSUME TypeOK, ControlInv, Quiet, PlaceInv, RowsInv, TableInv, RowsTold, RowsTold',
         Convertible(input), WriteCol
  PROVE  [PF!Next]_(PF!absVars)
<1> DEFINE s == subint_cnt
           subs == input.subints
<1>1. /\ exit = "running" /\ pc = "cols" /\ pc' = "cols" /\ col \in Columns /\ col' = col + 1
      /\ input' = input /\ disk' = disk /\ width' = width /\ subint_cnt' = s
      /\ exit' = IF col = 19 /\ status' # 0 THEN "error" ELSE "running"
      /\ status' # 0 => cells' = cells /\ data' = data
      /\ status' = 0 => status = 0
      /\ status' = FILE_NOT_CREATED <=> status = FILE_NOT_CREATED
  <2>1. status' = FILE_NOT_CREATED <=> status = FILE_NOT_CREATED
    BY DEF WriteCol, ColumnStatus, MayFail, FILE_NOT_CREATED, WRITE_ERROR, BAD_ELEM_NUM, NUM_OVERFLOW
  <2> QED BY <2>1 DEF WriteCol, At, ColumnStatus, ReportAndExitOnError, runVars
<1>2. CASE status' # 0
  BY <1>1, <1>2, SilentStep
<1>3. CASE status' = 0
  <2>1. InTable /\ InTable' /\ exit' = "running" /\ Phase = "writing" /\ Phase' = "writing"
    BY <1>1, <1>3 DEF InTable, Phase, FILE_NOT_CREATED
  <2>2. /\ s \in 1 .. Final /\ s \in Nat /\ Final \in Nat /\ col \in 1 .. 21
        /\ Final' = Final
    BY <1>1, ConvertibleIs, RowsOfFile DEF TypeOK, Columns, Final
  <2>3. Done = s - 1 /\ Done' = IF col = 21 THEN s ELSE s - 1
    BY <1>1, <2>2 DEF Done
  <2>4. /\ Rows = [r \in 1 .. s - 1 |-> PF!Row(subs, r)]
        /\ Rows' = [r \in 1 .. Done' |-> PF!Row(subs, r)]
    BY <1>1, <2>1, <2>3 DEF RowsTold
  <2>5. input'.subints = subs /\ (disk # "absent")' = (disk # "absent")
    BY <1>1
  <2>6. CASE col = 21
    <3>1. Len(Rows) = s - 1 /\ Len(Rows) < Len(subs)
      <4> HIDE DEF s, subs
      <4>1. Len(Rows) = s - 1
        BY <2>2, <2>4
      <4> QED BY <2>2, <4>1 DEF Final, subs
    <3>2. Rows' = Append(Rows, PF!Row(subs, s))
      <4> DEFINE Row(r) == PF!Row(subs, r)
      <4>1. Rows = [r \in 1 .. s - 1 |-> Row(r)] /\ Rows' = [r \in 1 .. s |-> Row(r)] /\ s \in Nat \ {0}
        BY <2>2, <2>3, <2>4, <2>6
      <4> DEFINE S == {Row(r) : r \in 1 .. s}
                 f == [r \in 1 .. s |-> Row(r)]
      <4>2. f \in [1 .. s -> S] /\ Row(s) = f[s] /\ Rows = [r \in 1 .. s - 1 |-> f[r]]
        BY <4>1
      <4> HIDE DEF Row, S, s
      <4>3. [r \in 1 .. s |-> f[r]] = f
        OBVIOUS
      <4> HIDE DEF f
      <4>4. Append([r \in 1 .. s - 1 |-> f[r]], f[s]) = [r \in 1 .. s |-> f[r]]
        BY <4>1, <4>2, AppendIs
      <4> QED BY <4>1, <4>2, <4>3, <4>4 DEF f, Row
    <3>3. PF!WriteRow
      <4>1. s = Len(Rows) + 1
        BY <2>2, <3>1
      <4> QED BY <2>1, <2>5, <3>1, <3>2, <4>1 DEF PF!WriteRow
    <3> QED BY <3>3 DEF PF!Next, PF!Work
  <2>7. CASE col # 21
    <3>1. Rows' = Rows
      BY <2>3, <2>4, <2>7
    <3> QED BY <2>1, <2>5, <3>1 DEF PF!absVars
  <2> QED BY <2>6, <2>7
<1> QED BY <1>2, <1>3

\* The table is created while there is none.
LEMMA CreateSubintStep ==
  ASSUME TypeOK, ControlInv, Quiet, FirstInv, PlaceInv, RowsInv, DataInv, TableInv,
         Convertible(input), CreateSubint
  PROVE  [PF!Next]_(PF!absVars)
<1>1. /\ exit = "running" /\ pc = "table" /\ input' = input /\ disk' = disk
      /\ status' # 0 => exit' \in {"error", "abort"} /\ cells' = cells /\ width' = width /\ data' = data
      /\ status' = 0 => status = 0
  BY DEF CreateSubint, At, TableStatus, KeywordStatus, BAD_F2C, runVars
<1>2. CASE status' # 0
  BY <1>1, <1>2, SilentStep
<1>3. CASE status' = 0
  <2>1. /\ cells = << >> /\ cells' = << >>
        /\ \/ exit' = "abort"
           \/ exit' = "running" /\ pc' = "loop"
    <3>1. cells = << >> /\ cells' = << >>
      BY <1>3, CreateSubintRight
    <3> QED BY <1>1, <1>3, <3>1 DEF CreateSubint
  <2>2. Rows = << >> /\ Rows' = << >>
    BY <2>1, NoRows, NoRowsNext
  <2>3. Phase = "writing" /\ input'.subints = input.subints /\ (disk # "absent")' = (disk # "absent")
    BY <1>1, <1>3 DEF Phase, FILE_NOT_CREATED
  <2>4. CASE exit' = "abort"
    <3>1. Phase' = "failed"
      BY <2>4 DEF Phase
    <3>2. PF!Fail
      BY <2>2, <2>3, <3>1 DEF PF!Fail, PF!Busy
    <3> QED BY <3>2 DEF PF!Next, PF!Work
  <2>5. CASE exit' = "running" /\ pc' = "loop"
    <3>1. Phase' = "writing"
      BY <1>3, <2>5 DEF Phase, FILE_NOT_CREATED
    <3> QED BY <2>2, <2>3, <3>1 DEF PF!absVars
  <2> QED BY <2>1, <2>4, <2>5
<1> QED BY <1>2, <1>3

\* The program returns 0 when the rows are all there.
LEMMA CloseStep ==
  ASSUME TypeOK, ControlInv, Quiet, PlaceInv, RowsInv, RowsTold, Convertible(input), CloseFITS
  PROVE  [PF!Next]_(PF!absVars)
<1>1. /\ exit = "running" /\ pc = "close" /\ input' = input
      /\ cells' = cells /\ width' = width /\ data' = data
      /\ exit' = IF status' = 0 THEN "ok" ELSE "error"
      /\ disk' = IF status' = 0 THEN "complete" ELSE disk
      /\ status' = 0 => status = 0
  BY DEF CloseFITS, At, MayFail, runVars, outputVars, tableVars
<1>2. CASE status' # 0
  BY <1>1, <1>2, SilentStep
<1>3. CASE status' = 0
  <2>1. InTable /\ Phase = "writing" /\ Phase' = "ok"
    BY <1>1, <1>3 DEF InTable, Phase, FILE_NOT_CREATED
  <2>2. disk = "partial"
    BY <1>1, <1>3 DEF ControlInv, Early
  <2>3. Len(Rows) = Len(input.subints)
    <3>1. Rows = [r \in 1 .. Done |-> PF!Row(input.subints, r)]
      BY <2>1 DEF RowsTold
    <3>2. Done = Final /\ Final \in Nat
      <4>1. subint_cnt = Final + 1 /\ Final \in Nat
        BY <1>1, RowsOfFile, ConvertibleIs
      <4> QED BY <4>1, <1>1 DEF Done
    <3> HIDE DEF Done
    <3>3. Len(Rows) = Final
      BY <3>1, <3>2
    <3> QED BY <3>3 DEF Final
  <2>4. Rows' = Rows
    BY <1>1, SameRowsOut
  <2>5. PF!Finish
    BY <1>1, <1>3, <2>1, <2>2, <2>3, <2>4 DEF PF!Finish
  <2> QED BY <2>5 DEF PF!Next, PF!Work
<1> QED BY <1>2, <1>3

LEMMA StepIs ==
  ASSUME TypeOK, TypeOK', ControlInv, Quiet, FirstInv, PlaceInv, RowsInv, DataInv, TableInv,
         RowsTold, RowsTold', Convertible(input), [Next]_vars
  PROVE  [PF!Next]_(PF!absVars)
<1>1. CASE Launch
  BY <1>1, LaunchStep DEF PF!Next
<1>2. CASE RemoveOutput
  BY <1>2, RemoveStep DEF PF!Next
<1>3. CASE OpenProf
  BY <1>3, SilentStep DEF OpenProf, At, Early, runVars, outputVars, tableVars
<1>4. CASE SanityCheck
  BY <1>4, SilentStep DEF SanityCheck, At, GoOn, Early, runVars, outputVars, tableVars
<1>5. CASE CreateFITS
  BY <1>5, CreateStep
<1>6. CASE PrimaryHeader
  BY <1>6, SilentStep DEF PrimaryHeader, At, GoOn, MayFail, Early, FILE_NOT_CREATED, WRITE_ERROR, runVars, tableVars
<1>7. CASE PutHistoryTable
  BY <1>7, SilentStep
  DEF PutHistoryTable, At, GoOn, MayFail, Early, FILE_NOT_CREATED, WRITE_ERROR, runVars, tableVars
<1>8. CASE PutPar
  BY <1>8, SilentStep
  DEF PutPar, At, ReportAndExitOnError, MayFail, Early, FILE_NOT_CREATED, WRITE_ERROR, runVars, tableVars
<1>9. CASE CreateSubint
  BY <1>9, CreateSubintStep
<1>10. CASE BeginSubint
  BY <1>10, SilentStep DEF BeginSubint, At, Early, runVars, outputVars, tableVars
<1>11. CASE WriteCol
  BY <1>11, WriteColStep
<1>12. CASE NextSubint
  BY <1>12, SilentStep DEF NextSubint, At, Early, runVars, outputVars, tableVars
<1>13. CASE EndSubints
  BY <1>13, SilentStep DEF EndSubints, At, ReportAndExitOnError, Early, runVars, outputVars, tableVars
<1>14. CASE CloseFITS
  BY <1>14, CloseStep
<1>15. CASE HeapOverrun
  BY <1>15, SilentStep DEF HeapOverrun, runVars, outputVars, tableVars
<1>16. CASE Reader
  BY <1>16, SilentStep DEF Reader, runVars, outputVars, tableVars
<1>17. CASE UNCHANGED vars
  <2>1. /\ exit' = exit /\ pc' = pc /\ status' = status /\ disk' = disk /\ input' = input
        /\ cells' = cells /\ width' = width /\ data' = data
    BY <1>17 DEF vars, runVars, outputVars, tableVars
  <2>2. Phase' = Phase /\ Rows' = Rows
    BY <2>1, SameRowsOut DEF Phase
  <2> QED BY <2>1, <2>2 DEF PF!absVars
<1> QED
  BY <1>1, <1>2, <1>3, <1>4, <1>5, <1>6, <1>7, <1>8, <1>9, <1>10, <1>11, <1>12, <1>13, <1>14, <1>15,
     <1>16, <1>17
  DEF Next, Program, Operator

LEMMA InitIs ==
  ASSUME Init
  PROVE  PF!Init
<1>1. input.subints \in {i.subints : i \in Inputs} /\ disk = "absent"
  BY DEF Init
<1>2. Phase = "idle"
  BY DEF Init, Phase
<1>3. Rows = << >>
  BY NoRows DEF Init
<1> QED BY <1>1, <1>2, <1>3 DEF PF!Init

-----------------------------------------------------------------------------
\* On whole files of one shape and one polarisation the program does to the
\* output only what PsrFits allows: whatever else fails, however often it is
\* run, and with whatever in the cfg files, the output gets a row per
\* sub-integration, whole, with its own times and samples, in order; return 0
\* means that it has all of them, and an output that was there is left alone.
THEOREM ConverterImplementsPsrFits ==
  ASSUME \A i \in Inputs : Convertible(i)
  PROVE  Spec => ImplementsPsrFits
<1> DEFINE Inv == /\ TypeOK /\ ControlInv /\ BufferInv /\ Quiet /\ FirstInv /\ PlaceInv /\ RowsInv
                  /\ SubwayInv /\ DataInv /\ OffsInv /\ PulsesInv /\ TableInv
<1>1. TypeOK => Convertible(input)
  BY DEF TypeOK
<1>2. Init => Inv
  BY InitType, InitControl, InitBuffer, InitRows, InitOffs
  DEF Init, Quiet, FirstInv, PlaceInv, SubwayInv, DataInv, PulsesInv, TableInv, Shaped, InTable
<1>3. Inv /\ [Next]_vars => Inv'
  BY <1>1, NextType, NextControl, NextBuffer, NextQuiet, NextFirst, NextPlace, NextRows, NextSubway,
     NextData, NextOffs, NextPulses, NextTable
<1>4. Inv => RowsTold
  BY <1>1, RowsAre DEF RowsTold
<1>5. Init => PF!Init
  BY InitIs
<1>6. Inv /\ Inv' /\ RowsTold /\ RowsTold' /\ [Next]_vars => [PF!Next]_(PF!absVars)
  BY <1>1, StepIs
<1> QED
  BY <1>2, <1>3, <1>4, <1>5, <1>6, PTL DEF Spec, ImplementsPsrFits, PF!Steps
=============================================================================
