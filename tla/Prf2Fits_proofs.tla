--------------------------- MODULE Prf2Fits_proofs ---------------------------
(***************************************************************************)
(* Theorems about Prf2Fits, for every set of inputs, every capacity and    *)
(* with or without faults: its types, and the invariants ControlInv (the   *)
(* status and the output at each stage), BufferInv (the size of subs),     *)
(* OffsInv (times), HdusInv and RowsInv (what is written), with the        *)
(* properties that follow from them.                                       *)
(***************************************************************************)
EXTENDS Prf2Fits, SequenceTheorems, TLAPS

(***************************************************************************)
(* The format has ten conversions, and a conversion leaves a sequence of   *)
(* tokens.                                                                 *)
(***************************************************************************)
LEMMA FormatLength == Len(HeaderFormat) = 10 /\ DOMAIN HeaderFormat = 1 .. 10
  BY DEF HeaderFormat

(***************************************************************************)
(* What a narrow integer type holds of an integer is one of its own, and   *)
(* that integer when it is one of its own.                                 *)
(***************************************************************************)
LEMMA ModuloSelf ==
  ASSUME NEW w \in Nat \ {0}, NEW m \in 0 .. w - 1
  PROVE  m % w = m
  OBVIOUS

LEMMA NarrowType ==
  ASSUME NEW max \in Nat, NEW n \in Int
  PROVE  Narrow(n, max) \in -max - 1 .. max
<1> DEFINE w == 2 * (max + 1)
<1>1. w \in Nat \ {0} /\ n + max + 1 \in Int
  OBVIOUS
<1>2. (n + max + 1) % w \in 0 .. w - 1
  <2> HIDE DEF w
  <2> QED
    BY <1>1
<1> QED
  BY <1>2 DEF Narrow

LEMMA NarrowIs ==
  ASSUME NEW max \in Nat, NEW n \in -max - 1 .. max
  PROVE  Narrow(n, max) = n
<1> DEFINE w == 2 * (max + 1)
           m == n + max + 1
<1>1. w \in Nat \ {0} /\ m \in 0 .. w - 1
  OBVIOUS
<1>2. m % w = m
  <2> HIDE DEF w, m
  <2> QED
    BY <1>1, ModuloSelf
<1> QED
  BY <1>2 DEF Narrow

LEMMA AsIntIs ==
  ASSUME NEW n \in Int
  PROVE  AsInt(n) \in Int /\ (IsInt(n) => AsInt(n) = n)
  BY IntMaxAssumption, NarrowType, NarrowIs DEF AsInt, IsInt

LEMMA HeadIsToken ==
  ASSUME NEW s \in Seq(Token), s # <<>>
  PROVE  /\ Head(s) \in Token
         /\ Head(s).k \in Kinds
         /\ Head(s).v \in Int
         /\ Tail(s) \in Seq(Token)
<1>1. Head(s) \in Token /\ Tail(s) \in Seq(Token)
  BY HeadTailProperties
<1> QED
  BY <1>1 DEF Token

LEMMA AfterConversionIsTokens ==
  ASSUME file \in Seq(Token), NEW conv, Fits(conv)
  PROVE  AfterConversion(conv) \in Seq(Token)
<1>1. file # <<>>
  BY DEF Fits, AtEnd
<1>2. Head(file) \in Token /\ Tail(file) \in Seq(Token)
  BY <1>1, HeadIsToken
<1>3. [Head(file) EXCEPT !.k = "frac"] \in Token /\ [Head(file) EXCEPT !.k = "int"] \in Token
  BY <1>2 DEF Token, Kinds
<1>4. Leftover(conv, Head(file)) \in Seq(Token)
  BY <1>3 DEF Leftover
<1> QED
  BY <1>2, <1>4 DEF AfterConversion

-----------------------------------------------------------------------------
(* The operations of the reader keep its part of TypeOK. *)

LEMMA CallReadHeaderType == ProfTypeOK /\ CallReadHeader => ProfTypeOK'
  BY FormatLength DEF ProfTypeOK, CallReadHeader

LEMMA CallReadSubsType ==
  ASSUME NEW n \in Int, ProfTypeOK, CallReadSubs(n)
  PROVE  ProfTypeOK'
<1>1. Uninit \in Sample
  BY DEF Uninit, Sample, Kinds
<1>2. subway' \in Seq(Sample)
  <2>1. CASE n \in Nat
    <3>1. PICK m \in 0 .. n :
            subway' = [i \in 1 .. n |->
                         IF i > m /\ i <= Len(subway) THEN subway[i] ELSE Uninit]
      BY DEF CallReadSubs
    <3>2. subway \in Seq(Sample) /\ Len(subway) \in Nat
      BY LenProperties DEF ProfTypeOK
    <3>3. \A i \in 1 .. n :
            (IF i > m /\ i <= Len(subway) THEN subway[i] ELSE Uninit) \in Sample
      BY <1>1, <3>2, ElementOfSeq
    <3> QED
      BY <2>1, <3>1, <3>3, IsASeq
  <2>2. CASE n \notin Nat
    BY <2>2 DEF CallReadSubs
  <2> QED
    BY <2>1, <2>2
<1> QED
  BY <1>2 DEF ProfTypeOK, CallReadSubs

LEMMA ReaderStepType == ProfTypeOK /\ ReaderStep => ProfTypeOK'
<1> SUFFICES ASSUME ProfTypeOK, ReaderStep PROVE ProfTypeOK'
  OBVIOUS
<1>1. CASE HeaderField
  <2>1. file' \in Seq(Token)
    BY <1>1, AfterConversionIsTokens DEF HeaderField, ProfTypeOK
  <2>2. Head(file).v \in Int
    BY <1>1, HeadIsToken DEF HeaderField, ProfTypeOK, Fits, AtEnd
  <2>3. fh' \in [FieldNames -> Int]
    BY <1>1, <2>2 DEF HeaderField, ProfTypeOK
  <2>4. fld' \in 1 .. Len(HeaderFormat) + 1
    BY <1>1, FormatLength DEF HeaderField, ProfTypeOK
  <2> QED
    BY <1>1, <2>1, <2>3, <2>4 DEF HeaderField, ProfTypeOK
<1>2. CASE HeaderReturn
  BY <1>2 DEF HeaderReturn, ProfTypeOK, FieldNames, AtEnd
<1>3. CASE ReadIndex
  <2>1. file' \in Seq(Token)
    BY <1>3, AfterConversionIsTokens DEF ReadIndex, ProfTypeOK
  <2> QED
    BY <1>3, <2>1 DEF ReadIndex, ProfTypeOK, AtEnd
<1>4. CASE ReadSample
  <2>1. file' \in Seq(Token)
    BY <1>4, AfterConversionIsTokens DEF ReadSample, ProfTypeOK
  <2>2. subway' \in Seq(Sample)
    <3>1. CASE Fits("f")
      <4>1. Head(file) \in Sample
        BY <3>1, HeadIsToken DEF ProfTypeOK, Fits, AtEnd, Token, Sample
      <4>2. \A i \in 1 .. Len(subway) :
              (IF i = Slot THEN Head(file) ELSE subway[i]) \in Sample
        BY <4>1, ElementOfSeq DEF ProfTypeOK
      <4>3. Len(subway) \in Nat
        BY LenProperties DEF ProfTypeOK
      <4>4. [i \in 1 .. Len(subway) |-> IF i = Slot THEN Head(file) ELSE subway[i]]
              \in Seq(Sample)
        BY <4>2, <4>3, IsASeq
      <4> QED
        BY <1>4, <3>1, <4>4 DEF ReadSample
    <3>2. CASE ~Fits("f")
      BY <1>4, <3>2 DEF ReadSample, ProfTypeOK
    <3> QED
      BY <3>1, <3>2
  <2> QED
    BY <1>4, <2>1, <2>2 DEF ReadSample, ProfTypeOK, AtEnd
<1>5. CASE EndBin
  BY <1>5 DEF EndBin, ProfTypeOK, AtEnd
<1>6. CASE SubsReturn
  BY <1>6 DEF SubsReturn, ProfTypeOK
<1> QED
  BY <1>1, <1>2, <1>3, <1>4, <1>5, <1>6 DEF ReaderStep

-----------------------------------------------------------------------------
(* The sizes and the table *)

Cells == [Columns -> Int \cup {Blank}]

LEMMA SizesAreIntegers ==
  ASSUME TypeOK
  PROVE  nscl \in Int /\ ndata \in Int /\ \A k : Elements(k) \in Int
<1>1. fh.pol \in Int /\ fh.numbins \in Int /\ numchans \in Int
  BY DEF TypeOK, ProfTypeOK, FieldNames
<1>2. nscl \in Int
  BY <1>1, AsIntIs DEF nscl
<1>3. ndata \in Int
  BY <1>1, <1>2, AsIntIs DEF ndata
<1> QED
  BY <1>1, <1>2, <1>3 DEF Elements

LEMMA ValueType ==
  ASSUME TypeOK, NEW k
  PROVE  Value(k) \in Int
<1>1. /\ fh.pol \in Int /\ fh.period \in Int /\ fh.numpulses \in Int
      /\ fh.freq \in Int /\ runpulses \in Int /\ off_sub \in Int
      /\ subint_cnt \in Int
  BY DEF TypeOK, ProfTypeOK, FieldNames
<1>2. (fh.numpulses - runpulses) * fh.period \in Int
  BY <1>1
<1> QED
  BY <1>1, <1>2, SizesAreIntegers DEF Value

\* A write that has elements ends in its own row or below.
LEMMA EndRowBounds ==
  ASSUME TypeOK, col \in Columns, width[col] # 0, Elements(col) > 0
  PROVE  EndRow(col) \in Nat /\ EndRow(col) >= subint_cnt
<1>1. width[col] \in Nat \ {0}
  BY DEF TypeOK
<1>2. subint_cnt \in Nat /\ Elements(col) \in Int
  BY SizesAreIntegers DEF TypeOK
<1>3. \A e \in Nat, w \in Nat \ {0} : e \div w \in Nat
  OBVIOUS
<1>4. (Elements(col) - 1) \div width[col] \in Nat
  BY <1>1, <1>2, <1>3
<1> QED
  BY <1>2, <1>4 DEF EndRow

LEMMA ExtendedType ==
  ASSUME TypeOK, NEW n \in Nat
  PROVE  /\ Extended(n) \in Seq(Cells)
         /\ Len(Extended(n)) = IF n > Len(cells) THEN n ELSE Len(cells)
         /\ \A r \in 1 .. Len(Extended(n)) :
              Extended(n)[r] = IF r <= Len(cells) THEN cells[r] ELSE BlankRow
<1> DEFINE m == IF n > Len(cells) THEN n ELSE Len(cells)
<1>1. cells \in Seq(Cells) /\ Len(cells) \in Nat
  BY LenProperties DEF TypeOK, Cells
<1>2. m \in Nat
  BY <1>1
<1>3. BlankRow \in Cells
  BY DEF BlankRow, Cells
<1>4. \A r \in 1 .. m : (IF r <= Len(cells) THEN cells[r] ELSE BlankRow) \in Cells
  BY <1>1, <1>3, ElementOfSeq
<1>5. Extended(n) = [r \in 1 .. m |-> IF r <= Len(cells) THEN cells[r] ELSE BlankRow]
  BY DEF Extended
<1> HIDE DEF m
<1>6. Extended(n) \in Seq(Cells)
  BY <1>2, <1>4, <1>5, IsASeq
<1>7. Len(Extended(n)) = m
  BY <1>2, <1>5, <1>6
<1> QED
  BY <1>5, <1>6, <1>7 DEF m

LEMMA DataAfterType ==
  ASSUME TypeOK, NEW n \in Nat, NEW elems \in Seq(Sample)
  PROVE  DataAfter(n, subint_cnt, elems) \in Seq(Sample)
<1> DEFINE w == width[19]
           rows == IF n > Len(cells) THEN n ELSE Len(cells)
           first == (subint_cnt - 1) * w
           Elem(i) == IF i - first \in 1 .. Len(elems) THEN elems[i - first]
                      ELSE IF i <= Len(data) THEN data[i] ELSE Zero
<1>1. w \in Nat
  BY DEF TypeOK, Columns
<1>2. Len(cells) \in Nat /\ Len(data) \in Nat /\ data \in Seq(Sample)
  BY LenProperties DEF TypeOK
<1>3. rows \in Nat
  BY <1>2
<1>4. rows * w \in Nat
  BY <1>1, <1>3
<1>5. Zero \in Sample
  BY DEF Zero, Sample
<1>6. \A i \in 1 .. rows * w : Elem(i) \in Sample
  BY <1>2, <1>5, ElementOfSeq
<1>7. DataAfter(n, subint_cnt, elems) = [i \in 1 .. rows * w |-> Elem(i)]
  BY DEF DataAfter
<1> HIDE DEF w, rows, Elem
<1> QED
  BY <1>4, <1>6, <1>7, IsASeq

-----------------------------------------------------------------------------
(* TypeOK is inductive. *)

LEMMA KeywordsType ==
  ASSUME NEW name \in HduNames, NEW npol \in Int \cup {Blank},
         NEW nbin \in Int \cup {Blank}, NEW nchan \in Int \cup {Blank},
         NEW freq \in Int \cup {Blank}
  PROVE  Keywords(name, npol, nbin, nchan, freq) \in Hdu
  BY DEF Keywords, Hdu

\* What a short holds of an integer is a short.
LEMMA ShortType ==
  ASSUME NEW n \in Int
  PROVE  Short(n) \in -ShortMax - 1 .. ShortMax
  BY ShortMaxAssumption, NarrowType DEF Short

LEMMA HeaderKeywordsType ==
  ASSUME TypeOK
  PROVE  /\ Keywords("PRIMARY", Blank, Blank, Blank, Blank) \in Hdu
         /\ Keywords("PRIMARY", fh.pol, Blank, numchans, fh.freq) \in Hdu
         /\ Keywords("HISTORY", Short(fh.pol), Short(fh.numbins), Short(numchans), fh.freq) \in Hdu
         /\ Keywords("PSRPARAM", Blank, Blank, Blank, Blank) \in Hdu
         /\ Keywords("SUBINT", fh.pol, fh.numbins, numchans, Blank) \in Hdu
<1>1. fh.pol \in Int /\ fh.numbins \in Int /\ fh.freq \in Int /\ numchans \in Int
  BY DEF TypeOK, ProfTypeOK, FieldNames
<1>2. Short(fh.pol) \in Int /\ Short(fh.numbins) \in Int /\ Short(numchans) \in Int
  BY <1>1, ShortType, ShortMaxAssumption
<1> QED
  BY <1>1, <1>2, KeywordsType DEF HduNames

LEMMA InitType == Init => TypeOK
<1> SUFFICES ASSUME Init PROVE TypeOK
  OBVIOUS
<1>1. fh \in [FieldNames -> Int]
  BY GarbageAssumption DEF Init
<1>2. width \in [Columns -> Nat]
  BY DEF Init
<1>3. ProfTypeOK
  <2>1. fld \in 1 .. Len(HeaderFormat) + 1
    BY FormatLength DEF Init
  <2>2. file \in Seq(Token) /\ subway \in Seq(Sample)
    BY EmptySeq DEF Init
  <2>3. feof \in BOOLEAN /\ call \in {"none", "header", "subs"}
    BY DEF Init
  <2>4. numbins \in Int /\ numchans \in Int /\ b \in Nat
    BY DEF Init
  <2>5. c \in Int /\ c >= -1
    BY DEF Init
  <2> QED
    BY <1>1, <2>1, <2>2, <2>3, <2>4, <2>5 DEF ProfTypeOK
<1>4. hdus \in Seq(Hdu) /\ cells \in Seq([Columns -> Int \cup {Blank}])
        /\ data \in Seq(Sample)
  BY EmptySeq DEF Init
<1> QED
  BY <1>2, <1>3, <1>4, MaxRunsAssumption DEF Init, TypeOK, StatusCodes

LEMMA LaunchType == TypeOK /\ Launch => TypeOK'
<1> SUFFICES ASSUME TypeOK, Launch PROVE TypeOK'
  OBVIOUS
<1>1. fh' \in [FieldNames -> Int]
  BY GarbageAssumption DEF Launch, TypeOK, ProfTypeOK
<1>2. ProfTypeOK'
  <2>1. fld' \in 1 .. Len(HeaderFormat) + 1
    BY FormatLength DEF Launch
  <2>2. file' \in Seq(Token) /\ subway' \in Seq(Sample)
    BY EmptySeq DEF Launch
  <2>3. feof' \in BOOLEAN /\ call' \in {"none", "header", "subs"}
    BY DEF Launch
  <2>4. numbins' \in Int /\ numchans' \in Int /\ b' \in Nat
    BY DEF Launch
  <2>5. c' \in Int /\ c' >= -1
    BY DEF Launch
  <2> QED
    BY <1>1, <2>1, <2>2, <2>3, <2>4, <2>5 DEF ProfTypeOK
<1> QED
  BY <1>2, MaxRunsAssumption
  DEF Launch, TypeOK, StatusCodes, outputVars, tableVars

LEMMA RemoveOutputType == TypeOK /\ RemoveOutput => TypeOK'
<1> SUFFICES ASSUME TypeOK, RemoveOutput PROVE TypeOK'
  OBVIOUS
<1>1. width' \in [Columns -> Nat]
  BY DEF RemoveOutput
<1> QED
  BY <1>1 DEF RemoveOutput, TypeOK, ProfTypeOK, runVars, subintVars, profVars

LEMMA OpenProfType == TypeOK /\ OpenProf => TypeOK'
<1> SUFFICES ASSUME TypeOK, OpenProf PROVE TypeOK'
  OBVIOUS
<1>1. input.prof \in Seq(Token) /\ input.numchans \in Int
  BY InputsAssumption DEF TypeOK
<1>2. ProfTypeOK'
  <2>1. CASE input.badcfg = "open" \/ ~input.exists
    BY <2>1 DEF OpenProf, TypeOK, ProfTypeOK, profVars
  <2>2. CASE ~(input.badcfg = "open" \/ ~input.exists)
    <3>1. /\ file' = input.prof /\ numchans' = input.numchans
          /\ feof' = feof /\ fh' = fh /\ numbins' = numbins /\ subway' = subway /\ b' = b /\ c' = c
          /\ \/ fld' = fld /\ call' = call
             \/ fld' = 1 /\ call' = "header"
      BY <2>2 DEF OpenProf
    <3>2. ProfTypeOK /\ 1 \in 1 .. Len(HeaderFormat) + 1
      BY FormatLength DEF TypeOK
    <3>3. fld' \in 1 .. Len(HeaderFormat) + 1 /\ call' \in {"none", "header", "subs"}
      BY <3>1, <3>2 DEF ProfTypeOK
    <3> QED
      BY <1>1, <3>1, <3>2, <3>3 DEF ProfTypeOK
  <2> QED
    BY <2>1, <2>2
<1> QED
  BY <1>2 DEF OpenProf, TypeOK, runVars, outputVars, tableVars, subintVars

LEMMA SanityCheckType == TypeOK /\ SanityCheck => TypeOK'
  BY DEF SanityCheck, At, GoOn, TypeOK, ProfTypeOK, runVars, outputVars, tableVars,
         subintVars, profVars

LEMMA CreateFITSType == TypeOK /\ CreateFITS => TypeOK'
<1> SUFFICES ASSUME TypeOK, CreateFITS PROVE TypeOK'
  OBVIOUS
<1>1. status' \in StatusCodes
  BY DEF CreateFITS, MayFail, TypeOK, StatusCodes
<1>2. hdus' \in Seq(Hdu)
  <2>1. << Keywords("PRIMARY", Blank, Blank, Blank, Blank) >> \in Seq(Hdu)
    BY HeaderKeywordsType
  <2>2. hdus \in Seq(Hdu)
    BY DEF TypeOK
  <2> QED
    BY <2>1, <2>2 DEF CreateFITS
<1> QED
  BY <1>1, <1>2
  DEF CreateFITS, TypeOK, ProfTypeOK, runVars, tableVars, subintVars, profVars

LEMMA PrimaryHeaderType == TypeOK /\ PrimaryHeader => TypeOK'
<1> SUFFICES ASSUME TypeOK, PrimaryHeader PROVE TypeOK'
  OBVIOUS
<1>1. status' \in StatusCodes
  BY DEF PrimaryHeader, MayFail, TypeOK, StatusCodes
<1>2. hdus' \in Seq(Hdu)
  BY HeaderKeywordsType DEF PrimaryHeader, TypeOK
<1> QED
  BY <1>1, <1>2
  DEF PrimaryHeader, At, GoOn, TypeOK, ProfTypeOK, runVars, tableVars, subintVars, profVars

LEMMA PutHistoryTableType == TypeOK /\ PutHistoryTable => TypeOK'
<1> SUFFICES ASSUME TypeOK, PutHistoryTable PROVE TypeOK'
  OBVIOUS
<1>1. status' \in StatusCodes
  BY DEF PutHistoryTable, MayFail, TypeOK, StatusCodes
<1>2. hdus' \in Seq(Hdu)
  BY HeaderKeywordsType DEF PutHistoryTable, TypeOK
<1> QED
  BY <1>1, <1>2
  DEF PutHistoryTable, At, GoOn, TypeOK, ProfTypeOK, runVars, tableVars, subintVars,
      profVars

LEMMA PutParType == TypeOK /\ PutPar => TypeOK'
<1> SUFFICES ASSUME TypeOK, PutPar PROVE TypeOK'
  OBVIOUS
<1>1. status' \in StatusCodes
  BY DEF PutPar, MayFail, TypeOK, StatusCodes
<1>2. hdus' \in Seq(Hdu)
  BY HeaderKeywordsType DEF PutPar, TypeOK
<1>3. input.par.lines \in Nat
  BY InputsAssumption DEF TypeOK, ParFile
<1>4. parRows' \in Nat
  BY <1>3 DEF PutPar, TypeOK
<1> QED
  BY <1>1, <1>2, <1>4
  DEF PutPar, At, ReportAndExitOnError, TypeOK, ProfTypeOK, runVars, tableVars,
      subintVars, profVars

LEMMA CreateSubintType == TypeOK /\ CreateSubint => TypeOK'
<1> SUFFICES ASSUME TypeOK, CreateSubint PROVE TypeOK'
  OBVIOUS
<1>1. status' \in StatusCodes
  BY DEF CreateSubint, TableStatus, KeywordStatus, TypeOK, StatusCodes
<1>2. hdus' \in Seq(Hdu)
  <2>1. hdus \in Seq(Hdu)
    BY DEF TypeOK
  <2>2. Append(hdus, Keywords("SUBINT", fh.pol, fh.numbins, numchans, Blank)) \in Seq(Hdu)
    BY <2>1, HeaderKeywordsType
  <2> QED
    BY <2>1, <2>2 DEF CreateSubint
<1>4. exit' \in {"running", "error", "abort"} /\ pc' \in {pc, "loop"}
  BY DEF CreateSubint, At
<1>3. width' \in [Columns -> Nat]
  <2>1. CASE status' = 0
    <3>1. TableStatus = 0
      BY <2>1 DEF CreateSubint
    <3>2. numchans >= 0 /\ nscl >= 0 /\ ndata >= 0
      BY <3>1, SizesAreIntegers
      DEF TableStatus, BAD_TFORM, TypeOK, ProfTypeOK
    <3>3. \A k \in Columns : Elements(k) \in Nat
      <4>1. numchans \in Nat /\ nscl \in Nat /\ ndata \in Nat
        BY <3>2, SizesAreIntegers DEF TypeOK, ProfTypeOK
      <4> QED
        BY <4>1 DEF Elements
    <3> QED
      BY <2>1, <3>3 DEF CreateSubint
  <2>2. CASE status' # 0
    BY <2>2 DEF CreateSubint, TypeOK
  <2> QED
    BY <2>1, <2>2
<1> QED
  BY <1>1, <1>2, <1>3, <1>4
  DEF CreateSubint, At, TypeOK, ProfTypeOK, runVars, subintVars, profVars

LEMMA BeginSubintType == TypeOK /\ BeginSubint => TypeOK'
<1> SUFFICES ASSUME TypeOK, BeginSubint PROVE TypeOK'
  OBVIOUS
<1>1. ProfTypeOK'
  <2>1. CASE UNCHANGED profVars
    BY <2>1 DEF TypeOK, ProfTypeOK, profVars
  <2>2. CASE CallReadSubs(ndata)
    BY <2>2, CallReadSubsType, SizesAreIntegers DEF TypeOK
  <2> QED
    BY <2>1, <2>2 DEF BeginSubint
<1>2. pc' \in {"loop", "cols"} /\ exit' \in {"running", "abort"} /\ col' \in 1 .. 22
  <2>1. pc = "loop" /\ exit = "running" /\ col \in 1 .. 22
    BY DEF BeginSubint, At, TypeOK
  <2>2. \/ exit' = "abort" /\ UNCHANGED <<pc, col>>
        \/ pc' = "cols" /\ col' = 1 /\ UNCHANGED exit
    BY Zenon DEF BeginSubint
  <2> QED
    BY <2>1, <2>2
<1> QED
  BY <1>1, <1>2 DEF BeginSubint, TypeOK, runVars, outputVars, tableVars

LEMMA WriteColType == TypeOK /\ WriteCol => TypeOK'
<1> SUFFICES ASSUME TypeOK, WriteCol PROVE TypeOK'
  OBVIOUS
<1>1. ProfTypeOK'
  BY DEF WriteCol, TypeOK, ProfTypeOK, profVars
<1>2. status' \in StatusCodes
  BY DEF WriteCol, ColumnStatus, MayFail, TypeOK, StatusCodes
<1>3. cells' \in Seq([Columns -> Int \cup {Blank}]) /\ data' \in Seq(Sample)
  <2>1. CASE status' = 0 /\ Elements(col) > 0
    <3>1. col \in Columns /\ width[col] # 0
      BY <2>1 DEF WriteCol, ColumnStatus, BAD_ELEM_NUM
    <3>2. EndRow(col) \in Nat
      BY <2>1, <3>1, EndRowBounds
    <3>3. Extended(EndRow(col)) \in Seq(Cells)
      BY <3>2, ExtendedType
    <3> DEFINE table == Extended(EndRow(col))
    <3>4. [table EXCEPT ![subint_cnt][col] = Value(col)] \in Seq(Cells)
      <4> HIDE DEF table
      <4>1. \A r \in 1 .. Len(table) :
              [table[r] EXCEPT ![col] = Value(col)] \in Cells
        <5> TAKE r \in 1 .. Len(table)
        <5>1. table[r] \in Cells
          BY <3>3, ElementOfSeq DEF table
        <5> QED
          BY <5>1, ValueType DEF Cells
      <4>2. CASE subint_cnt \in 1 .. Len(table)
        BY <3>3, <4>1, <4>2, ExceptSeq DEF table
      <4>3. CASE subint_cnt \notin 1 .. Len(table)
        BY <3>3, <4>3, LenProperties DEF table
      <4> QED
        BY <4>2, <4>3
    <3>5. (IF col = 19 THEN subway ELSE <<>>) \in Seq(Sample)
      BY DEF TypeOK, ProfTypeOK
    <3>6. data' \in Seq(Sample)
      BY <2>1, <3>2, <3>5, DataAfterType DEF WriteCol
    <3> QED
      BY <2>1, <3>4, <3>6 DEF WriteCol, Cells
  <2>2. CASE ~(status' = 0 /\ Elements(col) > 0)
    BY <2>2 DEF WriteCol, TypeOK
  <2> QED
    BY <2>1, <2>2
<1>4. runpulses' \in Int /\ dval' \in Int /\ off_sub' \in Int
  <2>1. fh.numpulses \in Int /\ fh.period \in Int
    BY DEF TypeOK, ProfTypeOK, FieldNames
  <2>2. runpulses \in Int /\ dval \in Int /\ off_sub \in Int /\ off_sub + dval \in Int
    BY DEF TypeOK
  <2>3. runpulses' \in Int
    BY <2>1, <2>2 DEF WriteCol
  <2>4. dval' \in Int
    BY <2>1, <2>2, ValueType DEF WriteCol
  <2>5. off_sub' \in Int
    BY <2>2 DEF WriteCol, OffSubAfter
  <2> QED
    BY <2>3, <2>4, <2>5
<1>5. exit' \in {"running", "error"} /\ pc' \in {"cols"}
  BY DEF WriteCol, At, ReportAndExitOnError
<1>6. col' \in 1 .. 22
  <2>1. col \in 1 .. 21 /\ col' = col + 1
    BY DEF WriteCol, Columns
  <2> QED
    BY <2>1
<1> QED
  BY <1>1, <1>2, <1>3, <1>4, <1>5, <1>6 DEF WriteCol, TypeOK, runVars

LEMMA NextSubintType == TypeOK /\ NextSubint => TypeOK'
<1> SUFFICES ASSUME TypeOK, NextSubint PROVE TypeOK'
  OBVIOUS
<1>1. ProfTypeOK'
  BY CallReadHeaderType DEF NextSubint, TypeOK
<1> QED
  BY <1>1 DEF NextSubint, TypeOK, runVars, outputVars, tableVars

LEMMA EndSubintsType == TypeOK /\ EndSubints => TypeOK'
  BY DEF EndSubints, At, ReportAndExitOnError, TypeOK, ProfTypeOK, runVars, outputVars,
         tableVars, subintVars, profVars

LEMMA CloseFITSType == TypeOK /\ CloseFITS => TypeOK'
<1> SUFFICES ASSUME TypeOK, CloseFITS PROVE TypeOK'
  OBVIOUS
<1>1. status' \in StatusCodes
  BY DEF CloseFITS, MayFail, TypeOK, StatusCodes
<1> QED
  BY <1>1 DEF CloseFITS, TypeOK, ProfTypeOK, runVars, outputVars, tableVars, subintVars,
              profVars

LEMMA HeapOverrunType == TypeOK /\ HeapOverrun => TypeOK'
  BY DEF HeapOverrun, TypeOK, ProfTypeOK, runVars, outputVars, tableVars, subintVars,
         profVars

LEMMA ReaderType == TypeOK /\ Reader => TypeOK'
<1> SUFFICES ASSUME TypeOK, Reader PROVE TypeOK'
  OBVIOUS
<1>1. ProfTypeOK'
  BY ReaderStepType DEF Reader, TypeOK
<1> QED
  BY <1>1 DEF Reader, TypeOK, runVars, outputVars, tableVars, subintVars

LEMMA StutterType == TypeOK /\ UNCHANGED vars => TypeOK'
  BY DEF vars, TypeOK, ProfTypeOK, runVars, outputVars, tableVars, subintVars, profVars

LEMMA NextType == TypeOK /\ [Next]_vars => TypeOK'
  BY LaunchType, RemoveOutputType, OpenProfType, SanityCheckType, CreateFITSType,
     PrimaryHeaderType, PutHistoryTableType, PutParType, CreateSubintType,
     BeginSubintType, WriteColType, NextSubintType, EndSubintsType, CloseFITSType,
     HeapOverrunType, ReaderType, StutterType
  DEF Next, Program, Operator

\* Every variable of the program and of the reader stays in its range, for any
\* PROF file, whatever the conversions of fscanf make of it, and any fault: in
\* particular status is always a code the program can meet, and the column
\* counter never leaves the table.
THEOREM TypeCorrect == Spec => []TypeOK
<1>1. Init => TypeOK
  BY InitType
<1>2. TypeOK /\ [Next]_vars => TypeOK'
  BY NextType
<1> QED
  BY <1>1, <1>2, PTL DEF Spec

-----------------------------------------------------------------------------
(* What is known at each label of main *)

Early == {"open", "sanity", "create"}

\* No error before createFITS, and an output of its own after it.
ControlInv ==
  /\ pc = "open" => ~feof /\ call = "none"
  /\ pc \in Early => status = 0
  /\ exit = "running" /\ pc \notin Early /\ status = 0 => disk = "partial"

\* The two copies of the number of bins agree when no header is being read, and
\* the buffer has the size PutSubint computed from one of them.
BufferInv ==
  /\ pc # "open" /\ call # "header" => numbins = fh.numbins
  /\ call = "subs" => Len(subway) = AsInt(fh.numbins * AsInt(numchans * fh.pol))

\* OFFS_SUB of the row that is to be written next.
NextOffset == IF subint_cnt = 1 THEN 0
              ELSE cells[subint_cnt - 1][4] + cells[subint_cnt - 1][3]

\* The rows done so far, and the columns of the current row so far.
RowsDone ==
  /\ subint_cnt - 1 <= Len(cells)
  /\ \A r \in 1 .. subint_cnt - 1 :
       /\ cells[r][1] = r
       /\ cells[r][4] = IF r = 1 THEN 0 ELSE cells[r - 1][4] + cells[r - 1][3]

RowSoFar ==
  /\ col > 1 => subint_cnt <= Len(cells) /\ cells[subint_cnt][1] = subint_cnt
  /\ col <= 4 => off_sub = NextOffset
  /\ col = 4 => dval = cells[subint_cnt][3]
  /\ col > 4 => /\ cells[subint_cnt][4] = NextOffset
                /\ off_sub = cells[subint_cnt][4] + cells[subint_cnt][3]

OffsInv ==
  /\ pc \notin {"loop", "cols", "close"} => subint_cnt = 1 /\ off_sub = 0
  /\ exit = "running" /\ status = 0 =>
       /\ RowsDone
       /\ pc = "loop" => off_sub = NextOffset
       /\ pc = "cols" => RowSoFar

-----------------------------------------------------------------------------
(* ControlInv *)

LEMMA InitControl == Init => ControlInv
  BY DEF Init, ControlInv, Early

LEMMA NextControl == ControlInv /\ [Next]_vars => ControlInv'
<1> SUFFICES ASSUME ControlInv, [Next]_vars PROVE ControlInv'
  OBVIOUS
<1>1. CASE Launch
  BY <1>1 DEF Launch, ControlInv, Early, runVars, outputVars, tableVars, subintVars, profVars
<1>2. CASE RemoveOutput
  BY <1>2 DEF RemoveOutput, ControlInv, Early, runVars, outputVars, tableVars, subintVars, profVars
<1>3. CASE OpenProf
  BY <1>3 DEF OpenProf, At, ControlInv, Early, runVars, outputVars, tableVars, subintVars, profVars
<1>4. CASE SanityCheck
  BY <1>4 DEF SanityCheck, At, GoOn, ControlInv, Early, runVars, outputVars, tableVars, subintVars, profVars
<1>5. CASE CreateFITS
  BY <1>5 DEF CreateFITS, At, MayFail, NameTaken, FILE_NOT_CREATED, WRITE_ERROR, ControlInv, Early, runVars, outputVars, tableVars, subintVars, profVars
<1>6. CASE PrimaryHeader
  BY <1>6 DEF PrimaryHeader, At, GoOn, MayFail, ControlInv, Early, runVars, outputVars, tableVars, subintVars, profVars
<1>7. CASE PutHistoryTable
  BY <1>7 DEF PutHistoryTable, At, GoOn, MayFail, ControlInv, Early, runVars, outputVars, tableVars, subintVars, profVars
<1>8. CASE PutPar
  BY <1>8 DEF PutPar, At, ReportAndExitOnError, MayFail, ControlInv, Early, runVars, outputVars, tableVars, subintVars, profVars
<1>9. CASE CreateSubint
  BY <1>9 DEF CreateSubint, At, TableStatus, KeywordStatus, BAD_F2C, ControlInv, Early, runVars, outputVars, tableVars, subintVars, profVars
<1>10. CASE BeginSubint
  BY <1>10 DEF BeginSubint, At, CallReadSubs, ControlInv, Early, runVars, outputVars, tableVars, subintVars, profVars
<1>11. CASE WriteCol
  BY <1>11 DEF WriteCol, At, ReportAndExitOnError, ColumnStatus, MayFail, ControlInv, Early, runVars, outputVars, tableVars, subintVars, profVars
<1>12. CASE NextSubint
  BY <1>12 DEF NextSubint, At, CallReadHeader, ControlInv, Early, runVars, outputVars, tableVars, subintVars, profVars
<1>13. CASE EndSubints
  BY <1>13 DEF EndSubints, At, ReportAndExitOnError, ControlInv, Early, runVars, outputVars, tableVars, subintVars, profVars
<1>14. CASE CloseFITS
  BY <1>14 DEF CloseFITS, At, MayFail, ControlInv, Early, runVars, outputVars, tableVars, subintVars, profVars
<1>15. CASE HeapOverrun
  BY <1>15 DEF HeapOverrun, ControlInv, Early, runVars, outputVars, tableVars, subintVars, profVars
<1>16. CASE Reader
  BY <1>16 DEF Reader, ReaderStep, HeaderField, HeaderReturn, ReadIndex, ReadSample, EndBin, SubsReturn, ControlInv, Early, runVars, outputVars, tableVars, subintVars, profVars
<1>17. CASE UNCHANGED vars
  BY <1>17 DEF vars, ControlInv, Early, runVars, outputVars, tableVars, subintVars, profVars
<1> QED
  BY <1>1, <1>2, <1>3, <1>4, <1>5, <1>6, <1>7, <1>8, <1>9,
     <1>10, <1>11, <1>12, <1>13, <1>14, <1>15, <1>16, <1>17
  DEF Next, Program, Operator

\* While a run writes, the output is its own: createFITS is reached without an
\* error and leaves an error or a fresh file.
THEOREM ControlIsRight == Spec => []ControlInv
<1>1. Init => ControlInv
  BY InitControl
<1>2. ControlInv /\ [Next]_vars => ControlInv'
  BY NextControl
<1> QED
  BY <1>1, <1>2, PTL DEF Spec

-----------------------------------------------------------------------------
(* BufferInv, and the store of readSubs *)

LEMMA InitBuffer == Init => BufferInv
  BY DEF Init, BufferInv

LEMMA NewBuffer ==
  ASSUME NEW n \in Nat, CallReadSubs(n)
  PROVE  Len(subway') = n
  BY DEF CallReadSubs

LEMMA NextBuffer == TypeOK /\ ControlInv /\ BufferInv /\ [Next]_vars => BufferInv'
<1> SUFFICES ASSUME TypeOK, ControlInv, BufferInv, [Next]_vars PROVE BufferInv'
  OBVIOUS
<1>1. CASE Launch
  BY <1>1 DEF Launch, ControlInv, BufferInv, runVars, outputVars, tableVars, subintVars, profVars
<1>2. CASE RemoveOutput
  BY <1>2 DEF RemoveOutput, ControlInv, BufferInv, runVars, outputVars, tableVars, subintVars, profVars
<1>3. CASE OpenProf
  BY <1>3 DEF OpenProf, At, ControlInv, BufferInv, runVars, outputVars, tableVars, subintVars, profVars
<1>4. CASE SanityCheck
  BY <1>4 DEF SanityCheck, At, GoOn, ControlInv, BufferInv, runVars, outputVars, tableVars, subintVars, profVars
<1>5. CASE CreateFITS
  BY <1>5 DEF CreateFITS, At, MayFail, NameTaken, FILE_NOT_CREATED, WRITE_ERROR, ControlInv, BufferInv, runVars, outputVars, tableVars, subintVars, profVars
<1>6. CASE PrimaryHeader
  BY <1>6 DEF PrimaryHeader, At, GoOn, MayFail, ControlInv, BufferInv, runVars, outputVars, tableVars, subintVars, profVars
<1>7. CASE PutHistoryTable
  BY <1>7 DEF PutHistoryTable, At, GoOn, MayFail, ControlInv, BufferInv, runVars, outputVars, tableVars, subintVars, profVars
<1>8. CASE PutPar
  BY <1>8 DEF PutPar, At, ReportAndExitOnError, MayFail, ControlInv, BufferInv, runVars, outputVars, tableVars, subintVars, profVars
<1>9. CASE CreateSubint
  BY <1>9 DEF CreateSubint, At, TableStatus, KeywordStatus, BAD_F2C, ControlInv, BufferInv, runVars, outputVars, tableVars, subintVars, profVars
<1>10. CASE BeginSubint
  <2>1. CASE numchans < 0 \/ nscl < 0 \/ ndata < 0
    BY <1>10, <2>1 DEF BeginSubint, BufferInv, profVars
  <2>2. CASE ~(numchans < 0 \/ nscl < 0 \/ ndata < 0)
    <3>1. CallReadSubs(ndata)
      BY <1>10, <2>2 DEF BeginSubint
    <3>2. ndata \in Nat
      BY <2>2, SizesAreIntegers
    <3>3. Len(subway') = ndata
      BY <3>1, <3>2, NewBuffer
    <3>4. pc' = "cols" /\ pc = "loop" /\ call = "none"
      BY <1>10, <2>2 DEF BeginSubint, At
    <3> QED
      BY <3>1, <3>3, <3>4 DEF CallReadSubs, BufferInv, ndata, nscl
  <2> QED
    BY <2>1, <2>2
<1>11. CASE WriteCol
  BY <1>11 DEF WriteCol, At, ReportAndExitOnError, ColumnStatus, MayFail, ControlInv, BufferInv, runVars, outputVars, tableVars, subintVars, profVars
<1>12. CASE NextSubint
  BY <1>12 DEF NextSubint, At, CallReadHeader, ControlInv, BufferInv, runVars, outputVars, tableVars, subintVars, profVars
<1>13. CASE EndSubints
  BY <1>13 DEF EndSubints, At, ReportAndExitOnError, ControlInv, BufferInv, runVars, outputVars, tableVars, subintVars, profVars
<1>14. CASE CloseFITS
  BY <1>14 DEF CloseFITS, At, MayFail, ControlInv, BufferInv, runVars, outputVars, tableVars, subintVars, profVars
<1>15. CASE HeapOverrun
  BY <1>15 DEF HeapOverrun, ControlInv, BufferInv, runVars, outputVars, tableVars, subintVars, profVars
<1>16. CASE Reader
  <2>1. CASE HeaderField \/ HeaderReturn
    BY <1>16, <2>1 DEF Reader, HeaderField, HeaderReturn, ControlInv, BufferInv
  <2>2. CASE ReadSample
    <3>1. Len(subway) \in Nat
      BY LenProperties DEF TypeOK, ProfTypeOK
    <3>2. Len(subway') = Len(subway)
      BY <2>2, <3>1 DEF ReadSample
    <3> QED
      BY <1>16, <2>2, <3>2 DEF Reader, ReadSample, BufferInv
  <2>3. CASE ReadIndex \/ EndBin \/ SubsReturn
    BY <1>16, <2>3 DEF Reader, ReadIndex, EndBin, SubsReturn, BufferInv
  <2> QED
    BY <1>16, <2>1, <2>2, <2>3 DEF Reader, ReaderStep
<1>17. CASE UNCHANGED vars
  BY <1>17 DEF vars, ControlInv, BufferInv, runVars, outputVars, tableVars, subintVars, profVars
<1> QED
  BY <1>1, <1>2, <1>3, <1>4, <1>5, <1>6, <1>7, <1>8, <1>9,
     <1>10, <1>11, <1>12, <1>13, <1>14, <1>15, <1>16, <1>17
  DEF Next, Program, Operator

LEMMA TimesIsMonotonic ==
  ASSUME NEW x \in Nat, NEW y \in Nat, NEW z \in Nat, x <= y
  PROVE  x * z <= y * z
  OBVIOUS

\* Bin bn of channel ch of an nc x nb buffer, for any number of polarisations.
LEMMA SlotIsInBuffer ==
  ASSUME NEW nb \in Nat, NEW nc \in Nat, NEW np \in Nat \ {0},
         NEW bn \in 0 .. nb - 1, NEW ch \in 0 .. nc - 1
  PROVE  ch * nb + bn + 1 \in 1 .. nb * (nc * np)
<1>1. (ch + 1) * nb <= nc * nb
  BY TimesIsMonotonic
<1>2. ch * nb + bn + 1 <= (ch + 1) * nb
  OBVIOUS
<1>3. nc * nb \in Nat /\ ch * nb \in Nat
  OBVIOUS
<1>4. 1 * (nc * nb) <= np * (nc * nb)
  BY <1>3, TimesIsMonotonic
<1>5. np * (nc * nb) = nb * (nc * np)
  OBVIOUS
<1>6. 1 * (nc * nb) = nc * nb
  BY <1>3
<1> QED
  BY <1>1, <1>2, <1>3, <1>4, <1>5, <1>6

\* Where readSubs stores, when the size of the buffer is an int: there is a place
\* for the sample, and neither the size nor the index wraps.
LEMMA SlotIs ==
  ASSUME numbins \in Nat \ {0}, numchans \in Nat \ {0}, NEW pol \in Nat \ {0},
         b \in 0 .. numbins - 1, c \in 0 .. numchans - 1, IsInt(numbins * (numchans * pol))
  PROVE  /\ Slot = c * numbins + b + 1
         /\ Slot \in 1 .. numbins * (numchans * pol)
         /\ AsInt(numbins * AsInt(numchans * pol)) = numbins * (numchans * pol)
<1> DEFINE size == numbins * (numchans * pol)
           row == numchans * pol
           at == c * numbins
<1>4. at + b + 1 \in 1 .. size
  BY SlotIsInBuffer
<1>5. row \in Nat /\ at \in Nat /\ b \in Nat
  OBVIOUS
<1>6. size \in Nat /\ size <= IntMax
  BY <1>5, IntMaxAssumption DEF IsInt
<1>7. row <= size
  <2>1. 1 * row <= numbins * row
    BY <1>5, TimesIsMonotonic
  <2> QED BY <2>1, <1>5
<1> HIDE DEF size, row, at
<1>8. IsInt(row) /\ IsInt(size) /\ IsInt(at) /\ IsInt(at + b)
  BY <1>4, <1>5, <1>6, <1>7, IntMaxAssumption DEF IsInt
<1>9. AsInt(row) = row /\ AsInt(size) = size /\ AsInt(at) = at /\ AsInt(at + b) = at + b
  BY <1>5, <1>6, <1>8, AsIntIs
<1>10. Slot = at + b + 1
  BY <1>9 DEF Slot, at
<1>11. AsInt(numbins * AsInt(numchans * pol)) = size
  BY <1>9 DEF size, row
<1> QED BY <1>4, <1>10, <1>11 DEF size, at

LEMMA BufferIsEnough == TypeOK /\ ControlInv /\ BufferInv => SampleInBuffer
<1> SUFFICES ASSUME TypeOK, ControlInv, BufferInv,
                    call = "subs", b < numbins, c \in 0 .. numchans - 1,
                    fh.pol >= 1, IsInt(fh.numbins * numchans * fh.pol)
             PROVE  Slot \in 1 .. Len(subway)
  BY DEF SampleInBuffer
<1>1. fh.pol \in Int /\ numbins \in Int /\ numchans \in Int /\ b \in Nat /\ c \in Int
  BY DEF TypeOK, ProfTypeOK, FieldNames
<1>2. /\ fh.numbins = numbins
      /\ Len(subway) = AsInt(numbins * AsInt(numchans * fh.pol))
  BY DEF ControlInv, BufferInv
<1>3. /\ numbins \in Nat \ {0} /\ numchans \in Nat \ {0} /\ fh.pol \in Nat \ {0}
      /\ b \in 0 .. numbins - 1
  BY <1>1
<1>4. IsInt(numbins * (numchans * fh.pol))
  <2>1. fh.numbins * numchans * fh.pol = numbins * (numchans * fh.pol)
    BY <1>2, <1>3
  <2> QED BY <2>1
<1> QED
  BY <1>2, <1>3, <1>4, SlotIs

\* readSubs never stores outside of the buffer PutSubint gave it when the
\* header's pol is positive and bins x channels x polarisations is an int,
\* whatever the header and NUMCHANS say otherwise, and also when neither could
\* be read: the bins it reads and the bins the buffer was sized for are always
\* the same, and neither the size nor an index wraps.
THEOREM SamplesStayInBuffer == Spec => []SampleInBuffer
<1>1. Init => BufferInv
  BY InitBuffer
<1>2. TypeOK /\ ControlInv /\ BufferInv /\ [Next]_vars => BufferInv'
  BY NextBuffer
<1>3. TypeOK /\ ControlInv /\ BufferInv => SampleInBuffer
  BY BufferIsEnough
<1> QED
  BY <1>1, <1>2, <1>3, TypeCorrect, ControlIsRight, PTL DEF Spec

-----------------------------------------------------------------------------
(* Errors and complete files *)

LEMMA ErrorStep ==
  ASSUME ControlInv, [Next]_vars, exit = "running", status # 0
  PROVE  UNCHANGED <<status, outputVars>> /\ exit' # "ok"
<1>1. CASE Launch
  BY <1>1 DEF Launch, ControlInv, Early, runVars, outputVars, tableVars, subintVars, profVars
<1>2. CASE RemoveOutput
  BY <1>2 DEF RemoveOutput, ControlInv, Early, runVars, outputVars, tableVars, subintVars, profVars
<1>3. CASE OpenProf
  BY <1>3 DEF OpenProf, At, ControlInv, Early, runVars, outputVars, tableVars, subintVars, profVars
<1>4. CASE SanityCheck
  BY <1>4 DEF SanityCheck, At, GoOn, ControlInv, Early, runVars, outputVars, tableVars, subintVars, profVars
<1>5. CASE CreateFITS
  BY <1>5 DEF CreateFITS, At, MayFail, NameTaken, FILE_NOT_CREATED, WRITE_ERROR, ControlInv, Early, runVars, outputVars, tableVars, subintVars, profVars
<1>6. CASE PrimaryHeader
  BY <1>6 DEF PrimaryHeader, At, GoOn, MayFail, ControlInv, Early, runVars, outputVars, tableVars, subintVars, profVars
<1>7. CASE PutHistoryTable
  BY <1>7 DEF PutHistoryTable, At, GoOn, MayFail, ControlInv, Early, runVars, outputVars, tableVars, subintVars, profVars
<1>8. CASE PutPar
  BY <1>8 DEF PutPar, At, ReportAndExitOnError, MayFail, ControlInv, Early, runVars, outputVars, tableVars, subintVars, profVars
<1>9. CASE CreateSubint
  BY <1>9 DEF CreateSubint, At, TableStatus, KeywordStatus, BAD_F2C, ControlInv, Early, runVars, outputVars, tableVars, subintVars, profVars
<1>10. CASE BeginSubint
  BY <1>10 DEF BeginSubint, At, CallReadSubs, ControlInv, Early, runVars, outputVars, tableVars, subintVars, profVars
<1>11. CASE WriteCol
  BY <1>11 DEF WriteCol, At, ReportAndExitOnError, ColumnStatus, MayFail, ControlInv, Early, runVars, outputVars, tableVars, subintVars, profVars
<1>12. CASE NextSubint
  BY <1>12 DEF NextSubint, At, CallReadHeader, ControlInv, Early, runVars, outputVars, tableVars, subintVars, profVars
<1>13. CASE EndSubints
  BY <1>13 DEF EndSubints, At, ReportAndExitOnError, ControlInv, Early, runVars, outputVars, tableVars, subintVars, profVars
<1>14. CASE CloseFITS
  BY <1>14 DEF CloseFITS, At, MayFail, ControlInv, Early, runVars, outputVars, tableVars, subintVars, profVars
<1>15. CASE HeapOverrun
  BY <1>15 DEF HeapOverrun, ControlInv, Early, runVars, outputVars, tableVars, subintVars, profVars
<1>16. CASE Reader
  BY <1>16 DEF Reader, ReaderStep, HeaderField, HeaderReturn, ReadIndex, ReadSample, EndBin, SubsReturn, ControlInv, Early, runVars, outputVars, tableVars, subintVars, profVars
<1>17. CASE UNCHANGED vars
  BY <1>17 DEF vars, ControlInv, Early, runVars, outputVars, tableVars, subintVars, profVars
<1> QED
  BY <1>1, <1>2, <1>3, <1>4, <1>5, <1>6, <1>7, <1>8, <1>9,
     <1>10, <1>11, <1>12, <1>13, <1>14, <1>15, <1>16, <1>17
  DEF Next, Program, Operator

\* After the first CFITSIO error of a run nothing more is written, whatever is
\* still called, and the run cannot end with return 0.
THEOREM ErrorStaysFinal == Spec => ErrorIsFinal
<1>1. ControlInv /\ [Next]_vars =>
        [exit = "running" /\ status # 0 =>
           UNCHANGED <<status, outputVars>> /\ exit' # "ok"]_vars
  BY ErrorStep
<1> QED
  BY <1>1, ControlIsRight, PTL DEF Spec, ErrorIsFinal

LEMMA CompleteStep ==
  ASSUME ControlInv, [Next]_vars, disk = "complete"
  PROVE  disk' = "absent" \/ UNCHANGED <<disk, outputVars>>
<1>1. CASE Launch
  BY <1>1 DEF Launch, ControlInv, Early, runVars, outputVars, tableVars, subintVars, profVars
<1>2. CASE RemoveOutput
  BY <1>2 DEF RemoveOutput, ControlInv, Early, runVars, outputVars, tableVars, subintVars, profVars
<1>3. CASE OpenProf
  BY <1>3 DEF OpenProf, At, ControlInv, Early, runVars, outputVars, tableVars, subintVars, profVars
<1>4. CASE SanityCheck
  BY <1>4 DEF SanityCheck, At, GoOn, ControlInv, Early, runVars, outputVars, tableVars, subintVars, profVars
<1>5. CASE CreateFITS
  BY <1>5 DEF CreateFITS, At, MayFail, NameTaken, FILE_NOT_CREATED, WRITE_ERROR, ControlInv, Early, runVars, outputVars, tableVars, subintVars, profVars
<1>6. CASE PrimaryHeader
  BY <1>6 DEF PrimaryHeader, At, GoOn, MayFail, ControlInv, Early, runVars, outputVars, tableVars, subintVars, profVars
<1>7. CASE PutHistoryTable
  BY <1>7 DEF PutHistoryTable, At, GoOn, MayFail, ControlInv, Early, runVars, outputVars, tableVars, subintVars, profVars
<1>8. CASE PutPar
  BY <1>8 DEF PutPar, At, ReportAndExitOnError, MayFail, ControlInv, Early, runVars, outputVars, tableVars, subintVars, profVars
<1>9. CASE CreateSubint
  BY <1>9 DEF CreateSubint, At, TableStatus, KeywordStatus, BAD_F2C, ControlInv, Early, runVars, outputVars, tableVars, subintVars, profVars
<1>10. CASE BeginSubint
  BY <1>10 DEF BeginSubint, At, CallReadSubs, ControlInv, Early, runVars, outputVars, tableVars, subintVars, profVars
<1>11. CASE WriteCol
  BY <1>11 DEF WriteCol, At, ReportAndExitOnError, ColumnStatus, MayFail, ControlInv, Early, runVars, outputVars, tableVars, subintVars, profVars
<1>12. CASE NextSubint
  BY <1>12 DEF NextSubint, At, CallReadHeader, ControlInv, Early, runVars, outputVars, tableVars, subintVars, profVars
<1>13. CASE EndSubints
  BY <1>13 DEF EndSubints, At, ReportAndExitOnError, ControlInv, Early, runVars, outputVars, tableVars, subintVars, profVars
<1>14. CASE CloseFITS
  BY <1>14 DEF CloseFITS, At, MayFail, ControlInv, Early, runVars, outputVars, tableVars, subintVars, profVars
<1>15. CASE HeapOverrun
  BY <1>15 DEF HeapOverrun, ControlInv, Early, runVars, outputVars, tableVars, subintVars, profVars
<1>16. CASE Reader
  BY <1>16 DEF Reader, ReaderStep, HeaderField, HeaderReturn, ReadIndex, ReadSample, EndBin, SubsReturn, ControlInv, Early, runVars, outputVars, tableVars, subintVars, profVars
<1>17. CASE UNCHANGED vars
  BY <1>17 DEF vars, ControlInv, Early, runVars, outputVars, tableVars, subintVars, profVars
<1> QED
  BY <1>1, <1>2, <1>3, <1>4, <1>5, <1>6, <1>7, <1>8, <1>9,
     <1>10, <1>11, <1>12, <1>13, <1>14, <1>15, <1>16, <1>17
  DEF Next, Program, Operator

\* A file that was once closed by a successful run is never written to again by
\* a later one, with any input and any fault.
THEOREM CompleteStaysKept == Spec => CompleteIsKept
<1>1. ControlInv /\ [Next]_vars =>
        [disk = "complete" => disk' = "absent" \/ UNCHANGED <<disk, outputVars>>]_vars
  BY CompleteStep
<1> QED
  BY <1>1, ControlIsRight, PTL DEF Spec, CompleteIsKept

-----------------------------------------------------------------------------
(* OffsInv *)

\* What a column write that succeeds does to the table: no row is lost, of the
\* rows there were only the current one changes, and of it only the column.
LEMMA WriteColCells ==
  ASSUME TypeOK, WriteCol, status' = 0
  PROVE  /\ status = 0
         /\ Len(cells') \in Nat /\ Len(cells') >= Len(cells)
         /\ \A r \in 1 .. Len(cells) : r # subint_cnt => cells'[r] = cells[r]
         /\ subint_cnt <= Len(cells) =>
              \A k \in Columns : k # col => cells'[subint_cnt][k] = cells[subint_cnt][k]
         /\ Elements(col) > 0 =>
              subint_cnt <= Len(cells') /\ cells'[subint_cnt][col] = Value(col)
<1>1. Len(cells) \in Nat /\ cells \in Seq(Cells)
  BY LenProperties DEF TypeOK, Cells
<1>2. status = 0 /\ col \in Columns /\ width[col] # 0
  BY DEF WriteCol, ColumnStatus, BAD_ELEM_NUM
<1>3. CASE ~(Elements(col) > 0)
  BY <1>1, <1>2, <1>3 DEF WriteCol
<1>4. CASE Elements(col) > 0
  <2>1. EndRow(col) \in Nat /\ EndRow(col) >= subint_cnt
    BY <1>2, <1>4, EndRowBounds
  <2> DEFINE table == Extended(EndRow(col))
  <2>2. /\ table \in Seq(Cells)
        /\ Len(table) = IF EndRow(col) > Len(cells) THEN EndRow(col) ELSE Len(cells)
        /\ \A r \in 1 .. Len(table) :
             table[r] = IF r <= Len(cells) THEN cells[r] ELSE BlankRow
    BY <2>1, ExtendedType
  <2>3. cells' = [table EXCEPT ![subint_cnt][col] = Value(col)]
    BY <1>4 DEF WriteCol
  <2> HIDE DEF table
  <2>4. subint_cnt \in 1 .. Len(table) /\ Len(table) \in Nat /\ Len(table) >= Len(cells)
    BY <1>1, <2>1, <2>2 DEF TypeOK
  <2>5. table[subint_cnt] \in Cells
    BY <2>2, <2>4, ElementOfSeq
  <2> DEFINE row == [table[subint_cnt] EXCEPT ![col] = Value(col)]
  <2>6. row \in Cells
    BY <2>5, ValueType DEF Cells
  <2>7. /\ row[col] = Value(col)
        /\ \A k \in Columns : k # col => row[k] = table[subint_cnt][k]
    BY <1>2, <2>5 DEF Cells
  <2>8. cells' = [table EXCEPT ![subint_cnt] = row]
    BY <2>3
  <2> HIDE DEF row
  <2>9. /\ Len(cells') = Len(table)
        /\ \A r \in 1 .. Len(table) : cells'[r] = IF r = subint_cnt THEN row ELSE table[r]
    BY <2>2, <2>4, <2>6, <2>8, ExceptSeq
  <2>10. \A r \in 1 .. Len(cells) : r \in 1 .. Len(table) /\ table[r] = cells[r]
    BY <1>1, <2>2, <2>4
  <2>11. \A r \in 1 .. Len(cells) : r # subint_cnt => cells'[r] = cells[r]
    BY <2>9, <2>10
  <2>12. cells'[subint_cnt] = row
    BY <2>4, <2>9
  <2>13. subint_cnt <= Len(cells) => table[subint_cnt] = cells[subint_cnt]
    BY <2>4, <2>2
  <2>14. Len(cells') \in Nat /\ Len(cells') >= Len(cells) /\ subint_cnt <= Len(cells')
    BY <2>4, <2>9
  <2> QED
    BY <1>2, <2>7, <2>11, <2>12, <2>13, <2>14
<1> QED
  BY <1>3, <1>4

LEMMA InitOffs == Init => OffsInv
  BY DEF Init, OffsInv

LEMMA WriteColOffs == TypeOK /\ OffsInv /\ WriteCol => OffsInv'
<1> SUFFICES ASSUME TypeOK, OffsInv, WriteCol PROVE OffsInv'
  OBVIOUS
<1>0. pc = "cols" /\ pc' = "cols"
  BY DEF WriteCol, At, ReportAndExitOnError
<1> SUFFICES ASSUME exit' = "running", status' = 0
             PROVE  RowsDone' /\ RowSoFar'
  BY <1>0 DEF OffsInv
<1>1. /\ pc = "cols" /\ exit = "running" /\ col \in Columns /\ col' = col + 1
      /\ subint_cnt' = subint_cnt
  BY DEF WriteCol, At
<1>2. /\ status = 0
      /\ Len(cells') \in Nat /\ Len(cells') >= Len(cells)
      /\ \A r \in 1 .. Len(cells) : r # subint_cnt => cells'[r] = cells[r]
      /\ subint_cnt <= Len(cells) =>
           \A k \in Columns : k # col => cells'[subint_cnt][k] = cells[subint_cnt][k]
      /\ Elements(col) > 0 =>
           subint_cnt <= Len(cells') /\ cells'[subint_cnt][col] = Value(col)
  BY WriteColCells
<1>3. RowsDone /\ RowSoFar
  BY <1>1, <1>2 DEF OffsInv
<1>4. Len(cells) \in Nat /\ subint_cnt \in Nat \ {0} /\ col \in 1 .. 21
  BY <1>1, LenProperties DEF TypeOK, Columns
<1>5. \A r \in 1 .. subint_cnt - 1 : r \in 1 .. Len(cells) /\ cells'[r] = cells[r]
  BY <1>2, <1>3, <1>4 DEF RowsDone
<1>6. col > 1 => \A k \in Columns : k # col => cells'[subint_cnt][k] = cells[subint_cnt][k]
  BY <1>2, <1>3 DEF RowSoFar
<1>7. 1 \in Columns /\ 3 \in Columns /\ 4 \in Columns
  BY DEF Columns
<1>8. RowsDone'
  <2>1. subint_cnt - 1 <= Len(cells')
    BY <1>2, <1>3, <1>4 DEF RowsDone
  <2>2. ASSUME NEW r \in 1 .. subint_cnt - 1
        PROVE  /\ cells'[r][1] = r
               /\ cells'[r][4] = IF r = 1 THEN 0 ELSE cells'[r - 1][4] + cells'[r - 1][3]
    <3>1. cells'[r] = cells[r]
      BY <1>5
    <3>2. /\ cells[r][1] = r
          /\ cells[r][4] = IF r = 1 THEN 0 ELSE cells[r - 1][4] + cells[r - 1][3]
      BY <1>3 DEF RowsDone
    <3>3. r # 1 => cells'[r - 1] = cells[r - 1]
      <4>1. r # 1 => r - 1 \in 1 .. subint_cnt - 1
        BY <1>4
      <4> QED
        BY <1>5, <4>1
    <3> QED
      BY <3>1, <3>2, <3>3
  <2> QED
    BY <1>1, <2>1, <2>2 DEF RowsDone
<1>9. NextOffset' = NextOffset
  <2>1. subint_cnt # 1 => subint_cnt - 1 \in 1 .. subint_cnt - 1
    BY <1>4
  <2> QED
    BY <1>1, <1>5, <2>1 DEF NextOffset
<1>10. RowSoFar'
  <2>1. col = 1 => Elements(col) > 0 /\ Value(col) = subint_cnt
    BY DEF Elements, Value
  <2>2. col = 3 => Elements(col) > 0 /\ dval' = Value(col)
    BY DEF Elements, WriteCol
  <2>3. col = 4 => /\ Elements(col) > 0 /\ Value(col) = off_sub
                   /\ off_sub' = off_sub + dval
    BY DEF Elements, Value, WriteCol, OffSubAfter
  <2>4. col # 4 => off_sub' = off_sub
    BY DEF WriteCol
  <2>5. subint_cnt <= Len(cells') /\ cells'[subint_cnt][1] = subint_cnt
    <3>1. CASE col = 1
      BY <1>2, <2>1, <3>1
    <3>2. CASE col > 1
      <4>1. subint_cnt <= Len(cells) /\ cells[subint_cnt][1] = subint_cnt
        BY <1>3, <3>2 DEF RowSoFar
      <4>2. cells'[subint_cnt][1] = cells[subint_cnt][1]
        BY <1>4, <1>6, <1>7, <3>2
      <4> QED
        BY <1>2, <1>4, <4>1, <4>2
    <3> QED
      BY <1>4, <3>1, <3>2
  <2>6. col + 1 <= 4 => off_sub' = NextOffset
    BY <1>3, <1>4, <2>4 DEF RowSoFar
  <2>7. col + 1 = 4 => dval' = cells'[subint_cnt][3]
    BY <1>2, <1>4, <2>2
  <2>8. col + 1 > 4 => /\ cells'[subint_cnt][4] = NextOffset
                       /\ off_sub' = cells'[subint_cnt][4] + cells'[subint_cnt][3]
    <3>1. CASE col = 4
      <4>1. cells'[subint_cnt][4] = off_sub /\ off_sub = NextOffset
        BY <1>2, <1>3, <2>3, <3>1 DEF RowSoFar
      <4>2. cells'[subint_cnt][3] = dval
        BY <1>3, <1>6, <1>7, <3>1 DEF RowSoFar
      <4> QED
        BY <2>3, <3>1, <4>1, <4>2
    <3>2. CASE col > 4
      <4>1. /\ cells'[subint_cnt][4] = cells[subint_cnt][4]
            /\ cells'[subint_cnt][3] = cells[subint_cnt][3]
        BY <1>4, <1>6, <1>7, <3>2
      <4> QED
        BY <1>3, <1>4, <2>4, <3>2, <4>1 DEF RowSoFar
    <3> QED
      BY <1>4, <3>1, <3>2
  <2> QED
    BY <1>1, <1>9, <2>5, <2>6, <2>7, <2>8 DEF RowSoFar
<1> QED
  BY <1>8, <1>10

LEMMA NextSubintOffs == TypeOK /\ OffsInv /\ NextSubint => OffsInv'
<1> SUFFICES ASSUME TypeOK, OffsInv, NextSubint, exit = "running", status = 0
             PROVE  RowsDone' /\ off_sub' = NextOffset'
  BY DEF NextSubint, At, OffsInv
<1>1. /\ pc = "cols" /\ col \notin Columns /\ subint_cnt' = subint_cnt + 1
      /\ cells' = cells /\ off_sub' = off_sub
  BY DEF NextSubint, At, outputVars, tableVars
<1>2. RowsDone /\ RowSoFar
  BY <1>1 DEF OffsInv
<1>3. col = 22 /\ subint_cnt \in Nat \ {0} /\ Len(cells) \in Nat
  <2>1. col \in 1 .. 22 /\ col \notin 1 .. 21
    BY <1>1 DEF TypeOK, Columns
  <2>2. subint_cnt \in Nat \ {0} /\ Len(cells) \in Nat
    BY LenProperties DEF TypeOK
  <2> QED
    BY <2>1, <2>2
<1>4. /\ subint_cnt <= Len(cells) /\ cells[subint_cnt][1] = subint_cnt
      /\ cells[subint_cnt][4] = NextOffset
      /\ off_sub = cells[subint_cnt][4] + cells[subint_cnt][3]
  BY <1>2, <1>3 DEF RowSoFar
<1>5. RowsDone'
  <2>1. subint_cnt' - 1 = subint_cnt
    BY <1>1, <1>3
  <2>2. ASSUME NEW r \in 1 .. subint_cnt
        PROVE  /\ cells[r][1] = r
               /\ cells[r][4] = IF r = 1 THEN 0 ELSE cells[r - 1][4] + cells[r - 1][3]
    <3>1. CASE r = subint_cnt
      BY <1>4, <3>1 DEF NextOffset
    <3>2. CASE r # subint_cnt
      <4>1. r \in 1 .. subint_cnt - 1
        BY <1>3, <3>2
      <4> QED
        BY <1>2, <4>1 DEF RowsDone
    <3> QED
      BY <3>1, <3>2
  <2> QED
    BY <1>1, <1>4, <2>1, <2>2 DEF RowsDone
<1>6. off_sub' = NextOffset'
  BY <1>1, <1>3, <1>4 DEF NextOffset
<1> QED
  BY <1>5, <1>6

LEMMA NextOffs == TypeOK /\ OffsInv /\ [Next]_vars => OffsInv'
<1> SUFFICES ASSUME TypeOK, OffsInv, [Next]_vars PROVE OffsInv'
  OBVIOUS
<1>1. CASE Launch
  <2>1. subint_cnt' = 1 /\ off_sub' = 0 /\ pc' = "open" /\ cells' = cells
    BY <1>1 DEF Launch, outputVars, tableVars
  <2>2. Len(cells) \in Nat
    BY LenProperties DEF TypeOK
  <2> QED
    BY <2>1, <2>2 DEF OffsInv, RowsDone
<1>2. CASE RemoveOutput
  BY <1>2 DEF RemoveOutput, TypeOK, OffsInv, RowsDone, RowSoFar, NextOffset, runVars, outputVars, tableVars, subintVars, profVars
<1>3. CASE OpenProf
  BY <1>3 DEF OpenProf, At, TypeOK, OffsInv, RowsDone, RowSoFar, NextOffset, runVars, outputVars, tableVars, subintVars, profVars
<1>4. CASE SanityCheck
  BY <1>4 DEF SanityCheck, At, GoOn, TypeOK, OffsInv, RowsDone, RowSoFar, NextOffset, runVars, outputVars, tableVars, subintVars, profVars
<1>5. CASE CreateFITS
  BY <1>5 DEF CreateFITS, At, MayFail, NameTaken, FILE_NOT_CREATED, WRITE_ERROR, TypeOK, OffsInv, RowsDone, RowSoFar, NextOffset, runVars, outputVars, tableVars, subintVars, profVars
<1>6. CASE PrimaryHeader
  BY <1>6 DEF PrimaryHeader, At, GoOn, MayFail, TypeOK, OffsInv, RowsDone, RowSoFar, NextOffset, runVars, outputVars, tableVars, subintVars, profVars
<1>7. CASE PutHistoryTable
  BY <1>7 DEF PutHistoryTable, At, GoOn, MayFail, TypeOK, OffsInv, RowsDone, RowSoFar, NextOffset, runVars, outputVars, tableVars, subintVars, profVars
<1>8. CASE PutPar
  BY <1>8 DEF PutPar, At, ReportAndExitOnError, MayFail, TypeOK, OffsInv, RowsDone, RowSoFar, NextOffset, runVars, outputVars, tableVars, subintVars, profVars
<1>9. CASE CreateSubint
  <2>1. subint_cnt = 1 /\ off_sub = 0 /\ Len(cells) \in Nat
    BY <1>9, LenProperties DEF CreateSubint, At, OffsInv, TypeOK
  <2>2. RowsDone' /\ off_sub' = NextOffset'
    BY <1>9, <2>1 DEF CreateSubint, subintVars, RowsDone, NextOffset
  <2> QED
    BY <1>9, <2>1, <2>2 DEF CreateSubint, At, OffsInv, subintVars
<1>10. CASE BeginSubint
  BY <1>10 DEF BeginSubint, At, CallReadSubs, TypeOK, OffsInv, RowsDone, RowSoFar, NextOffset, runVars, outputVars, tableVars, subintVars, profVars
<1>11. CASE WriteCol
  BY <1>11, WriteColOffs
<1>12. CASE NextSubint
  BY <1>12, NextSubintOffs
<1>13. CASE EndSubints
  BY <1>13 DEF EndSubints, At, ReportAndExitOnError, TypeOK, OffsInv, RowsDone, RowSoFar, NextOffset, runVars, outputVars, tableVars, subintVars, profVars
<1>14. CASE CloseFITS
  BY <1>14 DEF CloseFITS, At, MayFail, TypeOK, OffsInv, RowsDone, RowSoFar, NextOffset, runVars, outputVars, tableVars, subintVars, profVars
<1>15. CASE HeapOverrun
  BY <1>15 DEF HeapOverrun, TypeOK, OffsInv, RowsDone, RowSoFar, NextOffset, runVars, outputVars, tableVars, subintVars, profVars
<1>16. CASE Reader
  BY <1>16 DEF Reader, ReaderStep, HeaderField, HeaderReturn, ReadIndex, ReadSample, EndBin, SubsReturn, TypeOK, OffsInv, RowsDone, RowSoFar, NextOffset, runVars, outputVars, tableVars, subintVars, profVars
<1>17. CASE UNCHANGED vars
  BY <1>17 DEF vars, TypeOK, OffsInv, RowsDone, RowSoFar, NextOffset, runVars, outputVars, tableVars, subintVars, profVars
<1> QED
  BY <1>1, <1>2, <1>3, <1>4, <1>5, <1>6, <1>7, <1>8, <1>9,
     <1>10, <1>11, <1>12, <1>13, <1>14, <1>15, <1>16, <1>17
  DEF Next, Program, Operator

\* In every row done in a run without error ISUBINT is the row's number and
\* OFFS_SUB the OFFS_SUB plus TSUBINT of the row before, zero in the first: for
\* any file, also when the columns of another row run over into this one.
THEOREM OffsetsTelescope == Spec => []OffsTelescopes
<1>1. Init => OffsInv
  BY InitOffs
<1>2. TypeOK /\ OffsInv /\ [Next]_vars => OffsInv'
  BY NextOffs
<1>3. TypeOK /\ OffsInv => OffsTelescopes
  <2>1. TypeOK => Len(cells) \in Nat /\ DOMAIN cells = 1 .. Len(cells)
    BY LenProperties DEF TypeOK
  <2> QED
    BY <2>1 DEF TypeOK, OffsInv, RowsDone, OffsTelescopes
<1> QED
  BY <1>1, <1>2, <1>3, TypeCorrect, PTL DEF Spec

-----------------------------------------------------------------------------
(* What return 0 is worth.  The invariants say what the output has at each *)
(* label of main (HdusInv) and at each column of a row (RowsInv), as long  *)
(* as there was no error.                                                  *)

\* The HDUs main asks for before SUBINT.
Asked == << "PRIMARY", "HISTORY" >>
           \o (IF input.par.given THEN << "PSRPARAM" >> ELSE <<>>)

\* The names of the HDUs of the output.
Names == [h \in DOMAIN hdus |-> hdus[h].name]

\* The lines of the ephemeris that belong into PSRPARAM.
ParLines == IF input.par.given /\ input.par.opens THEN input.par.lines ELSE 0

HdusInv ==
  /\ disk = "absent" => parRows = 0
  /\ exit = "running" /\ status = 0 =>
       /\ pc \in {"primary", "history", "par"} => parRows = 0
       /\ pc = "history" => Names = << "PRIMARY" >>
       /\ pc = "par" => input.par.given /\ Names = << "PRIMARY", "HISTORY" >>
       /\ pc = "table" => Names = Asked /\ parRows = ParLines
       /\ pc \in {"loop", "cols", "close"} =>
            Names = Asked \o << "SUBINT" >> /\ parRows = ParLines

\* The columns that are no vectors.
Scalars == Columns \ 15 .. 19

RowsWhole ==
  \A r \in 1 .. subint_cnt - 1 :
    r <= Len(cells) /\ \A k \in Scalars : cells[r][k] # Blank

RowWholeSoFar ==
  col > 1 => /\ subint_cnt <= Len(cells)
             /\ \A k \in Scalars : k < col => cells[subint_cnt][k] # Blank

RowsInv ==
  /\ pc \notin {"loop", "cols", "close"} => subint_cnt = 1
  /\ exit = "running" /\ status = 0 =>
       RowsWhole /\ (pc = "cols" => RowWholeSoFar)

-----------------------------------------------------------------------------
(* HdusInv *)

LEMMA NamesOfAppend ==
  ASSUME NEW s \in Seq(Hdu), NEW e \in Hdu
  PROVE  [h \in DOMAIN Append(s, e) |-> Append(s, e)[h].name]
           = [h \in DOMAIN s |-> s[h].name] \o << e.name >>
<1> DEFINE long  == Append(s, e)
           names == [h \in DOMAIN s |-> s[h].name]
<1>1. /\ Len(s) \in Nat /\ DOMAIN s = 1 .. Len(s)
      /\ long \in Seq(Hdu) /\ Len(long) = Len(s) + 1
      /\ \A i \in 1 .. Len(s) : long[i] = s[i]
      /\ long[Len(s) + 1] = e
  BY AppendProperties, LenProperties
<1>2. DOMAIN long = 1 .. Len(s) + 1
  BY <1>1, LenProperties
<1>3. \A i \in 1 .. Len(s) : s[i].name \in HduNames
  <2>1. \A i \in 1 .. Len(s) : s[i] \in Hdu
    BY ElementOfSeq
  <2>2. \A x \in Hdu : x.name \in HduNames
    BY DEF Hdu
  <2> QED
    BY <2>1, <2>2
<1>4. names \in Seq(HduNames) /\ Len(names) = Len(s)
  BY <1>1, <1>3, IsASeq
<1>5. << e.name >> \in Seq(HduNames) /\ Len(<< e.name >>) = 1 /\ << e.name >>[1] = e.name
  BY DEF Hdu
<1> DEFINE both == names \o << e.name >>
<1> HIDE DEF long
<1>6. /\ both \in Seq(HduNames) /\ Len(both) = Len(s) + 1
      /\ \A i \in 1 .. Len(s) + 1 :
           both[i] = IF i <= Len(s) THEN names[i] ELSE << e.name >>[i - Len(s)]
  <2> HIDE DEF names
  <2> QED
    BY <1>1, <1>4, <1>5, ConcatProperties
<1>7. \A i \in 1 .. Len(s) + 1 : both[i] = long[i].name
  <2> SUFFICES ASSUME NEW i \in 1 .. Len(s) + 1 PROVE both[i] = long[i].name
    OBVIOUS
  <2>1. CASE i = Len(s) + 1
    BY <1>1, <1>5, <1>6, <2>1
  <2>2. CASE i # Len(s) + 1
    BY <1>1, <1>6, <2>2
  <2> QED
    BY <2>1, <2>2
<1>8. DOMAIN both = 1 .. Len(s) + 1 /\ both = [i \in 1 .. Len(s) + 1 |-> both[i]]
  <2> HIDE DEF both
  <2> QED
    BY <1>6, LenProperties
<1> HIDE DEF both
<1>9. [h \in DOMAIN long |-> long[h].name] = both
  BY <1>2, <1>7, <1>8
<1> QED
  BY <1>9 DEF long, both

LEMMA NamesAfterAppend ==
  ASSUME TypeOK, NEW e \in Hdu, hdus' = Append(hdus, e)
  PROVE  Names' = Names \o << e.name >>
<1>1. hdus \in Seq(Hdu)
  BY DEF TypeOK
<1> QED
  BY <1>1, NamesOfAppend DEF Names

LEMMA TuplesOfNames ==
  /\ << "PRIMARY" >> \o << "HISTORY" >> = << "PRIMARY", "HISTORY" >>
  /\ << "PRIMARY", "HISTORY" >> \o <<>> = << "PRIMARY", "HISTORY" >>
<1>1. << "PRIMARY" >> \in Seq(HduNames) /\ << "PRIMARY", "HISTORY" >> \in Seq(HduNames)
  BY DEF HduNames
<1>2. "HISTORY" \in HduNames
  BY DEF HduNames
<1>3. Append(<< "PRIMARY" >>, "HISTORY") = << "PRIMARY", "HISTORY" >>
  <2> DEFINE s == Append(<< "PRIMARY" >>, "HISTORY")
             t == << "PRIMARY", "HISTORY" >>
  <2>1. s \in Seq(HduNames) /\ Len(s) = 2 /\ s[1] = "PRIMARY" /\ s[2] = "HISTORY"
    BY <1>1, <1>2, AppendProperties
  <2>2. t \in Seq(HduNames) /\ Len(t) = 2 /\ t[1] = "PRIMARY" /\ t[2] = "HISTORY"
    BY <1>1
  <2>3. \A i \in 1 .. 2 : s[i] = t[i]
    BY <2>1, <2>2
  <2> HIDE DEF s, t
  <2>4. s = t
    BY <2>1, <2>2, <2>3, SeqEqual
  <2> QED
    BY <2>4 DEF s, t
<1> QED
  BY <1>1, <1>2, <1>3, AppendIsConcat, ConcatEmptySeq

\* A step that leaves the output and main's stage alone keeps HdusInv.
LEMMA SameOutput ==
  ASSUME HdusInv, exit = "running", disk' = disk, parRows' = parRows, hdus' = hdus,
         input' = input, status' = 0 => status = 0,
         exit' = "running" /\ status' = 0 =>
           pc' = pc \/ {pc, pc'} \subseteq {"loop", "cols", "close"}
  PROVE  HdusInv'
<1>1. Names' = Names /\ Asked' = Asked /\ ParLines' = ParLines
  BY DEF Names, Asked, ParLines
<1> QED
  BY <1>1 DEF HdusInv

LEMMA InitHdus == Init => HdusInv
  BY DEF Init, HdusInv

LEMMA NextHdus == TypeOK /\ ControlInv /\ HdusInv /\ [Next]_vars => HdusInv'
<1> SUFFICES ASSUME TypeOK, ControlInv, HdusInv, [Next]_vars PROVE HdusInv'
  OBVIOUS
<1>1. CASE Launch
  BY <1>1 DEF Launch, HdusInv, Names, Asked, ParLines, runVars, outputVars, tableVars, subintVars, profVars
<1>2. CASE RemoveOutput
  BY <1>2 DEF RemoveOutput, HdusInv, Names, Asked, ParLines, runVars, outputVars, tableVars, subintVars, profVars
<1>3. CASE OpenProf
  BY <1>3 DEF OpenProf, At, HdusInv, Names, Asked, ParLines, runVars, outputVars, tableVars, subintVars, profVars
<1>4. CASE SanityCheck
  BY <1>4 DEF SanityCheck, At, GoOn, HdusInv, Names, Asked, ParLines, runVars, outputVars, tableVars, subintVars, profVars
<1>5. CASE CreateFITS
  BY <1>5 DEF CreateFITS, At, NameTaken, FILE_NOT_CREATED, ControlInv, HdusInv, MayFail, runVars, tableVars, subintVars, profVars
<1>6. CASE PrimaryHeader
  <2>1. CASE status' = 0 /\ input.badcfg # "primary"
    <3>1. Names' = << "PRIMARY" >>
      BY <1>6, <2>1 DEF PrimaryHeader, Names, Keywords
    <3>2. status = 0 /\ parRows' = parRows /\ disk' = disk /\ pc' = "history"
      BY <1>6, <2>1 DEF PrimaryHeader, At, GoOn, MayFail
    <3> QED
      BY <1>6, <3>1, <3>2 DEF PrimaryHeader, At, HdusInv
  <2>2. CASE ~(status' = 0 /\ input.badcfg # "primary")
    BY <1>6, <2>2 DEF PrimaryHeader, At, GoOn, HdusInv
  <2> QED
    BY <2>1, <2>2
<1>7. CASE PutHistoryTable
  <2>1. CASE status' = 0
    <3>1. Keywords("HISTORY", Short(fh.pol), Short(fh.numbins), Short(numchans), fh.freq) \in Hdu
      BY HeaderKeywordsType
    <3>2. Names' = Names \o << "HISTORY" >>
      BY <1>7, <2>1, <3>1, NamesAfterAppend DEF PutHistoryTable, Keywords
    <3>3. /\ status = 0 /\ parRows' = parRows /\ disk' = disk /\ input' = input
          /\ exit = "running" /\ pc = "history"
          /\ exit' = "running" => pc' = IF input.par.given THEN "par" ELSE "table"
      BY <1>7, <2>1 DEF PutHistoryTable, At, GoOn, MayFail, runVars
    <3>4. Names = << "PRIMARY" >> /\ parRows = 0
      BY <3>3 DEF HdusInv
    <3>5. Names' = << "PRIMARY", "HISTORY" >>
      BY <3>2, <3>4, TuplesOfNames
    <3>6. ~input.par.given => Asked = << "PRIMARY", "HISTORY" >> /\ ParLines = 0
      BY TuplesOfNames DEF Asked, ParLines
    <3>7. Asked' = Asked /\ ParLines' = ParLines
      BY <3>3 DEF Asked, ParLines
    <3> QED
      BY <3>3, <3>4, <3>5, <3>6, <3>7 DEF HdusInv
  <2>2. CASE status' # 0
    BY <1>7, <2>2 DEF PutHistoryTable, At, HdusInv
  <2> QED
    BY <2>1, <2>2
<1>8. CASE PutPar
  <2>1. CASE status' = 0
    <3>1. Keywords("PSRPARAM", Blank, Blank, Blank, Blank) \in Hdu
      BY HeaderKeywordsType
    <3>2. Names' = Names \o << "PSRPARAM" >>
      BY <1>8, <2>1, <3>1, NamesAfterAppend DEF PutPar, Keywords
    <3>3. /\ status = 0 /\ disk' = disk /\ input' = input
          /\ exit = "running" /\ pc = "par" /\ pc' = "table"
          /\ parRows' = IF input.par.opens THEN input.par.lines ELSE 0
      BY <1>8, <2>1 DEF PutPar, At, ReportAndExitOnError, MayFail, runVars
    <3>4. Names = << "PRIMARY", "HISTORY" >> /\ input.par.given
      BY <3>3 DEF HdusInv
    <3>5. Names' = Asked' /\ parRows' = ParLines'
      BY <3>2, <3>3, <3>4 DEF Asked, ParLines
    <3>6. disk = "partial"
      BY <3>3 DEF ControlInv, Early
    <3> QED
      BY <3>3, <3>5, <3>6 DEF HdusInv
  <2>2. CASE status' # 0
    <3>1. parRows' = parRows /\ disk' = disk
      BY <1>8, <2>2 DEF PutPar
    <3> QED
      BY <2>2, <3>1 DEF HdusInv
  <2> QED
    BY <2>1, <2>2
<1>9. CASE CreateSubint
  <2>1. CASE status' = 0
    <3>1. Keywords("SUBINT", fh.pol, fh.numbins, numchans, Blank) \in Hdu
      BY HeaderKeywordsType
    <3>2. Names' = Names \o << "SUBINT" >>
      BY <1>9, <2>1, <3>1, NamesAfterAppend DEF CreateSubint, Keywords
    <3>3. /\ status = 0 /\ disk' = disk /\ input' = input /\ parRows' = parRows
          /\ exit = "running" /\ pc = "table"
          /\ exit' = "running" => pc' = "loop"
      BY <1>9, <2>1 DEF CreateSubint, At, MayFail, TableStatus, runVars
    <3>4. Names = Asked /\ parRows = ParLines
      BY <3>3 DEF HdusInv
    <3>5. Names' = Asked' \o << "SUBINT" >> /\ parRows' = ParLines'
      BY <3>2, <3>3, <3>4 DEF Asked, ParLines
    <3> QED
      BY <3>3, <3>5 DEF HdusInv
  <2>2. CASE status' # 0
    BY <1>9, <2>2 DEF CreateSubint, HdusInv
  <2> QED
    BY <2>1, <2>2
<1>10. CASE BeginSubint
  <2>1. /\ exit = "running" /\ disk' = disk /\ parRows' = parRows /\ hdus' = hdus
        /\ input' = input
        /\ status' = 0 => status = 0
        /\ exit' = "running" /\ status' = 0 => pc = "loop" /\ pc' = "cols"
    BY <1>10 DEF BeginSubint, At, CallReadSubs, runVars, outputVars, tableVars
  <2> QED
    BY <2>1, SameOutput
<1>11. CASE WriteCol
  <2>1. /\ exit = "running" /\ disk' = disk /\ parRows' = parRows /\ hdus' = hdus
        /\ input' = input
        /\ status' = 0 => status = 0
        /\ exit' = "running" /\ status' = 0 => pc = "cols" /\ pc' = "cols"
    BY <1>11 DEF WriteCol, At, ReportAndExitOnError, ColumnStatus, MayFail, runVars, outputVars, tableVars
  <2> QED
    BY <2>1, SameOutput
<1>12. CASE NextSubint
  <2>1. /\ exit = "running" /\ disk' = disk /\ parRows' = parRows /\ hdus' = hdus
        /\ input' = input
        /\ status' = 0 => status = 0
        /\ exit' = "running" /\ status' = 0 => pc = "cols" /\ pc' = "loop"
    BY <1>12 DEF NextSubint, At, CallReadHeader, runVars, outputVars, tableVars
  <2> QED
    BY <2>1, SameOutput
<1>13. CASE EndSubints
  <2>1. /\ exit = "running" /\ disk' = disk /\ parRows' = parRows /\ hdus' = hdus
        /\ input' = input
        /\ status' = 0 => status = 0
        /\ exit' = "running" /\ status' = 0 => pc = "loop" /\ pc' = "close"
    BY <1>13 DEF EndSubints, At, ReportAndExitOnError, runVars, outputVars, tableVars
  <2> QED
    BY <2>1, SameOutput
<1>14. CASE CloseFITS
  BY <1>14 DEF CloseFITS, HdusInv, outputVars, tableVars
<1>15. CASE HeapOverrun
  <2>1. /\ exit = "running" /\ disk' = disk /\ parRows' = parRows /\ hdus' = hdus
        /\ input' = input
        /\ status' = 0 => status = 0
        /\ exit' = "running" /\ status' = 0 => pc' = pc
    BY <1>15 DEF HeapOverrun, runVars, outputVars, tableVars
  <2> QED
    BY <2>1, SameOutput
<1>16. CASE Reader
  <2>1. /\ exit = "running" /\ disk' = disk /\ parRows' = parRows /\ hdus' = hdus
        /\ input' = input
        /\ status' = 0 => status = 0
        /\ exit' = "running" /\ status' = 0 => pc' = pc
    BY <1>16 DEF Reader, ReaderStep, HeaderField, HeaderReturn, ReadIndex, ReadSample, EndBin, SubsReturn, runVars, outputVars, tableVars
  <2> QED
    BY <2>1, SameOutput
<1>17. CASE UNCHANGED vars
  BY <1>17 DEF vars, HdusInv, Names, Asked, ParLines, runVars, outputVars, tableVars, subintVars, profVars
<1> QED
  BY <1>1, <1>2, <1>3, <1>4, <1>5, <1>6, <1>7, <1>8, <1>9,
     <1>10, <1>11, <1>12, <1>13, <1>14, <1>15, <1>16, <1>17
  DEF Next, Program, Operator

-----------------------------------------------------------------------------
(* RowsInv *)

LEMMA InitRows == Init => RowsInv
  BY DEF Init, RowsInv, RowsWhole

\* A step that leaves the table and the place in it alone keeps RowsInv.
LEMMA SameRows ==
  ASSUME TypeOK, RowsInv, cells' = cells, subint_cnt' = subint_cnt,
         exit' = "running" /\ status' = 0 =>
           /\ exit = "running" /\ status = 0
           /\ pc' = "cols" => pc = "cols" /\ col' = col,
         pc' \notin {"loop", "cols", "close"} => pc \notin {"loop", "cols", "close"}
  PROVE  RowsInv'
  BY DEF RowsInv, RowsWhole, RowWholeSoFar

LEMMA WriteColRows == TypeOK /\ RowsInv /\ WriteCol => RowsInv'
<1> SUFFICES ASSUME TypeOK, RowsInv, WriteCol PROVE RowsInv'
  OBVIOUS
<1>0. pc = "cols" /\ pc' = "cols"
  BY DEF WriteCol, At, ReportAndExitOnError
<1> SUFFICES ASSUME exit' = "running", status' = 0
             PROVE  RowsWhole' /\ RowWholeSoFar'
  BY <1>0 DEF RowsInv
<1>1. /\ exit = "running" /\ col \in Columns /\ col' = col + 1
      /\ subint_cnt' = subint_cnt
  BY DEF WriteCol, At
<1>2. /\ status = 0
      /\ Len(cells') \in Nat /\ Len(cells') >= Len(cells)
      /\ \A r \in 1 .. Len(cells) : r # subint_cnt => cells'[r] = cells[r]
      /\ subint_cnt <= Len(cells) =>
           \A k \in Columns : k # col => cells'[subint_cnt][k] = cells[subint_cnt][k]
      /\ Elements(col) > 0 =>
           subint_cnt <= Len(cells') /\ cells'[subint_cnt][col] = Value(col)
  BY WriteColCells
<1>3. RowsWhole /\ RowWholeSoFar
  BY <1>0, <1>1, <1>2 DEF RowsInv
<1>4. Len(cells) \in Nat /\ subint_cnt \in Nat \ {0} /\ col \in 1 .. 21
  BY <1>1, LenProperties DEF TypeOK, Columns
<1>5. RowsWhole'
  <2>1. \A r \in 1 .. subint_cnt - 1 : r \in 1 .. Len(cells) /\ r # subint_cnt
    BY <1>3, <1>4 DEF RowsWhole
  <2> QED
    BY <1>1, <1>2, <1>3, <1>4, <2>1 DEF RowsWhole
<1>6. subint_cnt <= Len(cells')
  <2>1. CASE col = 1
    BY <1>2, <2>1 DEF Elements
  <2>2. CASE col > 1
    BY <1>2, <1>3, <1>4, <2>2 DEF RowWholeSoFar
  <2> QED
    BY <1>4, <2>1, <2>2
<1>7. ASSUME NEW k \in Scalars, k < col + 1
      PROVE  cells'[subint_cnt][k] # Blank
  <2>0. k \in Columns /\ k \in 1 .. 21 /\ k \notin 15 .. 19
    BY DEF Scalars, Columns
  <2>1. CASE k = col
    <3>1. Elements(col) > 0
      BY <2>0, <2>1 DEF Elements
    <3> QED
      BY <1>2, <2>1, <3>1, ValueType, BlankAssumption
  <2>2. CASE k # col
    <3>1. k < col /\ col > 1
      BY <1>4, <1>7, <2>0, <2>2
    <3>2. subint_cnt <= Len(cells) /\ cells[subint_cnt][k] # Blank
      BY <1>3, <3>1 DEF RowWholeSoFar
    <3> QED
      BY <1>2, <2>0, <2>2, <3>2
  <2> QED
    BY <2>1, <2>2
<1> QED
  BY <1>1, <1>5, <1>6, <1>7 DEF RowWholeSoFar

LEMMA NextSubintRows == TypeOK /\ RowsInv /\ NextSubint => RowsInv'
<1> SUFFICES ASSUME TypeOK, RowsInv, NextSubint, exit = "running", status = 0
             PROVE  RowsWhole'
  BY DEF NextSubint, At, RowsInv
<1>1. /\ pc = "cols" /\ col \notin Columns /\ subint_cnt' = subint_cnt + 1
      /\ cells' = cells
  BY DEF NextSubint, At, outputVars, tableVars
<1>2. RowsWhole /\ RowWholeSoFar
  BY <1>1 DEF RowsInv
<1>3. col = 22 /\ subint_cnt \in Nat \ {0} /\ Len(cells) \in Nat
  <2>1. col \in 1 .. 22 /\ col \notin 1 .. 21
    BY <1>1 DEF TypeOK, Columns
  <2>2. subint_cnt \in Nat \ {0} /\ Len(cells) \in Nat
    BY LenProperties DEF TypeOK
  <2> QED
    BY <2>1, <2>2
<1>4. subint_cnt <= Len(cells) /\ \A k \in Scalars : cells[subint_cnt][k] # Blank
  <2>1. \A k \in Scalars : k < 22
    BY DEF Scalars, Columns
  <2> QED
    BY <1>2, <1>3, <2>1 DEF RowWholeSoFar
<1>5. \A r \in 1 .. subint_cnt : r = subint_cnt \/ r \in 1 .. subint_cnt - 1
  BY <1>3
<1>6. subint_cnt' - 1 = subint_cnt
  BY <1>1, <1>3
<1> QED
  BY <1>1, <1>2, <1>4, <1>5, <1>6 DEF RowsWhole

LEMMA NextRows == TypeOK /\ ControlInv /\ RowsInv /\ [Next]_vars => RowsInv'
<1> SUFFICES ASSUME TypeOK, ControlInv, RowsInv, [Next]_vars PROVE RowsInv'
  OBVIOUS
<1>1. CASE Launch
  BY <1>1 DEF Launch, RowsInv, RowsWhole
<1>2. CASE RemoveOutput
  BY <1>2 DEF RemoveOutput, RowsInv, runVars, subintVars
<1>3. CASE OpenProf \/ SanityCheck
  BY <1>3, SameRows DEF OpenProf, SanityCheck, At, GoOn, outputVars, tableVars, subintVars
<1>4. CASE CreateFITS
  BY <1>4, SameRows DEF CreateFITS, At, MayFail, NameTaken, FILE_NOT_CREATED, ControlInv, Early, tableVars, subintVars
<1>5. CASE PrimaryHeader \/ PutHistoryTable
  BY <1>5, SameRows DEF PrimaryHeader, PutHistoryTable, At, GoOn, MayFail, tableVars, subintVars
<1>6. CASE PutPar
  BY <1>6, SameRows DEF PutPar, At, MayFail, ReportAndExitOnError, tableVars, subintVars
<1>7. CASE CreateSubint
  BY <1>7, SameRows DEF CreateSubint, At, MayFail, TableStatus, subintVars
<1>8. CASE BeginSubint
  <2>1. /\ cells' = cells /\ subint_cnt' = subint_cnt /\ status' = status
        /\ exit = "running" /\ pc = "loop"
        /\ exit' = "running" => pc' = "cols" /\ col' = 1
        /\ pc' \in {"loop", "cols"}
    BY <1>8 DEF BeginSubint, At, CallReadSubs, outputVars, tableVars
  <2> QED
    BY <2>1 DEF RowsInv, RowsWhole, RowWholeSoFar
<1>9. CASE WriteCol
  BY <1>9, WriteColRows
<1>10. CASE NextSubint
  BY <1>10, NextSubintRows
<1>11. CASE EndSubints
  BY <1>11, SameRows DEF EndSubints, At, ReportAndExitOnError, outputVars, tableVars, subintVars
<1>12. CASE CloseFITS
  BY <1>12, SameRows DEF CloseFITS, At, MayFail, outputVars, tableVars, subintVars
<1>13. CASE HeapOverrun
  BY <1>13, SameRows DEF HeapOverrun, outputVars, tableVars, subintVars
<1>14. CASE Reader
  BY <1>14, SameRows DEF Reader, outputVars, tableVars, subintVars
<1>15. CASE UNCHANGED vars
  BY <1>15, SameRows DEF vars, outputVars, tableVars, subintVars
<1> QED
  BY <1>1, <1>2, <1>3, <1>4, <1>5, <1>6, <1>7, <1>8, <1>9,
     <1>10, <1>11, <1>12, <1>13, <1>14, <1>15
  DEF Next, Program, Operator

-----------------------------------------------------------------------------
(* ExitOkMeansComplete *)

\* The one step that returns 0 finds everything in place.
LEMMA CloseIsComplete ==
  ASSUME TypeOK, HdusInv, RowsInv, CloseFITS, exit' = "ok"
  PROVE  ExitOkMeansComplete'
<1>1. /\ exit = "running" /\ pc = "close" /\ status = 0 /\ status' = 0
      /\ disk' = "complete" /\ hdus' = hdus /\ cells' = cells /\ parRows' = parRows
      /\ subint_cnt' = subint_cnt /\ input' = input
  BY DEF CloseFITS, At, MayFail, runVars, outputVars, tableVars, subintVars
<1>2. Names = Asked \o << "SUBINT" >> /\ parRows = ParLines
  BY <1>1 DEF HdusInv
<1>3. RowsWhole
  BY <1>1 DEF RowsInv
<1>4. [h \in DOMAIN hdus |-> hdus[h].name] =
        << "PRIMARY", "HISTORY" >>
        \o (IF input.par.given THEN << "PSRPARAM" >> ELSE <<>>)
        \o << "SUBINT" >>
  BY <1>2 DEF Names, Asked
<1>5. parRows = IF input.par.given /\ input.par.opens THEN input.par.lines ELSE 0
  BY <1>2 DEF ParLines
<1>6. \A r \in 1 .. subint_cnt - 1 : \A k \in Columns \ 15 .. 19 : cells[r][k] # Blank
  BY <1>3 DEF RowsWhole, Scalars
<1> QED
  BY <1>1, <1>4, <1>5, <1>6 DEF ExitOkMeansComplete

LEMMA NextComplete ==
  TypeOK /\ HdusInv /\ RowsInv /\ ExitOkMeansComplete /\ [Next]_vars
    => ExitOkMeansComplete'
<1> SUFFICES ASSUME TypeOK, HdusInv, RowsInv, ExitOkMeansComplete, [Next]_vars,
                    exit' = "ok"
             PROVE  ExitOkMeansComplete'
  BY DEF ExitOkMeansComplete
<1>1. CASE Launch
  BY <1>1 DEF Launch
<1>2. CASE RemoveOutput
  BY <1>2 DEF RemoveOutput, ExitOkMeansComplete
<1>3. CASE CloseFITS
  BY <1>3, CloseIsComplete
<1>4. CASE UNCHANGED vars
  BY <1>4 DEF vars, ExitOkMeansComplete, runVars, outputVars, tableVars, subintVars
<1>5. CASE OpenProf \/ SanityCheck \/ CreateFITS \/ PrimaryHeader \/ PutHistoryTable
  BY <1>5 DEF OpenProf, SanityCheck, CreateFITS, PrimaryHeader, PutHistoryTable, At, GoOn
<1>6. CASE PutPar \/ CreateSubint \/ BeginSubint \/ WriteCol \/ NextSubint \/ EndSubints
  BY <1>6 DEF PutPar, CreateSubint, BeginSubint, WriteCol, NextSubint, EndSubints, At,
              ReportAndExitOnError
<1>7. CASE HeapOverrun \/ Reader
  BY <1>7 DEF HeapOverrun, Reader
<1> QED
  BY <1>1, <1>2, <1>3, <1>4, <1>5, <1>6, <1>7 DEF Next, Program, Operator

\* The program returns 0 only after a run without an error whose output was
\* closed with every HDU that was asked for, every line of the ephemeris and,
\* for every sub-integration counted, a row with all its scalar columns: for
\* every input and capacity, whatever call may fail, and whatever earlier runs
\* left on the disk.
THEOREM OkMeansComplete == Spec => []ExitOkMeansComplete
<1>1. Init => HdusInv /\ RowsInv /\ ExitOkMeansComplete
  BY InitHdus, InitRows DEF Init, ExitOkMeansComplete
<1>2. TypeOK /\ ControlInv /\ HdusInv /\ [Next]_vars => HdusInv'
  BY NextHdus
<1>3. TypeOK /\ ControlInv /\ RowsInv /\ [Next]_vars => RowsInv'
  BY NextRows
<1>4. TypeOK /\ HdusInv /\ RowsInv /\ ExitOkMeansComplete /\ [Next]_vars
        => ExitOkMeansComplete'
  BY NextComplete
<1> QED
  BY <1>1, <1>2, <1>3, <1>4, TypeCorrect, ControlIsRight, PTL DEF Spec

=============================================================================
