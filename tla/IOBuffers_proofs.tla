------------------------- MODULE IOBuffers_proofs -------------------------
(***************************************************************************)
(* For every number and size of buffers, and whatever the system refuses:  *)
(* no record of the file is ever in two buffers, the order of ages remains *)
(* one of all buffers, and a record that is only in a buffer is marked to  *)
(* be written (RecordsOnce).  With the types of the variables it needs the *)
(* invariant is inductive.                                                 *)
(***************************************************************************)
EXTENDS IOBuffers, TLAPS

(* What the records, the marks and the order of ages are made of.          *)
Shape ==
    /\ filesize \in Int /\ pos \in Int /\ todo \in Int
    /\ curbuf \in Buffers
    /\ bufrecnum \in [Buffers -> Int]
    /\ dirty \in [Buffers -> BOOLEAN]
    /\ ageindex \in [Buffers -> Buffers]

OneBuffer == \A b, c \in Buffers : bufrecnum[b] = bufrecnum[c] /\ bufrecnum[b] # -1 => b = c
EachAge == \A i, j \in Buffers : ageindex[i] = ageindex[j] => i = j
Marked == \A b \in Buffers : bufrecnum[b] # -1 /\ bufrecnum[b] >= filesize => dirty[b]

(* A direct write begins within the current buffer and leaves it with      *)
(* cells to write; else it would miss buffers that it reaches.             *)
AtFill == stage = "fill" => todo >= MINDIRECT /\ Offset >= 0
AtDrop == stage = "drop" /\ op = "put" => todo >= 1

Inv == Shape /\ OneBuffer /\ EachAge /\ Marked
WriteInv == Inv /\ AtFill /\ AtDrop

(* The three parts are the invariant that the run checks.                  *)
LEMMA Parts == RecordsOnce <=> OneBuffer /\ EachAge /\ Marked
  BY DEF RecordsOnce, OneBuffer, EachAge, Marked

(* Numbers of records and positions are integers.                          *)
LEMMA Arithmetic ==
  /\ \A p \in Int : Record(p) \in Int
  /\ \A r \in Int : Start(r) \in Int
  /\ \A a, b \in Int : Larger(a, b) \in Int /\ Larger(a, b) >= a /\ Larger(a, b) >= b
  /\ \A a, b \in Int : Smaller(a, b) \in Int /\ Smaller(a, b) <= a /\ Smaller(a, b) <= b
  BY BufferAssumption DEF Record, Start, Larger, Smaller

(* A position at or past the start of record f is in a record from f on.   *)
LEMMA RecordOfStart == \A p, f \in Int : p >= Start(f) => Record(p) >= f
<1> SUFFICES ASSUME NEW p \in Int, NEW f \in Int, p >= Start(f) PROVE Record(p) >= f
  OBVIOUS
<1> DEFINE L == IOBUFLEN
           q == p \div L
<1>1. L \in Nat /\ L > 0
  BY BufferAssumption
<1>2. q \in Int /\ p = (L * q) + (p % L) /\ p % L \in 0..L - 1
  BY <1>1
<1>3. p < (L * q) + L
  BY <1>1, <1>2
<1>4. f * L < L * (q + 1)
  BY <1>1, <1>2, <1>3 DEF Start
<1>5. f < q + 1
  BY <1>1, <1>2, <1>4
<1> QED BY <1>2, <1>5 DEF Record

(* The record of a later position is no earlier one.                       *)
LEMMA RecordGrows ==
  \A p, n \in Int : n >= 1 => Record(p) \in Int /\ Record(p) <= Record(p + n - 1)
<1> SUFFICES ASSUME NEW p \in Int, NEW n \in Int, n >= 1
             PROVE  Record(p) \in Int /\ Record(p) <= Record(p + n - 1)
  OBVIOUS
<1> DEFINE L == IOBUFLEN
           q == p \div L
<1>1. L \in Nat /\ L > 0
  BY BufferAssumption
<1>2. q \in Int /\ p = (L * q) + (p % L) /\ p % L \in 0..L - 1
  BY <1>1
<1>3. p + n - 1 \in Int /\ p + n - 1 >= q * L
  BY <1>1, <1>2
<1>4. Record(p + n - 1) >= q
  BY <1>2, <1>3, RecordOfStart DEF Start
<1> QED BY <1>2, <1>4, Arithmetic DEF Record

(* Writing a buffer: the file does not shrink, and what lies past its new  *)
(* end stays marked.                                                       *)
LEMMA WriteKeepsMarks ==
  ASSUME Inv, NEW b \in Buffers, ffbfwt(b)
  PROVE  /\ filesize' \in Int /\ filesize' >= filesize
         /\ dirty' \in [Buffers -> BOOLEAN]
         /\ \A x \in Buffers : bufrecnum[x] # -1 /\ bufrecnum[x] >= filesize' => dirty'[x]
<1> DEFINE hi == bufrecnum[b]
           lo == Smaller(hi, filesize)
<1>1. hi \in Int /\ lo \in Int /\ filesize \in Int
  BY Arithmetic DEF Inv, Shape
<1>2. /\ filesize' = Larger(filesize, hi + 1)
      /\ dirty' = [x \in Buffers |-> dirty[x] /\ bufrecnum[x] \notin lo..hi]
  BY DEF ffbfwt
<1>3. filesize' \in Int /\ filesize' >= filesize /\ filesize' >= hi + 1
  BY <1>1, <1>2 DEF Larger
<1>4. dirty' \in [Buffers -> BOOLEAN]
  BY <1>2 DEF Inv, Shape
<1>5. ASSUME NEW x \in Buffers, bufrecnum[x] # -1, bufrecnum[x] >= filesize' PROVE dirty'[x]
  <2>1. bufrecnum[x] \in Int /\ dirty[x] \in BOOLEAN
    BY DEF Inv, Shape
  <2>2. bufrecnum[x] >= filesize /\ bufrecnum[x] \notin lo..hi
    BY <1>1, <1>3, <1>5, <2>1
  <2>3. dirty[x]
    BY <1>5, <2>2 DEF Inv, Marked
  <2> QED BY <1>2, <2>2, <2>3
<1> QED BY <1>3, <1>4, <1>5

(* Making a buffer the youngest permutes the order of ages.                *)
LEMMA TouchKeepsAges ==
  ASSUME Inv, NEW i \in Buffers, Touch(i)
  PROVE  /\ curbuf' \in Buffers
         /\ ageindex' \in [Buffers -> Buffers]
         /\ EachAge'
<1>1. /\ curbuf' = ageindex[i]
      /\ ageindex' = [j \in Buffers |-> IF j < i THEN ageindex[j]
                          ELSE IF j < NIOBUF - 1 THEN ageindex[j + 1] ELSE ageindex[i]]
  BY DEF Touch
<1>2. ageindex \in [Buffers -> Buffers] /\ EachAge /\ NIOBUF \in Nat /\ NIOBUF > 0
  BY BufferAssumption DEF Inv, Shape
<1>3. curbuf' \in Buffers /\ ageindex' \in [Buffers -> Buffers]
  BY <1>1, <1>2 DEF Buffers
<1> DEFINE Was(j) == IF j < i THEN j ELSE IF j < NIOBUF - 1 THEN j + 1 ELSE i
<1>4. \A j \in Buffers : Was(j) \in Buffers /\ ageindex'[j] = ageindex[Was(j)]
  BY <1>1, <1>2 DEF Buffers
<1>5. \A j, k \in Buffers : Was(j) = Was(k) => j = k
  BY <1>2 DEF Buffers
<1>6. EachAge'
  <2> SUFFICES ASSUME NEW j \in Buffers, NEW k \in Buffers, ageindex'[j] = ageindex'[k]
               PROVE  j = k
    BY DEF EachAge, Buffers
  <2>1. Was(j) = Was(k)
    BY <1>2, <1>4 DEF EachAge
  <2> QED BY <1>5, <2>1
<1> QED BY <1>3, <1>6

-----------------------------------------------------------------------------
(* A step that changes no record, no age and no size, and takes no mark    *)
(* away, keeps the invariant.                                              *)
LEMMA OnlyMarks ==
  ASSUME Inv, UNCHANGED <<filesize, curbuf, bufrecnum, ageindex>>,
         pos' \in Int, todo' \in Int,
         dirty' \in [Buffers -> BOOLEAN], \A b \in Buffers : dirty[b] => dirty'[b]
  PROVE  Inv'
<1>1. Shape' /\ OneBuffer' /\ EachAge'
  BY DEF Inv, Shape, OneBuffer, EachAge, Buffers
<1>2. Marked'
  BY DEF Inv, Marked, Buffers
<1> QED BY <1>1, <1>2 DEF Inv

(* The calls that begin.                                                   *)
LEMMA BeginKeeps ==
  ASSUME Inv, NEW o, NEW st, NEW p \in Int, NEW n \in Int, Begin(o, st, p, n)
  PROVE  Inv'
<1>1. /\ UNCHANGED <<filesize, curbuf, bufrecnum, ageindex, dirty>>
      /\ pos' \in Int /\ todo' \in Int
  BY DEF Begin, OnDisk, Cache
<1>2. dirty' \in [Buffers -> BOOLEAN]
  BY <1>1 DEF Inv, Shape
<1> QED BY <1>1, <1>2, OnlyMarks

(* A record is loaded into the oldest buffer, or one is made for it.       *)
LEMMA VictimKeeps ==
  ASSUME Inv, NEW r \in Int, ~Cached(r), Touch(0),
         UNCHANGED <<filesize, pos, todo>>,
         bufrecnum' = [bufrecnum EXCEPT ![Victim] = r],
         dirty' \in [Buffers -> BOOLEAN],
         \A b \in Buffers : dirty[b] => dirty'[b],
         r >= filesize => dirty'[Victim]
  PROVE  Inv'
<1>0. 0 \in Buffers /\ Victim \in Buffers
  BY BufferAssumption DEF Buffers, Victim, Inv, Shape
<1>1. Shape' /\ EachAge'
  BY <1>0, TouchKeepsAges DEF Inv, Shape, Buffers
<1>2. \A b \in Buffers : bufrecnum'[b] = IF b = Victim THEN r ELSE bufrecnum[b]
  BY DEF Inv, Shape
<1>3. OneBuffer'
  <2> SUFFICES ASSUME NEW b \in Buffers, NEW c \in Buffers,
                      bufrecnum'[b] = bufrecnum'[c], bufrecnum'[b] # -1
               PROVE  b = c
    BY DEF OneBuffer, Buffers
  <2>1. \A x \in Buffers : bufrecnum[x] # r
    BY DEF Cached
  <2> QED BY <1>2, <2>1 DEF Inv, OneBuffer
<1>4. Marked'
  <2> SUFFICES ASSUME NEW b \in Buffers, bufrecnum'[b] # -1, bufrecnum'[b] >= filesize PROVE dirty'[b]
    BY DEF Marked, Buffers
  <2>1. CASE b = Victim
    BY <1>2, <2>1
  <2>2. CASE b # Victim
    BY <1>2, <2>2 DEF Inv, Marked
  <2> QED BY <2>1, <2>2
<1> QED BY <1>1, <1>3, <1>4 DEF Inv

(* Buffers lose their record, and the file does not shrink below a record  *)
(* that is kept.                                                           *)
LEMMA DropKeeps ==
  ASSUME Inv, UNCHANGED <<curbuf, ageindex>>,
         pos' \in Int, todo' \in Int, filesize' \in Int,
         dirty' \in [Buffers -> BOOLEAN],
         NEW S, bufrecnum' = [b \in Buffers |-> IF b \in S THEN -1 ELSE bufrecnum[b]],
         \A b \in Buffers : bufrecnum'[b] # -1 /\ bufrecnum'[b] >= filesize' => dirty'[b]
  PROVE  Inv'
<1>1. Shape' /\ EachAge'
  BY DEF Inv, Shape, EachAge, Buffers
<1>2. OneBuffer'
  <2> SUFFICES ASSUME NEW b \in Buffers, NEW c \in Buffers,
                      bufrecnum'[b] = bufrecnum'[c], bufrecnum'[b] # -1
               PROVE  b = c
    BY DEF OneBuffer, Buffers
  <2>1. bufrecnum[b] = bufrecnum[c] /\ bufrecnum[b] # -1
    OBVIOUS
  <2> QED BY <2>1 DEF Inv, OneBuffer
<1>3. Marked'
  BY DEF Marked, Buffers
<1> QED BY <1>1, <1>2, <1>3 DEF Inv

-----------------------------------------------------------------------------
(* The steps that load a record.                                           *)
LEMMA HitKeeps == ASSUME Inv, Hit PROVE Inv'
<1>1. PICK i \in Buffers : Touch(i)
  BY DEF Hit
<1>2. UNCHANGED <<filesize, bufrecnum, dirty, pos, todo>>
  BY DEF Hit, OnDisk
<1>3. Shape' /\ EachAge'
  BY <1>1, <1>2, TouchKeepsAges DEF Inv, Shape, Buffers
<1>4. OneBuffer' /\ Marked'
  BY <1>2 DEF Inv, OneBuffer, Marked, Buffers
<1> QED BY <1>3, <1>4 DEF Inv

LEMMA ExtendKeeps == ASSUME Inv, Extend PROVE Inv'
<1>1. /\ ~Cached(Wanted) /\ Touch(0) /\ UNCHANGED <<filesize, pos, todo>>
      /\ bufrecnum' = [bufrecnum EXCEPT ![Victim] = Wanted]
      /\ dirty' = [dirty EXCEPT ![Victim] = TRUE]
  BY DEF Extend, OnDisk
<1>2. Victim \in Buffers /\ Wanted \in Int
  <2>1. 0 \in Buffers
    BY BufferAssumption DEF Buffers
  <2>2. Victim \in Buffers
    BY <2>1 DEF Inv, Shape, Victim
  <2>3. Wanted \in Int
    BY Arithmetic DEF Inv, Shape, Wanted
  <2> QED BY <2>2, <2>3
<1>3. /\ dirty' \in [Buffers -> BOOLEAN] /\ dirty'[Victim]
      /\ \A b \in Buffers : dirty[b] => dirty'[b]
  BY <1>1, <1>2 DEF Inv, Shape
<1> QED BY <1>1, <1>2, <1>3, VictimKeeps

LEMMA LoadKeeps == ASSUME Inv, Load PROVE Inv'
<1>1. /\ ~Cached(Wanted) /\ Touch(0) /\ UNCHANGED <<filesize, dirty, pos, todo>>
      /\ bufrecnum' = [bufrecnum EXCEPT ![Victim] = Wanted]
      /\ Wanted < filesize
  BY DEF Load
<1>2. Wanted \in Int /\ filesize \in Int
  BY Arithmetic DEF Inv, Shape, Wanted
<1>3. /\ dirty' \in [Buffers -> BOOLEAN]
      /\ \A b \in Buffers : dirty[b] => dirty'[b]
  BY <1>1 DEF Inv, Shape
<1>4. ~(Wanted >= filesize)
  BY <1>1, <1>2
<1> QED BY <1>1, <1>2, <1>3, <1>4, VictimKeeps

LEMMA EvictKeeps == ASSUME Inv, Evict PROVE Inv'
<1>1. Victim \in Buffers
  BY BufferAssumption DEF Inv, Shape, Victim, Buffers
<1>2. ffbfwt(Victim) /\ UNCHANGED <<curbuf, bufrecnum, ageindex, pos, todo>>
  BY DEF Evict, Cache, Call
<1>3. /\ filesize' \in Int /\ dirty' \in [Buffers -> BOOLEAN]
      /\ \A x \in Buffers : bufrecnum[x] # -1 /\ bufrecnum[x] >= filesize' => dirty'[x]
  BY <1>1, <1>2, WriteKeepsMarks
<1>4. Shape' /\ OneBuffer' /\ EachAge'
  BY <1>2, <1>3 DEF Inv, Shape, OneBuffer, EachAge, Buffers
<1>5. Marked'
  BY <1>2, <1>3 DEF Marked, Buffers
<1> QED BY <1>4, <1>5 DEF Inv

(* The steps that copy.                                                    *)
LEMMA FillinMarks ==
  ASSUME Inv, NEW n, Fillin(n)
  PROVE  dirty' \in [Buffers -> BOOLEAN] /\ \A b \in Buffers : dirty[b] => dirty'[b]
BY DEF Fillin, Inv, Shape

LEMMA OffsetIsInt == ASSUME Inv PROVE Offset \in Int /\ Piece \in Int
<1>1. bufrecnum[curbuf] \in Int /\ pos \in Int /\ todo \in Int /\ IOBUFLEN \in Int
  BY BufferAssumption DEF Inv, Shape
<1>2. Offset \in Int
  <2>1. Start(bufrecnum[curbuf]) \in Int
    BY <1>1, Arithmetic
  <2> QED BY <1>1, <2>1 DEF Offset
<1>3. IOBUFLEN - Offset \in Int
  BY <1>1, <1>2
<1> QED BY <1>1, <1>2, <1>3, Arithmetic DEF Piece

LEMMA CopyInKeeps == ASSUME Inv, CopyIn PROVE Inv'
<1>1. Fillin(Piece) /\ UNCHANGED <<filesize, curbuf, bufrecnum, ageindex>>
  BY DEF CopyIn, OnDisk, Cache
<1>2. pos' = pos + Piece /\ todo' = todo - Piece
  BY DEF CopyIn, Advance
<1>3. pos' \in Int /\ todo' \in Int
  BY <1>2, OffsetIsInt DEF Inv, Shape
<1> QED BY <1>1, <1>3, FillinMarks, OnlyMarks

LEMMA CopyOutKeeps == ASSUME Inv, CopyOut PROVE Inv'
<1>1. UNCHANGED <<filesize, dirty, curbuf, bufrecnum, ageindex>>
  BY DEF CopyOut, OnDisk, Cache
<1>2. pos' = pos + Piece /\ todo' = todo - Piece
  BY DEF CopyOut, Advance
<1>3. pos' \in Int /\ todo' \in Int
  BY <1>2, OffsetIsInt DEF Inv, Shape
<1>4. dirty' \in [Buffers -> BOOLEAN]
  BY <1>1 DEF Inv, Shape
<1> QED BY <1>1, <1>3, <1>4, OnlyMarks

LEMMA FillUpKeeps == ASSUME Inv, FillUp PROVE Inv'
<1> DEFINE n == IOBUFLEN - Offset
<1>1. n \in Int
  BY OffsetIsInt, BufferAssumption
<1>2. /\ UNCHANGED dirty \/ Fillin(n)
      /\ pos' = pos + n /\ todo' = todo - n
      /\ UNCHANGED <<filesize, curbuf, bufrecnum, ageindex>>
  BY DEF FillUp, OnDisk, Cache
<1>3. pos' \in Int /\ todo' \in Int
  BY <1>1, <1>2 DEF Inv, Shape
<1>4. dirty' \in [Buffers -> BOOLEAN] /\ \A b \in Buffers : dirty[b] => dirty'[b]
  BY <1>2, FillinMarks DEF Inv, Shape
<1> QED BY <1>2, <1>3, <1>4, OnlyMarks

-----------------------------------------------------------------------------
(* The steps of direct reads and writes, flushes, closes and truncations.  *)
LEMMA WriteBackKeeps == ASSUME Inv, WriteBack PROVE Inv'
<1>1. PICK b \in Buffers :
         /\ IF dirty[b] THEN ffbfwt(b) ELSE UNCHANGED <<OnDisk, dirty, status, lost>>
         /\ bufrecnum' = [c \in Buffers |->
                IF (op = "put" /\ c = b) \/ (op = "close" /\ c <= b) THEN -1 ELSE bufrecnum[c]]
  BY DEF WriteBack
<1> DEFINE S == {c \in Buffers : (op = "put" /\ c = b) \/ (op = "close" /\ c <= b)}
<1>2. bufrecnum' = [c \in Buffers |-> IF c \in S THEN -1 ELSE bufrecnum[c]]
  BY <1>1
<1>3. UNCHANGED <<curbuf, ageindex, pos, todo>>
  BY DEF WriteBack, Call
<1>4. pos' \in Int /\ todo' \in Int
  BY <1>3 DEF Inv, Shape
<1>5. /\ filesize' \in Int /\ dirty' \in [Buffers -> BOOLEAN]
      /\ \A x \in Buffers : bufrecnum[x] # -1 /\ bufrecnum[x] >= filesize' => dirty'[x]
  <2>1. CASE ffbfwt(b)
    BY <2>1, WriteKeepsMarks
  <2>2. CASE UNCHANGED <<filesize, dirty>>
    BY <2>2 DEF Inv, Shape, Marked
  <2> QED BY <1>1, <2>1, <2>2 DEF OnDisk
<1>6. \A x \in Buffers : bufrecnum'[x] # -1 /\ bufrecnum'[x] >= filesize' => dirty'[x]
  BY <1>2, <1>5
<1> HIDE DEF S
<1> QED BY <1>2, <1>3, <1>4, <1>5, <1>6, DropKeeps

(* No buffer holds a record that a direct write reaches when it begins.    *)
LEMMA ReachIsEmpty ==
  ASSUME Inv, op = "put", Pending = {},
         NEW b \in Buffers, bufrecnum[b] \in Record(pos) - 1..Record(pos + todo - 1)
  PROVE  FALSE
BY DEF Pending, Reached

LEMMA WriteDirectKeeps == ASSUME WriteInv, WriteDirect PROVE Inv'
<1>0. Inv /\ todo >= 1
  BY DEF WriteInv, AtDrop, WriteDirect
<1> DEFINE whole == (todo - 1) \div IOBUFLEN
           end == pos + Start(whole)
           last == Record(pos + todo - 1)
<1>1. /\ op = "put" /\ Pending = {}
      /\ filesize' = IF end >= Start(filesize) THEN Record(end) ELSE filesize
      /\ dirty' = [dirty EXCEPT ![curbuf] = TRUE]
      /\ bufrecnum' = [bufrecnum EXCEPT ![curbuf] = last]
      /\ pos' = pos + todo /\ todo' = 0
      /\ UNCHANGED <<curbuf, ageindex>>
  BY DEF WriteDirect
<1>2. end \in Int /\ last \in Int /\ pos \in Int /\ todo \in Int /\ filesize \in Int
  <2>1. pos \in Int /\ todo \in Int /\ filesize \in Int
    BY <1>0 DEF Inv, Shape
  <2>2. whole \in Int
    BY <2>1, BufferAssumption
  <2>3. Start(whole) \in Int
    BY <2>2, Arithmetic
  <2>4. pos + todo - 1 \in Int
    BY <2>1
  <2>5. end \in Int
    BY <2>1, <2>3
  <2>6. last \in Int
    BY <2>4, Arithmetic
  <2> HIDE DEF end, last
  <2> QED BY <2>1, <2>5, <2>6
<1> HIDE DEF end, last
<1>3. filesize' \in Int /\ filesize' >= filesize
  BY <1>1, <1>2, Arithmetic, RecordOfStart
<1>4. Shape' /\ EachAge'
  BY <1>0, <1>1, <1>2, <1>3 DEF Inv, Shape, EachAge, Buffers
<1>5. \A b \in Buffers : bufrecnum'[b] = IF b = curbuf THEN last ELSE bufrecnum[b]
  BY <1>0, <1>1 DEF Inv, Shape
<1>6. OneBuffer'
  <2>1. Record(pos) - 1 <= last
    <3>1. Record(pos) \in Int /\ Record(pos) <= last
      BY <1>0, <1>2, RecordGrows DEF last
    <3> QED BY <1>2, <3>1
  <2>2. last \in Record(pos) - 1..Record(pos + todo - 1)
    BY <1>2, <2>1, Arithmetic DEF last
  <2>3. \A b \in Buffers : bufrecnum[b] # last
    BY <1>0, <1>1, <2>2, ReachIsEmpty
  <2> SUFFICES ASSUME NEW b \in Buffers, NEW c \in Buffers,
                      bufrecnum'[b] = bufrecnum'[c], bufrecnum'[b] # -1
               PROVE  b = c
    BY DEF OneBuffer, Buffers
  <2> QED BY <1>0, <1>5, <2>3 DEF Inv, OneBuffer
<1>7. Marked'
  <2> SUFFICES ASSUME NEW b \in Buffers, bufrecnum'[b] # -1, bufrecnum'[b] >= filesize'
               PROVE  dirty'[b]
    BY DEF Marked, Buffers
  <2>1. CASE b = curbuf
    BY <1>0, <1>1, <2>1 DEF Inv, Shape
  <2>2. CASE b # curbuf
    <3>1. bufrecnum[b] \in Int /\ bufrecnum[b] # -1 /\ bufrecnum[b] >= filesize'
      BY <1>0, <1>5, <2>2 DEF Inv, Shape
    <3>2. bufrecnum[b] >= filesize
      BY <1>2, <1>3, <3>1
    <3>3. dirty[b]
      BY <1>0, <3>1, <3>2 DEF Inv, Marked
    <3> QED BY <1>0, <1>1, <2>2, <3>3 DEF Inv, Shape
  <2> QED BY <2>1, <2>2
<1> QED BY <1>0, <1>4, <1>6, <1>7 DEF Inv

LEMMA EndTruncateKeeps == ASSUME Inv, EndTruncate PROVE Inv'
<1> DEFINE S == {b \in Buffers : bufrecnum[b] >= Record(pos)}
<1>1. /\ filesize' = Record(pos)
      /\ bufrecnum' = [b \in Buffers |-> IF b \in S THEN -1 ELSE bufrecnum[b]]
      /\ UNCHANGED <<curbuf, ageindex, dirty, pos, todo>>
  BY DEF EndTruncate
<1>2. /\ filesize' \in Int /\ pos' \in Int /\ todo' \in Int
      /\ dirty' \in [Buffers -> BOOLEAN]
  BY <1>1, Arithmetic DEF Inv, Shape
<1>3. \A b \in Buffers : bufrecnum'[b] # -1 /\ bufrecnum'[b] >= filesize' => dirty'[b]
  BY <1>1
<1> HIDE DEF S
<1> QED BY <1>1, <1>2, <1>3, DropKeeps

LEMMA EndCloseKeeps == ASSUME Inv, EndClose PROVE Inv'
<1>1. /\ bufrecnum' = [b \in Buffers |-> IF b \in Buffers THEN -1 ELSE bufrecnum[b]]
      /\ UNCHANGED <<filesize, curbuf, ageindex, dirty, pos, todo>>
  BY DEF EndClose, OnDisk
<1>2. /\ filesize' \in Int /\ pos' \in Int /\ todo' \in Int
      /\ dirty' \in [Buffers -> BOOLEAN]
  BY <1>1 DEF Inv, Shape
<1>3. \A b \in Buffers : bufrecnum'[b] # -1 /\ bufrecnum'[b] >= filesize' => dirty'[b]
  BY <1>1
<1> QED BY <1>1, <1>2, <1>3, DropKeeps

-----------------------------------------------------------------------------
(* The remaining steps change nothing the invariant is about.              *)
LEMMA OthersKeep ==
  ASSUME Inv, Forgive \/ EndOfFile \/ ReadDirect \/ EndFlush \/ UNCHANGED vars PROVE Inv'
<1>1. UNCHANGED <<filesize, curbuf, bufrecnum, ageindex, dirty, pos, todo>>
  <2>1. CASE Forgive
    BY <2>1 DEF Forgive, OnDisk, Cache, Call
  <2>2. CASE EndOfFile
    BY <2>2 DEF EndOfFile, OnDisk, Cache
  <2>3. CASE ReadDirect
    BY <2>3 DEF ReadDirect, Cache
  <2>4. CASE EndFlush
    BY <2>4 DEF EndFlush, OnDisk, Cache
  <2>5. CASE UNCHANGED vars
    BY <2>5 DEF vars, OnDisk, Cache, Call
  <2> QED BY <2>1, <2>2, <2>3, <2>4, <2>5
<1>2. pos' \in Int /\ todo' \in Int /\ dirty' \in [Buffers -> BOOLEAN]
  BY <1>1 DEF Inv, Shape
<1> QED BY <1>1, <1>2, OnlyMarks

LEMMA CallsKeep ==
  ASSUME Inv,
         \/ \E p \in Places, n \in Lengths : Put(p, n) \/ Get(p, n)
         \/ Flush \/ Close \/ \E r \in 0..MaxRecords : Truncate(r)
  PROVE  Inv'
<1>1. ASSUME NEW p \in Places, NEW n \in Lengths, Put(p, n) \/ Get(p, n) PROVE Inv'
  <2>1. p \in Int /\ n \in Int
    BY BufferAssumption
  <2>2. \E o, st : Begin(o, st, p, n)
    BY <1>1 DEF Put, Get
  <2> QED BY <2>1, <2>2, BeginKeeps
<1>2. CASE Flush \/ Close
  <2>1. \E o, st : Begin(o, st, 0, 0)
    BY <1>2 DEF Flush, Close
  <2> QED BY <2>1, BeginKeeps
<1>3. ASSUME NEW r \in 0..MaxRecords, Truncate(r) PROVE Inv'
  <2>1. Start(r) \in Int
    BY BufferAssumption, Arithmetic
  <2>2. \E o, st : Begin(o, st, Start(r), 0)
    BY <1>3 DEF Truncate
  <2> QED BY <2>1, <2>2, BeginKeeps
<1> QED BY <1>1, <1>2, <1>3

(* Counting round n places comes back to 0.                                *)
LEMMA Wraps ==
  ASSUME NEW n \in Nat, n > 0, NEW k \in 0..n
  PROVE  k % n = IF k = n THEN 0 ELSE k
<1> DEFINE q == k \div n
           r == k % n
<1>1. q \in Int /\ r \in 0..n - 1 /\ k = (n * q) + r
  OBVIOUS
<1>2. q <= 1
  <2>1. q >= 2 => n * q >= n * 2
    BY <1>1
  <2> QED BY <1>1, <2>1
<1>3. q >= 0
  <2>1. q <= -1 => n * q <= -n
    BY <1>1
  <2> QED BY <1>1, <2>1
<1>4. CASE q = 0
  <2>1. n * q = 0
    BY <1>4
  <2> QED BY <1>1, <2>1
<1>5. CASE q = 1
  <2>1. n * q = n
    BY <1>5
  <2> QED BY <1>1, <2>1
<1>6. q = 0 \/ q = 1
  BY <1>1, <1>2, <1>3
<1> QED BY <1>4, <1>5, <1>6

LEMMA InitHolds == ASSUME Init PROVE Inv
<1>1. NIOBUF \in Nat /\ NIOBUF > 0
  BY BufferAssumption
<1>2. Shape
  <2>1. filesize \in Int /\ pos \in Int /\ todo \in Int /\ curbuf \in Buffers
    BY <1>1 DEF Init, Buffers
  <2>2. bufrecnum \in [Buffers -> Int]
    BY DEF Init
  <2>3. dirty \in [Buffers -> BOOLEAN]
    BY DEF Init
  <2>4. ageindex \in [Buffers -> Buffers]
    BY <1>1 DEF Init, Buffers
  <2> QED BY <2>1, <2>2, <2>3, <2>4 DEF Shape
<1>3. OneBuffer
  BY DEF Init, OneBuffer
<1>4. EachAge
  <2>1. ASSUME NEW i \in Buffers PROVE ageindex[i] = IF i = NIOBUF - 1 THEN 0 ELSE i + 1
    <3>1. ageindex[i] = (i + 1) % NIOBUF
      BY DEF Init
    <3>2. i + 1 \in 0..NIOBUF
      BY <1>1 DEF Buffers
    <3>3. (i + 1) % NIOBUF = IF i + 1 = NIOBUF THEN 0 ELSE i + 1
      <4> DEFINE k == i + 1
      <4>1. k \in 0..NIOBUF
        BY <3>2
      <4> HIDE DEF k
      <4>2. k % NIOBUF = IF k = NIOBUF THEN 0 ELSE k
        BY <1>1, <4>1, Wraps
      <4> QED BY <4>2 DEF k
    <3>4. i + 1 = NIOBUF <=> i = NIOBUF - 1
      BY <1>1 DEF Buffers
    <3> QED BY <3>1, <3>3, <3>4
  <2> QED BY <1>1, <2>1 DEF EachAge, Buffers
<1>5. Marked
  <2> SUFFICES ASSUME NEW b \in Buffers, bufrecnum[b] # -1, bufrecnum[b] >= filesize
               PROVE  dirty[b]
    BY DEF Marked
  <2>1. bufrecnum[b] = IF b = 0 THEN 0 ELSE -1
    BY DEF Init
  <2>2. filesize \in 0..2
    BY DEF Init
  <2>3. b = 0 /\ filesize = 0
    BY <2>1, <2>2
  <2>4. dirty = [x \in Buffers |-> x = 0 /\ filesize = 0]
    BY DEF Init
  <2> QED BY <2>3, <2>4, Zenon
<1> QED BY <1>2, <1>3, <1>4, <1>5 DEF Inv

-----------------------------------------------------------------------------
(* A position is not before its record.                                    *)
LEMMA RecordIsBefore == \A p \in Int : p >= Start(Record(p))
<1> SUFFICES ASSUME NEW p \in Int PROVE p >= Start(Record(p))
  OBVIOUS
<1> DEFINE L == IOBUFLEN
           q == p \div L
<1>1. L \in Nat /\ L > 0
  BY BufferAssumption
<1>2. q \in Int /\ p = (L * q) + (p % L) /\ p % L \in 0..L - 1
  BY <1>1
<1>3. p >= q * L
  BY <1>1, <1>2
<1> QED BY <1>3 DEF Record, Start

(* A call begins to fill the current buffer only within it.                *)
LEMMA PutBegins ==
  ASSUME Inv, NEW p \in Places, NEW n \in Lengths, Put(p, n)
  PROVE  AtFill' /\ AtDrop'
<1>1. p \in Int /\ n \in Int /\ MINDIRECT \in Int
  BY BufferAssumption
<1>2. PICK st : Begin("put", st, p, n)
  BY DEF Put
<1>3. stage' = st /\ pos' = p /\ todo' = n /\ UNCHANGED <<curbuf, bufrecnum>>
  BY <1>2 DEF Begin, Cache
<1>4. bufrecnum[curbuf] \in Int /\ Start(bufrecnum[curbuf]) \in Int
  BY Arithmetic DEF Inv, Shape
<1>5. AtFill'
  <2> SUFFICES ASSUME stage' = "fill" PROVE todo' >= MINDIRECT /\ Offset' >= 0
    BY DEF AtFill
  <2>1. CASE AtRecord(Record(p)) /\ Begin("put", Ready(n), p, n)
    <3>1. n >= MINDIRECT
      BY <2>1 DEF Begin, Ready
    <3>2. Offset' = p - Start(Record(p))
      BY <1>3, <2>1 DEF Offset, AtRecord
    <3>3. Start(Record(p)) \in Int /\ p >= Start(Record(p))
      BY <1>1, Arithmetic, RecordIsBefore
    <3> QED BY <1>1, <1>3, <3>1, <3>2, <3>3
  <2>2. CASE InPlace /\ bytepos = p /\ Begin("put", Ready(n), p, n)
    <3>1. n >= MINDIRECT
      BY <2>2 DEF Begin, Ready
    <3>2. Offset' = p - Start(bufrecnum[curbuf])
      BY <1>3 DEF Offset
    <3>3. p - Start(bufrecnum[curbuf]) >= 0
      BY <1>1, <1>4, <2>2, BufferAssumption DEF InPlace
    <3> QED BY <1>3, <3>1, <3>2, <3>3
  <2>3. CASE Begin("put", "move", p, n)
    BY <2>3 DEF Begin
  <2> QED BY <2>1, <2>2, <2>3 DEF Put
<1>6. AtDrop'
  BY <1>1, <1>3, BufferAssumption DEF AtDrop
<1> QED BY <1>5, <1>6

(* So does the load of the first record.                                   *)
LEMMA TouchLeads ==
  ASSUME Inv, NEW i \in Buffers, Touch(i), Loading, UNCHANGED <<pos, todo>>,
         bufrecnum'[curbuf'] = Wanted
  PROVE  AtFill' /\ AtDrop'
<1>1. pos \in Int /\ todo \in Int /\ MINDIRECT \in Int
  BY BufferAssumption DEF Inv, Shape
<1>2. CASE stage' = "fill"
  <2>1. stage' = Ready(todo) \/ stage' \in {"copy", "done"}
    BY DEF Touch, Done
  <2>2. todo >= MINDIRECT
    BY <1>2, <2>1 DEF Ready
  <2>3. Offset' = pos - Start(Record(pos))
    BY DEF Offset, Wanted
  <2>4. Start(Record(pos)) \in Int /\ pos >= Start(Record(pos))
    BY <1>1, Arithmetic, RecordIsBefore
  <2> QED BY <1>1, <1>2, <2>2, <2>3, <2>4 DEF AtFill, AtDrop
<1>3. CASE stage' # "fill"
  <2>1. stage' # "drop"
    BY DEF Touch, Done, Ready
  <2> QED BY <1>3, <2>1 DEF AtFill, AtDrop
<1> QED BY <1>2, <1>3

LEMMA LoadsLead == ASSUME Inv, Hit \/ Extend \/ Load PROVE AtFill' /\ AtDrop'
<1>0. 0 \in Buffers
  BY BufferAssumption DEF Buffers
<1>1. CASE Hit
  <2>1. PICK i \in Buffers : bufrecnum[ageindex[i]] = Wanted /\ Touch(i)
    BY <1>1 DEF Hit
  <2>2. Loading /\ UNCHANGED <<bufrecnum, pos, todo>>
    BY <1>1 DEF Hit
  <2>3. curbuf' = ageindex[i]
    BY <2>1 DEF Touch
  <2> QED BY <2>1, <2>2, <2>3, TouchLeads
<1>2. CASE Extend \/ Load
  <2>1. /\ Loading /\ Touch(0) /\ UNCHANGED <<pos, todo>>
        /\ bufrecnum' = [bufrecnum EXCEPT ![Victim] = Wanted]
    BY <1>2 DEF Extend, Load
  <2>2. curbuf' = Victim /\ Victim \in Buffers
    BY <1>0, <2>1 DEF Touch, Victim, Inv, Shape
  <2>3. bufrecnum'[curbuf'] = Wanted
    BY <2>1, <2>2 DEF Inv, Shape
  <2> QED BY <1>0, <2>1, <2>3, TouchLeads
<1> QED BY <1>1, <1>2

(* Filling the buffer up leaves most of the cells to write.                *)
LEMMA FillUpLeads == ASSUME WriteInv, FillUp PROVE AtFill' /\ AtDrop'
<1>1. stage = "fill" /\ stage' = "drop" /\ todo' = todo - (IOBUFLEN - Offset)
  BY DEF FillUp
<1>2. todo >= MINDIRECT /\ Offset >= 0
  BY <1>1 DEF WriteInv, AtFill
<1>3. todo \in Int /\ Offset \in Int
  BY OffsetIsInt DEF WriteInv, Inv, Shape
<1>4. todo' >= 1
  BY <1>1, <1>2, <1>3, BufferAssumption
<1> QED BY <1>1, <1>4 DEF AtFill, AtDrop

(* The other steps do not come to fill, and keep what is left to write.    *)
LEMMA OthersLead ==
  ASSUME WriteInv,
         \/ Forgive \/ EndOfFile \/ Evict \/ CopyIn \/ CopyOut \/ WriteBack \/ WriteDirect
         \/ ReadDirect \/ EndFlush \/ EndClose \/ EndTruncate \/ UNCHANGED vars
  PROVE  AtFill' /\ AtDrop'
<1>1. CASE Forgive \/ UNCHANGED vars
  <2>1. UNCHANGED <<stage, op, todo, pos, curbuf, bufrecnum>>
    BY <1>1 DEF Forgive, vars, Call, Cache
  <2> QED BY <2>1 DEF WriteInv, AtFill, AtDrop, Offset
<1>2. CASE Evict \/ WriteBack
  <2>1. UNCHANGED <<stage, op, todo>> /\ stage \in {"move", "load", "drop"}
    BY <1>2 DEF Evict, WriteBack, Call, Loading
  <2> QED BY <2>1 DEF WriteInv, AtFill, AtDrop
<1>3. CASE EndOfFile \/ WriteDirect \/ ReadDirect \/ EndFlush \/ EndClose \/ EndTruncate
  <2>1. stage' = "done"
    BY <1>3 DEF EndOfFile, WriteDirect, ReadDirect, EndFlush, EndClose, EndTruncate, Done
  <2> QED BY <2>1 DEF AtFill, AtDrop
<1>4. CASE CopyIn \/ CopyOut
  <2>1. stage' \in {"done", "load"}
    BY <1>4 DEF CopyIn, CopyOut, Advance, Done
  <2> QED BY <2>1 DEF AtFill, AtDrop
<1> QED BY <1>1, <1>2, <1>3, <1>4

LEMMA CallsLead ==
  ASSUME Inv,
         \/ \E p \in Places, n \in Lengths : Put(p, n) \/ Get(p, n)
         \/ Flush \/ Close \/ \E r \in 0..MaxRecords : Truncate(r)
  PROVE  AtFill' /\ AtDrop'
<1>1. ASSUME NEW p \in Places, NEW n \in Lengths, Get(p, n) PROVE AtFill' /\ AtDrop'
  <2>1. op' = "get" /\ stage' \in {"drop", "copy", "move"}
    BY <1>1 DEF Get, Begin
  <2> QED BY <2>1 DEF AtFill, AtDrop
<1>2. CASE Flush \/ Close \/ \E r \in 0..MaxRecords : Truncate(r)
  <2>1. op' # "put" /\ stage' = "drop"
    BY <1>2 DEF Flush, Close, Truncate, Begin
  <2> QED BY <2>1 DEF AtFill, AtDrop
<1> QED BY <1>1, <1>2, PutBegins

-----------------------------------------------------------------------------
(* Every step keeps the invariant.                                         *)
LEMMA WriteInvKept == WriteInv /\ [Next]_vars => WriteInv'
<1> SUFFICES ASSUME WriteInv, [Next]_vars PROVE WriteInv'
  OBVIOUS
<1>0. Inv
  BY DEF WriteInv
<1>1. CASE Hit \/ Extend \/ Load
  BY <1>0, <1>1, HitKeeps, ExtendKeeps, LoadKeeps, LoadsLead DEF WriteInv
<1>2. CASE FillUp
  BY <1>0, <1>2, FillUpKeeps, FillUpLeads DEF WriteInv
<1>3. CASE Evict \/ CopyIn \/ CopyOut \/ WriteBack
  BY <1>0, <1>3, EvictKeeps, CopyInKeeps, CopyOutKeeps, WriteBackKeeps, OthersLead DEF WriteInv
<1>4. CASE WriteDirect
  <2>1. Inv'
    BY <1>4, WriteDirectKeeps
  <2> QED BY <1>4, <2>1, OthersLead DEF WriteInv
<1>5. CASE EndClose \/ EndTruncate
  BY <1>0, <1>5, EndCloseKeeps, EndTruncateKeeps, OthersLead DEF WriteInv
<1>6. CASE Forgive \/ EndOfFile \/ ReadDirect \/ EndFlush \/ UNCHANGED vars
  BY <1>0, <1>6, OthersKeep, OthersLead DEF WriteInv
<1>7. CASE \/ \E p \in Places, n \in Lengths : Put(p, n) \/ Get(p, n)
           \/ Flush \/ Close \/ \E r \in 0..MaxRecords : Truncate(r)
  BY <1>0, <1>7, CallsKeep, CallsLead DEF WriteInv
<1> QED BY <1>1, <1>2, <1>3, <1>4, <1>5, <1>6, <1>7 DEF Next, Step

(* ffldrc, ffbfwt, the direct calls, ffflsh, ffclos and fftrun never put a *)
(* record of the file in two buffers, never lose a buffer from the order   *)
(* of ages, and leave no record past the end of the file unmarked.         *)
THEOREM RecordsAreOnce == Spec => []RecordsOnce
<1>1. Init => WriteInv
  BY InitHolds DEF WriteInv, Init, AtFill, AtDrop
<1>2. WriteInv /\ [Next]_vars => WriteInv'
  BY WriteInvKept
<1>3. WriteInv => RecordsOnce
  BY Parts DEF WriteInv, Inv
<1> QED BY <1>1, <1>2, <1>3, PTL DEF Spec
=============================================================================
