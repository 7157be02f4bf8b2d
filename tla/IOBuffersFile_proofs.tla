---------------------- MODULE IOBuffersFile_proofs ----------------------
(***************************************************************************)
(* For every number and size of buffers and every size of the file: the    *)
(* buffers of CFITSIO are a plain file to the routines above them, whatever*)
(* was evicted, written directly or cut, until the system refuses anything.*)
(* The invariant has the types, what a call going on has left to do, and   *)
(* how the buffers, the marks and the file fit together.                   *)
(***************************************************************************)
EXTENDS IOBuffers_proofs, FiniteSetTheorems, SequenceTheorems

(* The file, and where the stream is.                                      *)
DiskSizes ==
    /\ Size \in Nat /\ disk \in [0..Size - 1 -> Data] /\ sure \in Nat
    /\ ospos \in Nat /\ io_pos \in Nat
    /\ filesize \in Nat /\ filesize <= logfilesize

(* The records in the buffers.                                             *)
Sizes ==
    /\ logfilesize \in Nat /\ logfilesize <= MaxRecords
    /\ \A b \in Buffers : /\ bufrecnum[b] >= -1 /\ bufrecnum[b] < logfilesize
                          /\ dirty[b] => bufrecnum[b] >= 0

Values ==
    /\ iobuffer \in [Buffers -> [Offsets -> Data]]
    /\ bytepos \in Nat
    /\ status \in {"ok", "END_OF_FILE", "READ_ERROR", "WRITE_ERROR", "FILE_NOT_CLOSED"}
    /\ got \in Seq(Data) /\ answer \in Seq(Data)
    /\ calls \in Nat /\ calls <= MaxCalls /\ lost \in BOOLEAN

(* What a call going on has left to do.                                    *)
Transfer == op \in {"put", "get"} /\ stage \in {"move", "load", "copy", "fill", "drop"}
InCall ==
    /\ pos \in Nat /\ todo \in Nat
    /\ \/ op \in {"idle", "closed"} /\ stage = "done"
       \/ op \in {"flush", "close"} /\ stage = "drop"
       \/ op = "truncate" /\ stage = "drop" /\ \E r \in 0..logfilesize : pos = Start(r)
       \/ Transfer /\ todo >= 1 /\ pos + todo <= Start(MaxRecords)
    /\ stage = "fill" => op = "put"
    /\ stage \in {"copy", "fill"} => bufrecnum[curbuf] >= 0 /\ Offset >= 0 /\ Offset <= IOBUFLEN
    /\ stage = "drop" /\ op = "put" => pos = Start(Record(pos)) /\ bufrecnum[curbuf] \in {-1, Record(pos) - 1}

Rest == DiskSizes /\ Sizes /\ Values /\ InCall
Types == WriteInv /\ Rest

(* Nothing has failed, but for a read past the end that is over.           *)
Sound == ~lost /\ status # "READ_ERROR" /\ (status = "ok" \/ op = "idle")

Statuses == ~lost => /\ status # "WRITE_ERROR"
                     /\ status # "ok" => op \in {"idle", "close", "closed"}

(* Record r is still to be written.                                        *)
Due(r) == \E b \in Buffers : bufrecnum[b] = r /\ dirty[b]

Position == ospos = io_pos /\ Size = Start(filesize)
Clean == \A c \in Cells : Record(c) < filesize /\ ~Due(Record(c)) => disk[c] = CellAt(c)
Last == logfilesize > filesize => Cached(logfilesize - 1)
Collected ==
    op = "get" /\ stage \in {"move", "load", "copy"} =>
        \E p \in 0..pos : /\ p + Len(got) = pos
                          /\ \A c \in p..pos - 1 : got[c - p + 1] = CellAt(c)
Unanswered ==
    /\ op # "idle" => answer = <<>>
    /\ op = "get" /\ stage = "drop" => got = <<>>

(* A direct write begins on the file or where it ends.                     *)
Adjoins == stage = "drop" /\ op = "put" /\ bufrecnum[curbuf] = -1 => filesize >= Record(pos)

Fit == Position /\ Clean /\ Last /\ Adjoins /\ Collected /\ Unanswered
Coherent == Sound => Fit
FileInv == Types /\ Statuses /\ Coherent

-----------------------------------------------------------------------------
(* Records and positions.                                                  *)

(* A position lies within its record, and only there.                      *)
LEMMA RecordOf ==
  \A p \in Int : /\ Record(p) \in Int
                 /\ Start(Record(p)) <= p /\ p < Start(Record(p)) + IOBUFLEN
                 /\ p >= 0 => Record(p) >= 0
<1> SUFFICES ASSUME NEW p \in Int
             PROVE  /\ Record(p) \in Int
                    /\ Start(Record(p)) <= p /\ p < Start(Record(p)) + IOBUFLEN
                    /\ p >= 0 => Record(p) >= 0
  OBVIOUS
<1> DEFINE L == IOBUFLEN
           q == p \div L
<1>1. L \in Nat /\ L > 0
  BY BufferAssumption
<1>2. q \in Int /\ p = (L * q) + (p % L) /\ p % L \in 0..L - 1
  BY <1>1
<1>3. q * L <= p /\ p < (q * L) + L
  BY <1>1, <1>2
<1>4. p >= 0 => q >= 0
  <2> SUFFICES ASSUME p >= 0, q <= -1 PROVE FALSE
    BY <1>2
  <2>1. q * L <= (-1) * L
    BY <1>1, <1>2
  <2> QED BY <1>1, <1>3, <2>1
<1> QED BY <1>2, <1>3, <1>4 DEF Record, Start

(* The starts of records are IOBUFLEN cells apart.                         *)
LEMMA StartIs == (\A r \in Int : Start(r) \in Int) /\ Start(0) = 0
<1>1. IOBUFLEN \in Nat /\ IOBUFLEN > 0
  BY BufferAssumption
<1>2. 0 * IOBUFLEN = 0
  BY <1>1
<1>3. \A r \in Int : r * IOBUFLEN \in Int
  BY <1>1
<1> QED BY <1>2, <1>3, Zenon DEF Start

(* A record is followed by the next.                                       *)
LEMMA StartNext == \A r \in Int : Start(r + 1) = Start(r) + IOBUFLEN
  BY BufferAssumption DEF Start

(* Starting cells add up.                                                  *)
LEMMA StartAdd == \A r, s \in Int : Start(r + s) = Start(r) + Start(s)
  BY BufferAssumption DEF Start

(* A record ends before a later one starts.                                *)
LEMMA StartOrder ==
  /\ \A r, s \in Int : r < s => Start(r) + IOBUFLEN <= Start(s)
  /\ \A r, s \in Int : r <= s => Start(r) <= Start(s)
<1> DEFINE L == IOBUFLEN
<1>1. L \in Nat /\ L > 0
  BY BufferAssumption
<1>2. \A r \in Int : r * L \in Int /\ (r + 1) * L = (r * L) + L
  BY <1>1
<1>4. ASSUME NEW r \in Int, NEW s \in Int, r < s PROVE (r * L) + L <= s * L
  <2>1. r + 1 <= s
    BY <1>4
  <2>2. (r + 1) * L <= s * L
    BY <1>1, <2>1
  <2> QED BY <1>2, <2>2
<1>5. ASSUME NEW r \in Int, NEW s \in Int, r <= s PROVE r * L <= s * L
  BY <1>1, <1>5
<1> HIDE DEF L
<1> QED BY <1>4, <1>5 DEF Start, L

(* A cell between the ends of a record is that record's.                   *)
LEMMA RecordIs ==
  \A p, r \in Int : Start(r) <= p /\ p < Start(r) + IOBUFLEN => Record(p) = r
<1> SUFFICES ASSUME NEW p \in Int, NEW r \in Int, Start(r) <= p, p < Start(r) + IOBUFLEN
             PROVE  Record(p) = r
  OBVIOUS
<1>0. IOBUFLEN \in Nat /\ IOBUFLEN > 0
  BY BufferAssumption
<1> DEFINE q == Record(p)
<1>1. q \in Int /\ Start(q) <= p /\ p < Start(q) + IOBUFLEN
  BY RecordOf
<1> HIDE DEF q
<1>2. Start(q) \in Int /\ Start(r) \in Int
  BY <1>1, StartIs
<1>3. ~(q < r)
  BY <1>0, <1>1, <1>2, StartOrder
<1>4. ~(r < q)
  BY <1>0, <1>1, <1>2, StartOrder
<1> QED BY <1>1, <1>3, <1>4 DEF q

(* Records are in the order of their cells.                                *)
LEMMA RecordOrder ==
  /\ \A p, r \in Int : Record(p) < r <=> p < Start(r)
  /\ \A p, q \in Int : p <= q => Record(p) <= Record(q)
  /\ \A r \in Int : Record(Start(r)) = r
<1>0. IOBUFLEN \in Nat /\ IOBUFLEN > 0
  BY BufferAssumption
<1>1. ASSUME NEW p \in Int, NEW r \in Int PROVE Record(p) < r <=> p < Start(r)
  <2> DEFINE q == Record(p)
  <2>1. q \in Int /\ Start(q) <= p /\ p < Start(q) + IOBUFLEN
    BY RecordOf
  <2> HIDE DEF q
  <2>2. Start(q) \in Int /\ Start(r) \in Int
    BY <2>1, StartIs
  <2>3. q < r => p < Start(r)
    BY <1>0, <2>1, <2>2, StartOrder
  <2>4. r <= q => Start(r) <= p
    BY <1>0, <2>1, <2>2, StartOrder
  <2> QED BY <2>1, <2>2, <2>3, <2>4 DEF q
<1>2. ASSUME NEW p \in Int, NEW q \in Int, p <= q PROVE Record(p) <= Record(q)
  <2>1. Record(p) \in Int /\ Record(q) \in Int /\ Start(Record(p)) \in Int /\ Start(Record(p)) <= p
    BY RecordOf, StartIs
  <2>2. ~(q < Start(Record(p)))
    BY <1>2, <2>1
  <2> QED BY <1>1, <2>1, <2>2
<1>3. ASSUME NEW r \in Int PROVE Record(Start(r)) = r
  BY <1>0, StartIs, RecordIs
<1> QED BY <1>1, <1>2, <1>3

(* What is written in a row has a size.                                    *)
LEMMA RowSize ==
  ASSUME NEW f, NEW n \in Nat, DOMAIN f = 0..n - 1
  PROVE  Cardinality(DOMAIN f) = n
<1>1. Cardinality(0..n - 1) = IF 0 > n - 1 THEN 0 ELSE n - 1 - 0 + 1
  BY FS_Interval
<1> QED BY <1>1

-----------------------------------------------------------------------------
(* The view                                                                *)

(* The cell the routines above see, in any state.                          *)
ViewOf(recs, cells, size, file, c) ==
    IF \E b \in Buffers : recs[b] = Record(c)
    THEN cells[CHOOSE b \in Buffers : recs[b] = Record(c)][c - Start(Record(c))]
    ELSE IF Record(c) < size /\ c \in DOMAIN file THEN file[c] ELSE Fill

(* What the routines above see is a function of the cache and the file.    *)
LEMMA Views ==
  \A c : /\ CellAt(c) = ViewOf(bufrecnum, iobuffer, filesize, disk, c)
         /\ CellAt(c)' = ViewOf(bufrecnum', iobuffer', filesize', disk', c)
  BY Zenon DEF CellAt, Cached, ViewOf

Distinct(recs) == \A a, b \in Buffers : recs[a] = recs[b] /\ recs[a] # -1 => a = b

(* A cell whose record is in a buffer is that buffer's.                    *)
LEMMA ViewCached ==
  ASSUME NEW recs, NEW cells, NEW size, NEW file, NEW c, Distinct(recs),
         NEW b \in Buffers, recs[b] = Record(c), Record(c) # -1
  PROVE  ViewOf(recs, cells, size, file, c) = cells[b][c - Start(Record(c))]
<1> DEFINE a == CHOOSE x \in Buffers : recs[x] = Record(c)
<1>1. a \in Buffers /\ recs[a] = Record(c)
  BY Zenon
<1>2. a = b
  BY <1>1, Zenon DEF Distinct
<1>3. ViewOf(recs, cells, size, file, c) = cells[a][c - Start(Record(c))]
  BY Zenon DEF ViewOf
<1> QED BY <1>2, <1>3, Zenon

(* One whose record is in none is the file's, or fill beyond its end.      *)
LEMMA ViewUncached ==
  ASSUME NEW recs, NEW cells, NEW size, NEW file, NEW c,
         \A b \in Buffers : recs[b] # Record(c)
  PROVE  ViewOf(recs, cells, size, file, c)
           = IF Record(c) < size /\ c \in DOMAIN file THEN file[c] ELSE Fill
BY Zenon DEF ViewOf

-----------------------------------------------------------------------------
(* Rows of records                                                         *)

(* Every number below its size counts the elements of a finite set that    *)
(* are less than one of them.                                              *)
LEMMA NthIsThere ==
  ASSUME NEW S, S \subseteq Int, IsFiniteSet(S), NEW i \in Nat, i < Cardinality(S)
  PROVE  Nth(S, i) \in S
<1> DEFINE Before(r) == {q \in S : q < r}
           n == Cardinality(S)
           T == 0..n - 1
           f == [r \in S |-> Cardinality(Before(r))]
<1>1. n \in Nat /\ IsFiniteSet(T) /\ Cardinality(T) = n
  <2>1. n \in Nat
    BY FS_CardinalityType
  <2>2. IsFiniteSet(0..n - 1) /\ Cardinality(0..n - 1) = IF 0 > n - 1 THEN 0 ELSE n - 1 - 0 + 1
    <3>1. 0 \in Int /\ n - 1 \in Int
      BY <2>1
    <3> QED BY <3>1, FS_Interval, Zenon
  <2> QED BY <2>1, <2>2
<1>2. ASSUME NEW r \in S
      PROVE  IsFiniteSet(Before(r)) /\ Cardinality(Before(r)) \in Nat /\ Cardinality(Before(r)) < n
  <2> DEFINE B == Before(r)
  <2>1. B \subseteq S /\ B # S
    BY <1>2
  <2> HIDE DEF B
  <2>2. IsFiniteSet(B) /\ Cardinality(B) \in Nat /\ Cardinality(B) <= Cardinality(S) /\ Cardinality(B) # Cardinality(S)
    BY <2>1, FS_Subset, FS_CardinalityType
  <2> QED BY <1>1, <2>2 DEF B
<1>3. ASSUME NEW r \in S, NEW s \in S, r < s
      PROVE  Cardinality(Before(r)) # Cardinality(Before(s))
  <2> DEFINE A == Before(r)
             B == Before(s)
  <2>1. A \subseteq B /\ A # B
    <3>1. \A q \in S : q < r => q < s
      BY <1>3
    <3>2. r \in B /\ r \notin A
      BY <1>3
    <3> QED BY <3>1, <3>2
  <2>2. IsFiniteSet(B)
    BY <1>2
  <2> HIDE DEF A, B
  <2>3. Cardinality(A) # Cardinality(B)
    BY <2>1, <2>2, FS_Subset
  <2> QED BY <2>3 DEF A, B
<1>4. f \in [S -> T]
  BY <1>1, <1>2
<1>5. \A r, s \in S : f[r] = f[s] => r = s
  <2> SUFFICES ASSUME NEW r \in S, NEW s \in S, f[r] = f[s] PROVE r = s
    OBVIOUS
  <2>1. Cardinality(Before(r)) = Cardinality(Before(s))
    BY Zenon
  <2>2. r < s \/ s < r \/ r = s
    OBVIOUS
  <2> HIDE DEF Before
  <2> QED BY <1>3, <2>1, <2>2
<1>6. \A r \in S : f[r] = Cardinality({q \in S : q < r})
  OBVIOUS
<1> HIDE DEF f, T, n
<1>7. f \in Injection(S, T)
  BY <1>4, <1>5 DEF Injection, IsInjective
<1>8. f \in Surjection(S, T)
  BY <1>1, <1>7, FS_Injection DEF n
<1>9. i \in T
  BY <1>1 DEF T, n
<1>10. \E r \in S : f[r] = i
  BY <1>8, <1>9 DEF Surjection
<1>11. \E r \in S : Cardinality({q \in S : q < r}) = i
  BY <1>6, <1>10
<1> QED BY <1>11, Zenon DEF Nth

(* In a row of records without gaps it is the one that many after the first.*)
LEMMA NthOfInterval ==
  ASSUME NEW lo \in Int, NEW hi \in Int, NEW i \in Nat, lo + i <= hi
  PROVE  Nth(lo..hi, i) = lo + i
<1> DEFINE S == lo..hi
<1>1. ASSUME NEW r \in S PROVE Cardinality({q \in S : q < r}) = r - lo
  <2>1. {q \in S : q < r} = lo..r - 1
    BY <1>1
  <2>2. Cardinality(lo..r - 1) = IF lo > r - 1 THEN 0 ELSE r - 1 - lo + 1
    BY <1>1, FS_Interval
  <2>3. Cardinality(lo..r - 1) = r - lo
    BY <1>1, <2>2
  <2> QED BY <2>1, <2>3, Zenon
<1>2. lo + i \in S /\ \A r \in S : r - lo = i => r = lo + i
  OBVIOUS
<1> HIDE DEF S
<1>3. Cardinality({q \in S : q < lo + i}) = i
  <2>1. Cardinality({q \in S : q < lo + i}) = lo + i - lo
    BY <1>1, <1>2
  <2> QED BY <2>1
<1> DEFINE m == Nth(S, i)
<1>4. m \in S /\ Cardinality({q \in S : q < m}) = i
  BY <1>2, <1>3, Zenon DEF Nth
<1> HIDE DEF m
<1>5. m - lo = i
  BY <1>1, <1>4
<1> QED BY <1>2, <1>4, <1>5 DEF m, S

(* The file after a row of n cells is written at p.                        *)
SizeAfter(p, n) == IF n = 0 THEN Size ELSE Larger(Size, p + n)

(* A write past the end leaves fill in the gap, and cells everywhere.      *)
LEMMA WrittenIs ==
  ASSUME Size \in Nat, disk \in [0..Size - 1 -> Data], Fill \in Data,
         NEW p \in Nat, NEW n \in Nat, NEW row \in [0..n - 1 -> Data]
  PROVE  /\ SizeAfter(p, n) \in Nat /\ SizeAfter(p, n) >= Size
         /\ n = 0 \/ SizeAfter(p, n) >= p + n
         /\ \A m \in Nat : m >= Size /\ (n > 0 => m >= p + n) => SizeAfter(p, n) <= m
         /\ Written(p, n, row) \in [0..SizeAfter(p, n) - 1 -> Data]
         /\ \A c \in 0..SizeAfter(p, n) - 1 :
               Written(p, n, row)[c] = IF p <= c /\ c < p + n THEN row[c - p]
                                       ELSE IF c < Size THEN disk[c] ELSE Fill
<1>1. CASE n = 0
  BY <1>1 DEF SizeAfter, Written
<1>2. CASE n > 0
  <2> DEFINE m == SizeAfter(p, n)
  <2>1. m = Larger(Size, p + n) /\ m \in Nat /\ m >= Size /\ m >= p + n /\ m \in {Size, p + n}
    BY <1>2 DEF SizeAfter, Larger
  <2>2. Written(p, n, row) = [c \in 0..m - 1 |->
              IF p <= c /\ c < p + n THEN row[c - p] ELSE IF c < Size THEN disk[c] ELSE Fill]
    BY <1>2, <2>1 DEF Written
  <2> HIDE DEF m
  <2>3. ASSUME NEW c \in 0..m - 1
        PROVE  (IF p <= c /\ c < p + n THEN row[c - p] ELSE IF c < Size THEN disk[c] ELSE Fill) \in Data
    BY <2>1
  <2>4. Written(p, n, row) \in [0..m - 1 -> Data]
    BY <2>2, <2>3
  <2>5. \A c \in 0..m - 1 :
              Written(p, n, row)[c] = IF p <= c /\ c < p + n THEN row[c - p]
                                      ELSE IF c < Size THEN disk[c] ELSE Fill
    BY <2>2
  <2> QED BY <1>2, <2>1, <2>4, <2>5 DEF m
<1> QED BY <1>1, <1>2

-----------------------------------------------------------------------------
(* The types of the variables                                              *)

(* What the assumption on the constants says, taken apart.                 *)
LEMMA Bounds ==
  /\ MaxRecords \in Nat /\ MaxRecords >= 1
  /\ IOBUFLEN \in Nat /\ IOBUFLEN > 0
  /\ MINDIRECT \in Nat /\ MINDIRECT >= 3 * IOBUFLEN
  /\ Fill \in Data /\ Old \in Data
  /\ \A n \in Nat : n <= MaxCalls => n \in Data
BY BufferAssumption DEF Data, Old, Fill

(* A cell has its place within its record.                                 *)
LEMMA OffsetOf == \A c \in Int : c - Start(Record(c)) \in Offsets
<1> SUFFICES ASSUME NEW c \in Int PROVE c - Start(Record(c)) \in Offsets
  OBVIOUS
<1>1. /\ Record(c) \in Int /\ Start(Record(c)) <= c /\ c < Start(Record(c)) + IOBUFLEN
  BY RecordOf
<1>2. Start(Record(c)) \in Int
  BY <1>1, StartIs
<1> QED BY <1>1, <1>2, Bounds DEF Offsets

(* The cells the routines above see are cells.                             *)
LEMMA CellIsData ==
  ASSUME DiskSizes, Values, NEW c \in Int
  PROVE  CellAt(c) \in Data
<1> DEFINE o == c - Start(Record(c))
<1>1. o \in Offsets
  BY OffsetOf
<1>2. CASE Cached(Record(c))
  <2> DEFINE b == CHOOSE x \in Buffers : bufrecnum[x] = Record(c)
  <2>1. b \in Buffers
    BY <1>2, Zenon DEF Cached
  <2>2. CellAt(c) = iobuffer[b][o]
    BY <1>2, Zenon DEF CellAt
  <2> HIDE DEF b, o
  <2> QED BY <1>1, <2>1, <2>2 DEF Values
<1>3. CASE ~Cached(Record(c))
  <2>1. CellAt(c) = IF Record(c) < filesize /\ c \in DOMAIN disk THEN disk[c] ELSE Fill
    BY <1>3, Zenon DEF CellAt
  <2>2. c \in DOMAIN disk => disk[c] \in Data
    BY DEF DiskSizes
  <2> QED BY <2>1, <2>2, Bounds
<1> QED BY <1>2, <1>3

(* Where the stream is after a seek, that may have failed.                 *)
LEMMA SeekTypes ==
  ASSUME DiskSizes, NEW p \in Nat, NEW missed
  PROVE  Sought(p, missed) \in Nat
BY DEF Sought, SeekTo, DiskSizes

(* Whether a seek failed is told by what was refused.                      *)
LEMMA NotMissed ==
  ASSUME NEW p, NEW missed \in Misses(p)
  PROVE  missed \in BOOLEAN /\ (~missed => Sought(p, missed) = SeekTo(p))
BY DEF Misses, Sought

(* A flush of the stream leaves the file, or the start of it; the first    *)
(* where nothing is refused.                                               *)
LEMMA FlushLeaves ==
  ASSUME DiskSizes, lost \in BOOLEAN, NEW n \in Taken
  PROVE  /\ n \in Nat /\ n <= Size /\ (lost \/ n < Size) \in BOOLEAN
         /\ ~(lost \/ n < Size) => n = Size
         /\ [c \in 0..n - 1 |-> disk[c]] \in [0..n - 1 -> Data]
         /\ n = Size => [c \in 0..n - 1 |-> disk[c]] = disk
<1>1. Size \in Nat /\ disk \in [0..Size - 1 -> Data] /\ sure \in Nat
  BY DEF DiskSizes
<1>2. n \in Nat /\ n <= Size
  BY <1>1 DEF Taken
<1> QED BY <1>1, <1>2

(* Writing a buffer keeps the types, whatever the system accepts.          *)
LEMMA WriteTypes ==
  ASSUME Types, NEW b \in Buffers, bufrecnum[b] >= 0, ffbfwt(b), UNCHANGED <<sure, logfilesize>>
  PROVE  /\ DiskSizes' /\ filesize' >= filesize
         /\ \A x \in Buffers : dirty'[x] => dirty[x]
         /\ ~dirty'[b]
         /\ status' \in {status, "WRITE_ERROR"} /\ lost' \in BOOLEAN
<1> DEFINE hi == bufrecnum[b]
           lo == Smaller(hi, filesize)
           out == {r \in lo..hi : Cached(r) \/ status = "ok"}
<1>1. /\ DiskSizes /\ Sizes /\ Values /\ Shape
  BY DEF Types, WriteInv, Inv, Rest
<1>2. /\ hi \in Nat /\ lo \in Nat /\ lo <= hi /\ lo <= filesize /\ filesize \in Nat
      /\ hi + 1 <= logfilesize /\ logfilesize <= MaxRecords /\ logfilesize \in Nat
  BY <1>1 DEF Shape, Sizes, DiskSizes, Smaller
<1>3. PICK n \in Accepted(Cardinality(out)), missed \in Misses(Start(lo)) :
          /\ disk' = Written(Sought(Start(lo), missed), Start(n), [i \in 0..Start(n) - 1 |->
                         CellAt(Start(Nth(out, Record(i))) + (i % IOBUFLEN))])
          /\ ospos' = Sought(Start(lo), missed) + Start(n)
          /\ io_pos' = Start(hi + 1)
          /\ filesize' = Larger(filesize, hi + 1)
          /\ dirty' = [x \in Buffers |-> dirty[x] /\ bufrecnum[x] \notin lo..hi]
          /\ Refused(n, Cardinality(out), missed)
  BY Zenon DEF ffbfwt
<1>4. /\ out \subseteq lo..hi /\ out \subseteq Int /\ IsFiniteSet(out)
      /\ Cardinality(out) \in Nat /\ Cardinality(out) <= hi - lo + 1
  <2>1. IsFiniteSet(lo..hi) /\ Cardinality(lo..hi) = IF lo > hi THEN 0 ELSE hi - lo + 1
    <3>1. lo \in Int /\ hi \in Int
      BY <1>2
    <3> HIDE DEF lo, hi
    <3> QED BY <3>1, FS_Interval, Zenon
  <2>2. out \subseteq lo..hi
    OBVIOUS
  <2> HIDE DEF out
  <2>3. IsFiniteSet(out) /\ Cardinality(out) <= Cardinality(lo..hi)
    BY <2>1, <2>2, FS_Subset
  <2>4. Cardinality(out) \in Nat
    BY <2>3, FS_CardinalityType
  <2> QED BY <1>2, <2>1, <2>2, <2>3, <2>4
<1> HIDE DEF lo, hi, out
<1>5. n \in Nat /\ n <= Cardinality(out)
  BY <1>4 DEF Accepted
<1>6. Start(lo) \in Nat /\ Start(n) \in Nat /\ Start(hi + 1) \in Nat
  <2>1. Start(0) <= Start(lo) /\ Start(0) <= Start(n) /\ Start(0) <= Start(hi + 1)
    BY <1>2, <1>5, StartOrder
  <2>2. Start(0) = 0 /\ Start(lo) \in Int /\ Start(n) \in Int /\ Start(hi + 1) \in Int
    BY <1>2, <1>5, StartIs
  <2> QED BY <2>1, <2>2
<1> DEFINE at == Sought(Start(lo), missed)
<1>7. at \in Nat
  BY <1>1, <1>6, SeekTypes
<1> HIDE DEF at
<1> DEFINE row == [i \in 0..Start(n) - 1 |->
                      CellAt(Start(Nth(out, Record(i))) + (i % IOBUFLEN))]
<1>8. row \in [0..Start(n) - 1 -> Data]
  <2> SUFFICES ASSUME NEW i \in 0..Start(n) - 1
               PROVE  CellAt(Start(Nth(out, Record(i))) + (i % IOBUFLEN)) \in Data
    BY Zenon
  <2>1. i \in Int /\ i >= 0 /\ i < Start(n)
    BY <1>6
  <2>2. Record(i) \in Nat /\ Record(i) < n
    BY <1>5, <2>1, RecordOf, RecordOrder
  <2>3. Nth(out, Record(i)) \in out
    <3>1. Record(i) < Cardinality(out)
      BY <1>4, <1>5, <2>2
    <3> QED BY <1>4, <2>2, <3>1, NthIsThere, Zenon
  <2>4. Start(Nth(out, Record(i))) \in Int
    BY <1>4, <2>3, StartIs
  <2>5. i % IOBUFLEN \in Int
    BY <2>1, Bounds
  <2>6. Start(Nth(out, Record(i))) + (i % IOBUFLEN) \in Int
    BY <2>4, <2>5
  <2> QED BY <1>1, <2>6, CellIsData
<1>9. disk' = Written(at, Start(n), row)
  BY <1>3 DEF at
<1> HIDE DEF row
<1> DEFINE m == SizeAfter(at, Start(n))
<1>10. m \in Nat /\ disk' \in [0..m - 1 -> Data]
  BY <1>1, <1>6, <1>7, <1>8, <1>9, Bounds, WrittenIs DEF DiskSizes
<1> HIDE DEF m
<1>11. Size' = m
  <2>1. DOMAIN disk' = 0..m - 1
    BY <1>10
  <2> QED BY <1>10, <2>1, RowSize DEF Size
<1>12. DiskSizes'
  <2>1. ospos' \in Nat /\ io_pos' \in Nat
    BY <1>3, <1>6, <1>7 DEF at
  <2>2. filesize' \in Nat /\ filesize' <= logfilesize'
    BY <1>1, <1>2, <1>3 DEF Larger, DiskSizes
  <2> QED BY <1>1, <1>10, <1>11, <2>1, <2>2 DEF DiskSizes, Start, Data, Old
<1>13. filesize' >= filesize
  BY <1>2, <1>3 DEF Larger
<1>14. (\A x \in Buffers : dirty'[x] => dirty[x]) /\ ~dirty'[b]
  <2>1. dirty' \in [Buffers -> BOOLEAN] /\ \A x \in Buffers : dirty'[x] = (dirty[x] /\ bufrecnum[x] \notin lo..hi)
    BY <1>1, <1>3 DEF Shape
  <2>2. bufrecnum[b] \in lo..hi
    BY <1>2 DEF hi
  <2> QED BY <2>1, <2>2
<1>15. status' \in {status, "WRITE_ERROR"} /\ lost' \in BOOLEAN
  BY <1>1, <1>3 DEF Refused, Values
<1> QED BY <1>12, <1>13, <1>14, <1>15

-----------------------------------------------------------------------------
(* The steps keep the types                                                *)

(* The parts of the types, by name.                                        *)
LEMMA Facts ==
  ASSUME Types
  PROVE  /\ Shape /\ OneBuffer /\ Marked /\ AtFill
         /\ DiskSizes /\ Sizes /\ Values /\ InCall
BY DEF Types, Rest, WriteInv, Inv

(* Of the file and the records nothing has changed, or only marks.         *)
LEMMA SameFile ==
  ASSUME DiskSizes, UNCHANGED <<OnDisk, sure, logfilesize>>
  PROVE  DiskSizes'
BY DEF DiskSizes, OnDisk, Size, Start, Data, Old

(* No record moves, and a mark is new only on a buffer in use.             *)
LEMMA SameRecords ==
  ASSUME Sizes, UNCHANGED <<logfilesize, bufrecnum>>,
         \A b \in Buffers : dirty'[b] => dirty[b] \/ bufrecnum[b] >= 0
  PROVE  Sizes'
BY DEF Sizes, Buffers

(* A call begins.                                                          *)
LEMMA BeginRest ==
  ASSUME Types, calls < MaxCalls, NEW o, NEW st, NEW p \in Nat, NEW n \in Nat,
         Begin(o, st, p, n), bytepos' \in Nat
  PROVE  /\ DiskSizes' /\ Sizes' /\ Values'
         /\ op' = o /\ stage' = st /\ pos' = p /\ todo' = n
         /\ UNCHANGED <<curbuf, bufrecnum, logfilesize>>
<1>1. /\ UNCHANGED <<OnDisk, sure, logfilesize, Cache, dirty, iobuffer, status, lost>>
      /\ op' = o /\ stage' = st /\ pos' = p /\ todo' = n
      /\ calls' = calls + 1 /\ got' = <<>> /\ answer' = <<>>
  BY DEF Begin
<1>2. DiskSizes /\ Sizes /\ Values
  BY Facts
<1>3. DiskSizes'
  BY <1>1, <1>2, SameFile
<1>4. Sizes'
  BY <1>1, <1>2, SameRecords DEF Cache
<1>5. <<>> \in Seq(Data)
  BY EmptySeq
<1>6. Values'
  BY <1>1, <1>2, <1>5, BufferAssumption DEF Values, Buffers, Offsets, Data, Old
<1> QED BY <1>1, <1>3, <1>4, <1>6 DEF Cache

(* A transfer begins within the bounds of the file.                        *)
LEMMA TransferBegins ==
  ASSUME Types, NEW p \in Nat, NEW n \in Nat, n >= 1, p + n - 1 \in Cells,
         op' \in {"put", "get"}, pos' = p, todo' = n,
         UNCHANGED <<curbuf, bufrecnum, logfilesize>>,
         \/ stage' = "move"
         \/ stage' = "drop" /\ op' = "get"
         \/ /\ stage' = "copy" \/ (stage' = "fill" /\ op' = "put")
            /\ AtRecord(Record(p)) \/ (InPlace /\ bytepos = p)
  PROVE  InCall'
<1>1. Sizes /\ Shape
  BY Facts
<1>2. p + n <= Start(MaxRecords)
  BY Bounds DEF Cells, Start
<1>3. pos' \in Nat /\ todo' \in Nat /\ Transfer' /\ todo' >= 1 /\ pos' + todo' <= Start(MaxRecords)'
  BY <1>2 DEF Transfer, Start
<1>4. stage' = "fill" => op' = "put"
  OBVIOUS
<1>5. stage' \in {"copy", "fill"} => bufrecnum'[curbuf'] >= 0 /\ Offset' >= 0 /\ Offset' <= IOBUFLEN
  <2> SUFFICES ASSUME stage' \in {"copy", "fill"}
               PROVE  bufrecnum'[curbuf'] >= 0 /\ Offset' >= 0 /\ Offset' <= IOBUFLEN
    OBVIOUS
  <2>1. Offset' = p - Start(bufrecnum[curbuf]) /\ bufrecnum'[curbuf'] = bufrecnum[curbuf]
    BY DEF Offset, Start
  <2>2. CASE AtRecord(Record(p))
    <3>1. bufrecnum[curbuf] = Record(p) /\ Record(p) >= 0
      BY <2>2, RecordOf DEF AtRecord
    <3>2. p - Start(Record(p)) \in Offsets
      BY OffsetOf
    <3> QED BY <2>1, <3>1, <3>2, Bounds DEF Offsets
  <2>3. CASE InPlace /\ bytepos = p
    <3>1. bufrecnum[curbuf] >= 0
      BY <1>1, <2>3 DEF InPlace, Sizes, Shape
    <3>2. p - Start(bufrecnum[curbuf]) \in 0..IOBUFLEN
      BY <2>3 DEF InPlace
    <3> QED BY <2>1, <3>1, <3>2, Bounds
  <2> QED BY <2>2, <2>3
<1>6. ~(stage' = "drop" /\ op' = "put")
  OBVIOUS
<1> QED BY <1>3, <1>4, <1>5, <1>6 DEF InCall

(* ffmbyt and the entry of ffpbyt keep the types.                          *)
LEMMA PutRest ==
  ASSUME Types, calls < MaxCalls, NEW p \in Places, NEW n \in Lengths, p + n - 1 \in Cells, Put(p, n)
  PROVE  Rest'
<1>1. p \in Nat /\ n \in Nat /\ n >= 1 /\ bytepos \in Nat
  BY BufferAssumption, Facts DEF Values
<1>2. PICK st : Begin("put", st, p, n) /\ bytepos' \in Nat
           /\ \/ st = "move"
              \/ /\ st \in {"copy", "fill"}
                 /\ AtRecord(Record(p)) \/ (InPlace /\ bytepos = p)
  <2>1. CASE AtRecord(Record(p)) /\ Begin("put", Ready(n), p, n) /\ bytepos' = p
    BY <1>1, <2>1 DEF Ready
  <2>2. CASE Begin("put", "move", p, n) /\ UNCHANGED bytepos
    BY <1>1, <2>2
  <2>3. CASE InPlace /\ bytepos = p /\ Begin("put", Ready(n), p, n) /\ UNCHANGED bytepos
    BY <1>1, <2>3 DEF Ready
  <2> QED BY <2>1, <2>2, <2>3 DEF Put
<1>3. /\ DiskSizes' /\ Sizes' /\ Values'
      /\ op' = "put" /\ stage' = st /\ pos' = p /\ todo' = n
      /\ UNCHANGED <<curbuf, bufrecnum, logfilesize>>
  BY <1>1, <1>2, BeginRest
<1>4. InCall'
  <2>1. \/ stage' = "move"
        \/ /\ stage' = "copy" \/ (stage' = "fill" /\ op' = "put")
           /\ AtRecord(Record(p)) \/ (InPlace /\ bytepos = p)
    BY <1>2, <1>3
  <2>2. op' \in {"put", "get"}
    BY <1>3
  <2> QED BY <1>1, <1>3, <2>1, <2>2, TransferBegins
<1> QED BY <1>3, <1>4 DEF Rest

(* ffmbyt and the entry of ffgbyt keep the types.                          *)
LEMMA GetRest ==
  ASSUME Types, calls < MaxCalls, NEW p \in Places, NEW n \in Lengths, p + n - 1 \in Cells, Get(p, n)
  PROVE  Rest'
<1>1. p \in Nat /\ n \in Nat /\ n >= 1 /\ bytepos \in Nat
  BY BufferAssumption, Facts DEF Values
<1>2. PICK st : Begin("get", st, p, n) /\ bytepos' \in Nat
           /\ \/ st \in {"move", "drop"}
              \/ /\ st = "copy"
                 /\ AtRecord(Record(p)) \/ (InPlace /\ bytepos = p)
  <2>1. CASE Begin("get", "drop", p, n) /\ bytepos' = p
    BY <1>1, <2>1
  <2>2. CASE AtRecord(Record(p)) /\ Begin("get", "copy", p, n) /\ bytepos' = p
    BY <1>1, <2>2
  <2>3. CASE Begin("get", "move", p, n) /\ UNCHANGED bytepos
    BY <1>1, <2>3
  <2>4. CASE InPlace /\ bytepos = p /\ Begin("get", "copy", p, n) /\ UNCHANGED bytepos
    BY <1>1, <2>4
  <2> QED BY <2>1, <2>2, <2>3, <2>4 DEF Get
<1>3. /\ DiskSizes' /\ Sizes' /\ Values'
      /\ op' = "get" /\ stage' = st /\ pos' = p /\ todo' = n
      /\ UNCHANGED <<curbuf, bufrecnum, logfilesize>>
  BY <1>1, <1>2, BeginRest
<1>4. InCall'
  <2>1. \/ stage' = "move"
        \/ (stage' = "drop" /\ op' = "get")
        \/ /\ stage' = "copy" \/ (stage' = "fill" /\ op' = "put")
           /\ AtRecord(Record(p)) \/ (InPlace /\ bytepos = p)
    BY <1>2, <1>3, Zenon
  <2>2. op' \in {"put", "get"}
    BY <1>3
  <2> QED BY <1>1, <1>3, <2>1, <2>2, TransferBegins
<1> QED BY <1>3, <1>4 DEF Rest

(* So do the entries of ffflsh, ffclos and fftrun.                         *)
LEMMA OtherCallsRest ==
  ASSUME Types, calls < MaxCalls, Flush \/ Close \/ \E r \in 0..MaxRecords : Truncate(r)
  PROVE  Rest'
<1>1. bytepos \in Nat /\ 0 \in Nat
  BY Facts DEF Values
<1>2. CASE Flush \/ Close
  <2>1. PICK o \in {"flush", "close"} : Begin(o, "drop", 0, 0) /\ UNCHANGED bytepos
    BY <1>2 DEF Flush, Close
  <2>2. /\ DiskSizes' /\ Sizes' /\ Values'
        /\ op' = o /\ stage' = "drop" /\ pos' = 0 /\ todo' = 0
    BY <1>1, <2>1, BeginRest
  <2>3. InCall'
    BY <2>1, <2>2 DEF InCall
  <2> QED BY <2>2, <2>3 DEF Rest
<1>3. ASSUME NEW r \in 0..MaxRecords, Truncate(r) PROVE Rest'
  <2>1. r \in Nat /\ r <= logfilesize /\ Begin("truncate", "drop", Start(r), 0) /\ UNCHANGED bytepos
    BY <1>3, Bounds DEF Truncate
  <2>2. Start(r) \in Nat
    BY <2>1, Bounds DEF Start
  <2>3. /\ DiskSizes' /\ Sizes' /\ Values'
        /\ op' = "truncate" /\ stage' = "drop" /\ pos' = Start(r) /\ todo' = 0
        /\ UNCHANGED logfilesize
    BY <1>1, <2>1, <2>2, BeginRest
  <2>4. logfilesize \in Nat
    BY Facts DEF Sizes
  <2>5. \E q \in 0..logfilesize' : pos' = Start(q)'
    BY <2>1, <2>3, <2>4 DEF Start
  <2>6. InCall'
    BY <2>2, <2>3, <2>5 DEF InCall
  <2> QED BY <2>3, <2>6 DEF Rest
<1> QED BY <1>2, <1>3

(* The buffers take a record; the call goes on within it.                  *)
LEMMA TouchRest ==
  ASSUME Types, NEW i \in Buffers, Touch(i), Loading, UNCHANGED <<pos, todo>>,
         bufrecnum'[curbuf'] = Wanted
  PROVE  InCall' /\ bytepos' \in Nat
<1>1. /\ pos \in Nat /\ todo \in Nat /\ bytepos \in Nat
      /\ op \in {"put", "get"} /\ todo >= 1 /\ pos + todo <= Start(MaxRecords)
  BY Facts DEF InCall, Transfer, Loading, Values
<1>2. /\ stage' \in {"done", "copy", "fill"}
      /\ stage' = "done" => op' = "idle"
      /\ stage' # "done" => op' = op
      /\ stage' = "fill" => op = "put"
      /\ bytepos' \in {bytepos, pos}
  BY DEF Touch, Done, Ready
<1>3. Wanted \in Int /\ Wanted >= 0 /\ Offset' = pos - Start(Wanted) /\ pos - Start(Wanted) \in Offsets
  BY <1>1, RecordOf, OffsetOf DEF Wanted, Offset, Start
<1>4. stage' \in {"copy", "fill"} => bufrecnum'[curbuf'] >= 0 /\ Offset' >= 0 /\ Offset' <= IOBUFLEN
  BY <1>3, Bounds DEF Offsets
<1>5. CASE stage' = "done"
  BY <1>1, <1>2, <1>5 DEF InCall
<1>6. CASE stage' # "done"
  <2>1. Transfer' /\ todo' >= 1 /\ pos' + todo' <= Start(MaxRecords)'
    BY <1>1, <1>2, <1>6 DEF Transfer, Start
  <2> QED BY <1>1, <1>2, <1>4, <1>6, <2>1 DEF InCall
<1> QED BY <1>1, <1>2, <1>5, <1>6

(* There is an oldest buffer.                                              *)
LEMMA VictimIs == ASSUME Shape PROVE 0 \in Buffers /\ Victim \in Buffers
  BY BufferAssumption DEF Buffers, Shape, Victim

(* A record that a buffer has keeps the types.                             *)
LEMMA HitRest == ASSUME Types, Hit PROVE Rest'
<1>1. PICK i \in Buffers : bufrecnum[ageindex[i]] = Wanted /\ Touch(i)
  BY DEF Hit
<1>2. /\ Loading /\ UNCHANGED <<status, OnDisk, sure, logfilesize, bufrecnum, dirty, iobuffer, pos, todo,
                   got, answer, calls, lost>>
  BY DEF Hit
<1>3. bufrecnum'[curbuf'] = Wanted
  BY <1>1, <1>2 DEF Touch
<1>4. InCall' /\ bytepos' \in Nat
  BY <1>1, <1>2, <1>3, TouchRest
<1>5. DiskSizes' /\ Sizes'
  BY <1>2, Facts, SameFile, SameRecords
<1>6. Values'
  BY <1>2, <1>4, Facts DEF Values, Buffers, Offsets, Data, Old
<1> QED BY <1>4, <1>5, <1>6 DEF Rest

(* The record wanted is one of the file's.                                 *)
LEMMA WantedIs == ASSUME Types, Loading PROVE Wanted \in Nat /\ Wanted < MaxRecords
<1>1. pos \in Nat /\ todo \in Nat /\ todo >= 1 /\ pos + todo <= Start(MaxRecords)
  BY Facts DEF InCall, Transfer, Loading
<1>2. pos < Start(MaxRecords)
  <2>1. Start(MaxRecords) \in Int
    BY Bounds, StartIs
  <2> QED BY <1>1, <2>1
<1> QED BY <1>1, <1>2, Bounds, RecordOf, RecordOrder DEF Wanted

(* A record beyond the end of the file keeps them.                         *)
LEMMA ExtendRest == ASSUME Types, Extend PROVE Rest'
<1>1. /\ Loading /\ Touch(0) /\ UNCHANGED <<status, OnDisk, sure, pos, todo, got, answer, calls, lost>>
      /\ iobuffer' = [iobuffer EXCEPT ![Victim] = Blank]
      /\ dirty' = [dirty EXCEPT ![Victim] = TRUE]
      /\ bufrecnum' = [bufrecnum EXCEPT ![Victim] = Wanted]
      /\ logfilesize' = Larger(logfilesize, Wanted + 1)
  BY DEF Extend
<1>2. 0 \in Buffers /\ Victim \in Buffers /\ Wanted \in Nat /\ Wanted < MaxRecords
  BY <1>1, Facts, VictimIs, WantedIs
<1>3. Shape /\ DiskSizes /\ Sizes /\ Values
  BY Facts
<1>4. bufrecnum'[curbuf'] = Wanted
  BY <1>1, <1>2, <1>3 DEF Touch, Victim, Shape
<1>5. logfilesize' \in Nat /\ logfilesize' >= logfilesize /\ logfilesize' >= Wanted + 1 /\ logfilesize' <= MaxRecords
  BY <1>1, <1>2, <1>3, Bounds DEF Larger, Sizes
<1>6. InCall' /\ bytepos' \in Nat
  BY <1>1, <1>2, <1>4, TouchRest
<1>7. DiskSizes'
  BY <1>1, <1>3, <1>5 DEF DiskSizes, Sizes, OnDisk, Size, Start, Data, Old
<1>8. Sizes'
  <2> SUFFICES ASSUME NEW b \in Buffers
               PROVE  /\ bufrecnum'[b] >= -1 /\ bufrecnum'[b] < logfilesize'
                      /\ dirty'[b] => bufrecnum'[b] >= 0
    BY <1>5 DEF Sizes, Buffers
  <2>1. CASE b = Victim
    BY <1>1, <1>2, <1>3, <1>5, <2>1 DEF Shape
  <2>2. CASE b # Victim
    BY <1>1, <1>2, <1>3, <1>5, <2>2 DEF Shape, Sizes
  <2> QED BY <2>1, <2>2
<1>9. Values'
  <2>1. Blank \in [Offsets -> Data]
    BY Bounds DEF Blank
  <2>2. iobuffer' \in [Buffers -> [Offsets -> Data]]
    BY <1>1, <1>2, <1>3, <2>1 DEF Values
  <2> QED BY <1>1, <1>3, <1>6, <2>2 DEF Values, Buffers, Offsets, Data, Old
<1> QED BY <1>6, <1>7, <1>8, <1>9 DEF Rest

(* What a read gets, and where the stream is then.                         *)
LEMMA ReadTypes ==
  ASSUME DiskSizes, Values, NEW p \in Nat, NEW n \in Nat, ffread(p, n)
  PROVE  /\ ospos' \in Nat /\ status' \in {status, "READ_ERROR"}
         /\ OnFile(p, n) \in [1..n -> Data]
<1>1. Size \in Nat /\ disk \in [0..Size - 1 -> Data]
  BY DEF DiskSizes
<1>2. ospos' \in Nat
  <2>1. p + n <= Size => ospos' = p + n
    BY DEF ffread
  <2>2. ~(p + n <= Size) => ospos' = Larger(p, Size)
    BY DEF ffread
  <2>3. Larger(p, Size) \in {p, Size}
    BY DEF Larger
  <2> QED BY <1>1, <2>1, <2>2, <2>3
<1>3. status' \in {status, "READ_ERROR"}
  BY DEF ffread
<1>4. OnFile(p, n) \in [1..n -> Data]
  <2> SUFFICES ASSUME NEW i \in 1..n
               PROVE  (IF p + i - 1 < Size THEN disk[p + i - 1] ELSE Fill) \in Data
    BY Zenon DEF OnFile
  <2> QED BY <1>1, Bounds
<1> QED BY <1>2, <1>3, <1>4

(* A record read from the disk keeps the types.                            *)
LEMMA LoadRest == ASSUME Types, Load PROVE Rest'
<1>0. PICK missed \in Misses(Start(Wanted)) :
         /\ iobuffer' = [iobuffer EXCEPT ![Victim] =
                [i \in Offsets |-> OnFile(Sought(Start(Wanted), missed), IOBUFLEN)[i + 1]]]
         /\ ffread(Sought(Start(Wanted), missed), IOBUFLEN)
         /\ lost' = (lost \/ missed)
  BY DEF Load
<1> DEFINE at == Sought(Start(Wanted), missed)
<1>1. /\ Loading /\ Touch(0)
      /\ UNCHANGED <<disk, sure, filesize, logfilesize, dirty, pos, todo, got, answer, calls>>
      /\ iobuffer' = [iobuffer EXCEPT ![Victim] = [i \in Offsets |-> OnFile(at, IOBUFLEN)[i + 1]]]
      /\ ffread(at, IOBUFLEN)
      /\ io_pos' = Start(Wanted + 1)
      /\ bufrecnum' = [bufrecnum EXCEPT ![Victim] = Wanted]
      /\ Wanted < filesize
  BY <1>0 DEF Load
<1>2. 0 \in Buffers /\ Victim \in Buffers /\ Wanted \in Nat /\ Wanted < MaxRecords
  BY <1>1, Facts, VictimIs, WantedIs
<1>3. Shape /\ DiskSizes /\ Sizes /\ Values
  BY Facts
<1>4. Start(Wanted) \in Nat /\ Start(Wanted + 1) = Start(Wanted) + IOBUFLEN
  BY <1>2, Bounds, StartNext DEF Start
<1>5. at \in Nat
  BY <1>3, <1>4, SeekTypes
<1> HIDE DEF at
<1>6. /\ ospos' \in Nat /\ status' \in {status, "READ_ERROR"}
      /\ OnFile(at, IOBUFLEN) \in [1..IOBUFLEN -> Data]
  BY <1>1, <1>3, <1>5, Bounds, ReadTypes
<1>7. bufrecnum'[curbuf'] = Wanted
  BY <1>1, <1>2, <1>3 DEF Touch, Victim, Shape
<1>8. InCall' /\ bytepos' \in Nat
  BY <1>1, <1>2, <1>7, TouchRest
<1>9. DiskSizes'
  <2>1. io_pos' \in Nat
    BY <1>1, <1>4, Bounds
  <2> QED BY <1>1, <1>3, <1>6, <2>1 DEF DiskSizes, Size, Start, Data, Old
<1>10. Sizes'
  <2> SUFFICES ASSUME NEW b \in Buffers
               PROVE  /\ bufrecnum'[b] >= -1 /\ bufrecnum'[b] < logfilesize'
                      /\ dirty'[b] => bufrecnum'[b] >= 0
    BY <1>1, <1>3 DEF Sizes, Buffers
  <2>1. CASE b = Victim
    BY <1>1, <1>2, <1>3, <2>1 DEF Shape, DiskSizes, Sizes
  <2>2. CASE b # Victim
    BY <1>1, <1>2, <1>3, <2>2 DEF Shape, Sizes
  <2> QED BY <2>1, <2>2
<1>11. Values'
  <2>1. [i \in Offsets |-> OnFile(at, IOBUFLEN)[i + 1]] \in [Offsets -> Data]
    BY <1>6, Bounds DEF Offsets
  <2>2. iobuffer' \in [Buffers -> [Offsets -> Data]]
    BY <1>1, <1>2, <1>3, <2>1 DEF Values
  <2>3. lost' \in BOOLEAN
    BY <1>0, <1>3, NotMissed DEF Values
  <2> QED BY <1>1, <1>3, <1>6, <1>8, <2>2, <2>3 DEF Values, Buffers, Offsets, Data, Old
<1> QED BY <1>8, <1>9, <1>10, <1>11 DEF Rest

(* A buffer is due only with a record.                                     *)
LEMMA EvictRest == ASSUME Types, Evict PROVE Rest'
<1>1. /\ Loading /\ dirty[Victim] /\ ffbfwt(Victim)
      /\ UNCHANGED <<sure, logfilesize, bytepos, Cache, iobuffer, Call, got, answer, calls>>
  BY DEF Evict
<1>2. Victim \in Buffers /\ Shape /\ Sizes /\ Values /\ InCall
  BY Facts, VictimIs
<1>3. bufrecnum[Victim] >= 0
  BY <1>1, <1>2 DEF Sizes
<1>4. /\ DiskSizes' /\ filesize' >= filesize
      /\ \A x \in Buffers : dirty'[x] => dirty[x]
      /\ status' \in {status, "WRITE_ERROR"} /\ lost' \in BOOLEAN
  BY <1>1, <1>2, <1>3, WriteTypes
<1>5. Sizes'
  BY <1>1, <1>2, <1>4, SameRecords DEF Cache
<1>6. Values'
  BY <1>1, <1>2, <1>4 DEF Values, Buffers, Offsets, Data, Old
<1>7. InCall'
  BY <1>1, <1>2 DEF InCall, Transfer, Offset, Start, Cache, Call, Record
<1> QED BY <1>4, <1>5, <1>6, <1>7 DEF Rest

(* The steps that copy.                                                    *)
LEMMA AdvanceRest ==
  ASSUME Types, Transfer, stage = "copy", Advance(Piece)
  PROVE  /\ InCall' /\ bytepos' \in Nat
         /\ Piece \in Nat /\ Piece <= todo /\ Offset \in Nat /\ Offset + Piece <= IOBUFLEN
<1>1. /\ Shape /\ pos \in Nat /\ todo \in Nat /\ todo >= 1 /\ pos + todo <= Start(MaxRecords)
      /\ op \in {"put", "get"} /\ Offset >= 0 /\ Offset <= IOBUFLEN
  BY Facts DEF InCall, Transfer
<1>2. Offset \in Int /\ Piece \in Int
  BY OffsetIsInt DEF Types, WriteInv
<1>3. Piece \in Nat /\ Piece <= todo /\ Offset \in Nat /\ Offset + Piece <= IOBUFLEN
  BY <1>1, <1>2, Bounds DEF Piece, Smaller
<1>4. /\ pos' = pos + Piece /\ bytepos' = pos + Piece /\ todo' = todo - Piece
      /\ IF todo = Piece THEN op' = "idle" /\ stage' = "done" ELSE stage' = "load" /\ op' = op
  BY DEF Advance, Done
<1>5. pos' \in Nat /\ todo' \in Nat /\ bytepos' \in Nat
  BY <1>1, <1>3, <1>4
<1>6. CASE todo = Piece
  <2>1. op' = "idle" /\ stage' = "done"
    BY <1>4, <1>6
  <2> QED BY <1>3, <1>5, <2>1 DEF InCall
<1>7. CASE todo # Piece
  <2>1. Start(MaxRecords) \in Int
    BY Bounds, StartIs
  <2>2. todo' >= 1 /\ pos' + todo' <= Start(MaxRecords)
    BY <1>1, <1>3, <1>4, <1>7, <2>1
  <2>3. Transfer' /\ pos' + todo' <= Start(MaxRecords)'
    BY <1>1, <1>4, <1>7, <2>2 DEF Transfer, Start
  <2>4. stage' = "load"
    BY <1>4, <1>7
  <2> QED BY <1>3, <1>5, <2>2, <2>3, <2>4 DEF InCall
<1> QED BY <1>3, <1>5, <1>6, <1>7

(* What is filled in are cells.                                            *)
LEMMA FillinTypes ==
  ASSUME Shape, Sizes, Values, bufrecnum[curbuf] >= 0, NEW n \in Int, Offset \in Int, Fillin(n),
         UNCHANGED <<logfilesize, bufrecnum>>
  PROVE  Sizes' /\ iobuffer' \in [Buffers -> [Offsets -> Data]]
<1>1. /\ iobuffer' = [iobuffer EXCEPT ![curbuf] =
               [i \in Offsets |-> IF Offset <= i /\ i < Offset + n THEN calls ELSE iobuffer[curbuf][i]]]
      /\ dirty' = [dirty EXCEPT ![curbuf] = TRUE]
  BY DEF Fillin
<1>2. curbuf \in Buffers /\ dirty \in [Buffers -> BOOLEAN] /\ iobuffer \in [Buffers -> [Offsets -> Data]]
      /\ calls \in Data
  BY Bounds DEF Shape, Values
<1>3. [i \in Offsets |-> IF Offset <= i /\ i < Offset + n THEN calls ELSE iobuffer[curbuf][i]]
         \in [Offsets -> Data]
  BY <1>2
<1>4. iobuffer' \in [Buffers -> [Offsets -> Data]]
  BY <1>1, <1>2, <1>3, Zenon
<1>5. \A b \in Buffers : dirty'[b] => dirty[b] \/ bufrecnum[b] >= 0
  BY <1>1, <1>2
<1> QED BY <1>4, <1>5, SameRecords

(* A copy into the current buffer keeps the types.                         *)
LEMMA CopyInRest == ASSUME Types, CopyIn PROVE Rest'
<1>1. /\ op = "put" /\ stage = "copy" /\ Fillin(Piece) /\ Advance(Piece)
      /\ UNCHANGED <<OnDisk, sure, logfilesize, Cache, status, got, answer, calls, lost>>
  BY DEF CopyIn
<1>2. Shape /\ DiskSizes /\ Sizes /\ Values /\ InCall
  BY Facts
<1>3. Transfer
  BY <1>1 DEF Transfer
<1>4. InCall' /\ bytepos' \in Nat /\ Piece \in Nat /\ Offset \in Nat
  BY <1>1, <1>3, AdvanceRest
<1>5. bufrecnum[curbuf] >= 0 /\ UNCHANGED bufrecnum
  BY <1>1, <1>2 DEF InCall, Cache
<1>6. Sizes' /\ iobuffer' \in [Buffers -> [Offsets -> Data]]
  BY <1>1, <1>2, <1>4, <1>5, FillinTypes
<1>7. DiskSizes'
  BY <1>1, <1>2, SameFile
<1>8. Values'
  BY <1>1, <1>2, <1>4, <1>6 DEF Values, Buffers, Offsets, Data, Old
<1> QED BY <1>4, <1>6, <1>7, <1>8 DEF Rest

(* A piece of a buffer is a sequence of cells.                             *)
LEMMA PieceOf ==
  ASSUME NEW cells \in [Offsets -> Data], NEW o \in Nat, NEW n \in Nat, o + n <= IOBUFLEN
  PROVE  /\ [i \in 1..n |-> cells[o + i - 1]] \in Seq(Data)
         /\ Len([i \in 1..n |-> cells[o + i - 1]]) = n
<1>1. \A i \in 1..n : cells[o + i - 1] \in Data
  BY Bounds DEF Offsets
<1> QED BY <1>1

(* A copy out of it keeps them.                                            *)
LEMMA CopyOutRest == ASSUME Types, CopyOut PROVE Rest'
<1> DEFINE piece == [i \in 1..Piece |-> iobuffer[curbuf][Offset + i - 1]]
<1>1. /\ op = "get" /\ stage = "copy" /\ Advance(Piece)
      /\ got' = got \o piece
      /\ answer' = IF todo = Piece /\ status = "ok" THEN got' ELSE <<>>
      /\ UNCHANGED <<OnDisk, sure, logfilesize, Cache, dirty, iobuffer, status, calls, lost>>
  BY DEF CopyOut
<1>2. Shape /\ DiskSizes /\ Sizes /\ Values /\ InCall
  BY Facts
<1>3. Transfer
  BY <1>1 DEF Transfer
<1>4. InCall' /\ bytepos' \in Nat /\ Piece \in Nat /\ Offset \in Nat /\ Offset + Piece <= IOBUFLEN
  BY <1>1, <1>3, AdvanceRest
<1>5. piece \in Seq(Data)
  <2>1. iobuffer[curbuf] \in [Offsets -> Data]
    BY <1>2 DEF Shape, Values
  <2> QED BY <1>4, <2>1, PieceOf
<1> HIDE DEF piece
<1>6. got' \in Seq(Data) /\ answer' \in Seq(Data)
  <2>1. got' \in Seq(Data)
    BY <1>1, <1>2, <1>5, ConcatProperties DEF Values
  <2>2. <<>> \in Seq(Data)
    BY EmptySeq
  <2> QED BY <1>1, <2>1, <2>2
<1>7. DiskSizes' /\ Sizes'
  BY <1>1, <1>2, SameFile, SameRecords DEF Cache
<1>8. Values'
  BY <1>1, <1>2, <1>4, <1>6 DEF Values, Buffers, Offsets, Data, Old
<1> QED BY <1>4, <1>7, <1>8 DEF Rest

(* A direct write goes on where the record of the current buffer ends.     *)
LEMMA FillUpRest == ASSUME Types, FillUp PROVE Rest'
<1> DEFINE n == IOBUFLEN - Offset
           r == bufrecnum[curbuf]
<1>1. /\ stage = "fill" /\ stage' = "drop"
      /\ IF n = 0 THEN UNCHANGED <<iobuffer, dirty>> ELSE Fillin(n)
      /\ pos' = pos + n /\ todo' = todo - n
      /\ UNCHANGED <<OnDisk, sure, logfilesize, bytepos, Cache, status, op, got, answer, calls, lost>>
  BY DEF FillUp
<1>2. Shape /\ DiskSizes /\ Sizes /\ Values /\ InCall /\ AtFill
  BY Facts
<1>3. /\ op = "put" /\ pos \in Nat /\ todo \in Nat /\ todo >= MINDIRECT /\ pos + todo <= Start(MaxRecords)
      /\ r >= 0 /\ Offset >= 0 /\ Offset <= IOBUFLEN
  BY <1>1, <1>2 DEF InCall, AtFill
<1>4. Offset \in Int /\ r \in Int
  BY <1>2, OffsetIsInt DEF Types, WriteInv, Shape
<1>5. n \in Nat /\ n <= IOBUFLEN
  BY <1>3, <1>4, Bounds
<1>6. pos' = Start(r + 1) /\ Record(pos') = r + 1
  <2>1. pos = Start(r) + Offset /\ Start(r) \in Int
    BY <1>3, <1>4, StartIs DEF Offset
  <2>2. pos' = Start(r) + IOBUFLEN
    BY <1>1, <1>4, <2>1, Bounds
  <2> QED BY <1>4, <2>2, StartNext, RecordOrder
<1>7. UNCHANGED <<curbuf, bufrecnum>>
  BY <1>1 DEF Cache
<1>8. InCall'
  <2>1. pos' \in Nat /\ todo' \in Nat /\ todo' >= 1 /\ pos' + todo' <= Start(MaxRecords)
    <3>1. Start(MaxRecords) \in Int
      BY Bounds, StartIs
    <3> HIDE DEF n
    <3> QED BY <1>1, <1>3, <1>5, <3>1, Bounds
  <2>2. Transfer' /\ pos' + todo' <= Start(MaxRecords)'
    BY <1>1, <1>3, <2>1 DEF Transfer, Start
  <2>3. pos' = Start(Record(pos))' /\ bufrecnum'[curbuf'] = Record(pos)' - 1
    <3>1. Record(pos)' = Record(pos') /\ Start(Record(pos))' = Start(Record(pos'))
      BY DEF Record, Start
    <3> QED BY <1>4, <1>6, <1>7, <3>1
  <2> QED BY <1>1, <1>3, <2>1, <2>2, <2>3 DEF InCall
<1>9. Sizes' /\ iobuffer' \in [Buffers -> [Offsets -> Data]]
  <2>1. CASE n = 0
    BY <1>1, <1>2, <1>7, <2>1, SameRecords DEF Values, Buffers, Offsets, Data, Old
  <2>2. CASE n # 0
    BY <1>1, <1>2, <1>3, <1>4, <1>5, <1>7, <2>2, FillinTypes
  <2> QED BY <2>1, <2>2
<1>10. DiskSizes'
  BY <1>1, <1>2, SameFile
<1>11. Values'
  BY <1>1, <1>2, <1>9 DEF Values, Buffers, Offsets, Data, Old
<1> QED BY <1>8, <1>9, <1>10, <1>11 DEF Rest

(* The steps of direct calls, flushes, closes and truncations.             *)
LEMMA WriteBackRest == ASSUME Types, WriteBack PROVE Rest'
<1>1. PICK b \in Buffers :
         /\ IsFirst(b, Pending)
         /\ IF dirty[b] THEN ffbfwt(b) ELSE UNCHANGED <<OnDisk, dirty, status, lost>>
         /\ bufrecnum' = [c \in Buffers |->
                IF (op = "put" /\ c = b) \/ (op = "close" /\ c <= b) THEN -1 ELSE bufrecnum[c]]
  BY DEF WriteBack
<1>2. /\ stage = "drop"
      /\ UNCHANGED <<sure, logfilesize, bytepos, curbuf, ageindex, iobuffer, Call, got, answer, calls>>
  BY DEF WriteBack
<1>3. Shape /\ DiskSizes /\ Sizes /\ Values /\ InCall
  BY Facts
<1>4. /\ DiskSizes' /\ (\A x \in Buffers : dirty'[x] => dirty[x]) /\ ~dirty'[b]
      /\ status' \in {status, "WRITE_ERROR"} /\ lost' \in BOOLEAN
  <2>1. CASE dirty[b]
    <3>1. bufrecnum[b] >= 0
      BY <1>3, <2>1 DEF Sizes
    <3> QED BY <1>1, <1>2, <2>1, <3>1, WriteTypes
  <2>2. CASE ~dirty[b]
    <3>1. UNCHANGED <<OnDisk, sure, logfilesize, dirty, status, lost>>
      BY <1>1, <1>2, <2>2
    <3>2. DiskSizes'
      BY <1>3, <3>1, SameFile
    <3> QED BY <1>3, <2>2, <3>1, <3>2 DEF Values
  <2> QED BY <2>1, <2>2
<1>5. Sizes'
  <2> SUFFICES ASSUME NEW c \in Buffers
               PROVE  /\ bufrecnum'[c] >= -1 /\ bufrecnum'[c] < logfilesize'
                      /\ dirty'[c] => bufrecnum'[c] >= 0
    BY <1>2, <1>3 DEF Sizes, Buffers
  <2>1. logfilesize \in Nat /\ UNCHANGED logfilesize
    BY <1>2, <1>3 DEF Sizes
  <2>2. /\ bufrecnum[c] \in Int /\ bufrecnum[c] >= -1 /\ bufrecnum[c] < logfilesize
        /\ dirty[c] => bufrecnum[c] >= 0
    BY <1>3 DEF Sizes, Shape
  <2>3. CASE op = "put" /\ c = b
    BY <1>1, <1>4, <2>1, <2>3
  <2>4. CASE op = "close" /\ c <= b
    <3>1. op = "close" /\ b \in Unwritten /\ \A x \in Unwritten : b <= x
      BY <1>1, <2>4 DEF IsFirst, Pending
    <3>2. c = b \/ c \notin Unwritten
      BY <2>4, <3>1 DEF Buffers
    <3>3. ~dirty'[c]
      BY <1>4, <2>2, <3>2 DEF Unwritten
    <3> QED BY <1>1, <2>1, <2>4, <3>3
  <2>5. CASE ~(op = "put" /\ c = b) /\ ~(op = "close" /\ c <= b)
    BY <1>1, <1>4, <2>1, <2>2, <2>5
  <2> QED BY <2>3, <2>4, <2>5
<1>6. Values'
  BY <1>2, <1>3, <1>4 DEF Values, Buffers, Offsets, Data, Old
<1>7. InCall'
  <2>1. UNCHANGED <<op, stage, pos, todo, logfilesize, curbuf>>
    BY <1>2 DEF Call
  <2>2. curbuf \in Buffers
    BY <1>3 DEF Shape
  <2>3. bufrecnum'[curbuf] \in {bufrecnum[curbuf], -1}
    BY <1>1, <2>2
  <2> QED BY <1>2, <1>3, <2>1, <2>3 DEF InCall, Transfer, Start, Record
<1> QED BY <1>4, <1>5, <1>6, <1>7 DEF Rest

(* Where a direct write ends: the last cells go to a buffer.               *)
LEMMA DirectEnds ==
  ASSUME Types, op = "put", stage = "drop"
  PROVE  LET whole == (todo - 1) \div IOBUFLEN
             end == pos + Start(whole)
         IN  /\ pos \in Nat /\ todo \in Nat /\ todo >= 1 /\ whole \in Nat /\ end \in Nat
             /\ pos = Start(Record(pos)) /\ Record(pos) \in Nat
             /\ end = Start(Record(pos) + whole) /\ Record(end) = Record(pos) + whole
             /\ Record(pos + todo - 1) = Record(end)
             /\ end <= pos + todo - 1 /\ pos + todo - 1 < end + IOBUFLEN
             /\ Record(end) < MaxRecords /\ end + IOBUFLEN <= Start(MaxRecords)
             /\ Start(whole) \in Nat
<1> DEFINE whole == (todo - 1) \div IOBUFLEN
           end == pos + Start(whole)
           r == Record(pos)
           e == r + whole
<1>1. /\ pos \in Nat /\ todo \in Nat /\ todo >= 1 /\ pos + todo <= Start(MaxRecords)
      /\ pos = Start(r)
  BY Facts DEF InCall, Transfer
<1>2. whole \in Int /\ Start(whole) <= todo - 1 /\ todo - 1 < Start(whole) + IOBUFLEN /\ whole >= 0
  <2>1. todo - 1 \in Int /\ todo - 1 >= 0 /\ whole = Record(todo - 1)
    BY <1>1 DEF Record
  <2> HIDE DEF whole
  <2> QED BY <2>1, RecordOf
<1> HIDE DEF whole
<1>3. r \in Nat
  BY <1>1, RecordOf
<1> HIDE DEF r
<1>4. Start(whole) \in Nat /\ Start(r) \in Int /\ Start(r + whole) = Start(r) + Start(whole)
  BY <1>2, <1>3, StartIs, StartAdd, Bounds DEF Start
<1>5. e \in Nat /\ end = Start(e) /\ end \in Nat
  BY <1>1, <1>2, <1>3, <1>4
<1>6. end <= pos + todo - 1 /\ pos + todo - 1 < end + IOBUFLEN
  BY <1>1, <1>2, <1>4, Bounds
<1> HIDE DEF e, end
<1>7. Record(end) = e /\ Record(pos + todo - 1) = e
  <2>1. end \in Int /\ pos + todo - 1 \in Int /\ Start(e) <= end /\ end < Start(e) + IOBUFLEN
    BY <1>1, <1>5, Bounds
  <2> QED BY <1>5, <1>6, <2>1, RecordIs
<1>8. e < MaxRecords
  <2>1. Start(MaxRecords) \in Int
    BY Bounds, StartIs
  <2>2. end < Start(MaxRecords)
    BY <1>1, <1>5, <1>6, <2>1
  <2> QED BY <1>5, <1>7, <2>2, RecordOrder, Bounds
<1>9. end + IOBUFLEN <= Start(MaxRecords)
  BY <1>5, <1>8, Bounds, StartOrder
<1> QED BY <1>1, <1>2, <1>3, <1>4, <1>5, <1>6, <1>7, <1>8, <1>9 DEF whole, end, e, r

(* A direct write keeps the types, whether refused or not.                 *)
LEMMA WriteDirectRest == ASSUME Types, WriteDirect PROVE Rest'
<1> DEFINE whole == (todo - 1) \div IOBUFLEN
           end == pos + Start(whole)
           atEnd == end >= Start(filesize)
           last == Record(pos + todo - 1)
<1>1. PICK n \in Accepted(whole), missed \in Misses(pos) :
      LET at == Sought(pos, missed)
          next == at + Start(n)
          short == ~atEnd /\ next + IOBUFLEN > Size
          under == IF atEnd THEN Blank ELSE [i \in Offsets |-> OnFile(next, IOBUFLEN)[i + 1]]
      IN /\ disk' = Written(at, Start(n), [i \in 0..Start(n) - 1 |-> calls])
         /\ ospos' = IF atEnd THEN next ELSE IF short THEN Larger(next, Size) ELSE next + IOBUFLEN
         /\ io_pos' = IF atEnd THEN end ELSE end + IOBUFLEN
         /\ filesize' = IF atEnd THEN Record(end) ELSE filesize
         /\ status' = IF short THEN "READ_ERROR" ELSE IF n < whole THEN "WRITE_ERROR" ELSE status
         /\ lost' = (lost \/ missed \/ n < whole)
         /\ iobuffer' = [iobuffer EXCEPT ![curbuf] =
                [i \in Offsets |-> IF i < todo - Start(whole) THEN calls ELSE under[i]]]
  BY Zenon DEF WriteDirect
<1>2. /\ op = "put" /\ stage = "drop"
      /\ dirty' = [dirty EXCEPT ![curbuf] = TRUE]
      /\ bufrecnum' = [bufrecnum EXCEPT ![curbuf] = last]
      /\ logfilesize' = Larger(logfilesize, last + 1)
      /\ bytepos' = pos + todo /\ pos' = pos + todo /\ todo' = 0
      /\ op' = "idle" /\ stage' = "done"
      /\ UNCHANGED <<sure, curbuf, ageindex, got, answer, calls>>
  BY DEF WriteDirect, Done
<1>3. Shape /\ DiskSizes /\ Sizes /\ Values /\ InCall
  BY Facts
<1>4. /\ pos \in Nat /\ todo \in Nat /\ todo >= 1 /\ whole \in Nat /\ end \in Nat
      /\ Record(end) \in Nat /\ last = Record(end) /\ last < MaxRecords
      /\ end + IOBUFLEN <= Start(MaxRecords) /\ Start(whole) \in Nat
  <2>1. Record(pos) \in Nat /\ Record(end) = Record(pos) + whole /\ whole \in Nat
    BY <1>2, DirectEnds
  <2> QED BY <1>2, <2>1, DirectEnds
<1> DEFINE at == Sought(pos, missed)
<1>5. at \in Nat
  BY <1>3, <1>4, SeekTypes
<1>6. n \in Nat /\ n <= whole
  BY <1>4 DEF Accepted
<1> DEFINE next == at + Start(n)
<1>7. Start(n) \in Nat /\ next \in Nat
  BY <1>5, <1>6, Bounds DEF Start
<1> DEFINE row == [i \in 0..Start(n) - 1 |-> calls]
           m == SizeAfter(at, Start(n))
<1>8. row \in [0..Start(n) - 1 -> Data]
  <2>1. calls \in Data
    BY <1>3, Bounds DEF Values
  <2> QED BY <2>1
<1>9. disk' = Written(at, Start(n), row)
  BY <1>1, Zenon
<1> HIDE DEF whole, end, at, last
<1> HIDE DEF row
<1>10. m \in Nat /\ disk' \in [0..m - 1 -> Data]
  BY <1>3, <1>5, <1>7, <1>8, <1>9, Bounds, WrittenIs DEF DiskSizes
<1> HIDE DEF m
<1>11. Size' = m
  <2>1. DOMAIN disk' = 0..m - 1
    BY <1>10
  <2> QED BY <1>10, <2>1, RowSize DEF Size
<1>12. ospos' \in Nat /\ io_pos' \in Nat
  <2>1. Size \in Nat /\ Larger(next, Size) \in {next, Size}
    BY <1>3 DEF DiskSizes, Larger
  <2>2. ospos' \in {next, next + IOBUFLEN, Larger(next, Size)} /\ io_pos' \in {end, end + IOBUFLEN}
    BY <1>1 DEF at
  <2> HIDE DEF next
  <2> QED BY <1>4, <1>7, <2>1, <2>2, Bounds
<1>13. logfilesize' \in Nat /\ logfilesize' >= logfilesize /\ logfilesize' >= last + 1 /\ logfilesize' <= MaxRecords
  BY <1>2, <1>3, <1>4, Bounds DEF Larger, Sizes
<1>14. DiskSizes'
  <2>1. filesize' \in Nat /\ filesize' <= logfilesize'
    BY <1>1, <1>3, <1>4, <1>13 DEF DiskSizes, Sizes
  <2> QED BY <1>2, <1>3, <1>10, <1>11, <1>12, <2>1 DEF DiskSizes, Start, Data, Old
<1>15. Sizes'
  <2> SUFFICES ASSUME NEW b \in Buffers
               PROVE  /\ bufrecnum'[b] >= -1 /\ bufrecnum'[b] < logfilesize'
                      /\ dirty'[b] => bufrecnum'[b] >= 0
    BY <1>13 DEF Sizes, Buffers
  <2>1. CASE b = curbuf
    BY <1>2, <1>3, <1>4, <1>13, <2>1 DEF Shape
  <2>2. CASE b # curbuf
    BY <1>2, <1>3, <1>13, <2>2 DEF Shape, Sizes
  <2> QED BY <2>1, <2>2
<1>16. iobuffer' \in [Buffers -> [Offsets -> Data]]
  <2> DEFINE under == IF atEnd THEN Blank ELSE [i \in Offsets |-> OnFile(next, IOBUFLEN)[i + 1]]
             cells == [i \in Offsets |-> IF i < todo - Start(whole) THEN calls ELSE under[i]]
  <2>1. under \in [Offsets -> Data]
    <3>1. Blank \in [Offsets -> Data]
      BY Bounds DEF Blank
    <3>2. \A i \in 1..IOBUFLEN : OnFile(next, IOBUFLEN)[i] \in Data
      <4> SUFFICES ASSUME NEW i \in 1..IOBUFLEN
                   PROVE  (IF next + i - 1 < Size THEN disk[next + i - 1] ELSE Fill) \in Data
        BY DEF OnFile
      <4> QED BY <1>3, <1>7, Bounds DEF DiskSizes
    <3>3. [i \in Offsets |-> OnFile(next, IOBUFLEN)[i + 1]] \in [Offsets -> Data]
      BY <3>2, Bounds DEF Offsets
    <3> QED BY <3>1, <3>3
  <2>2. calls \in Data /\ curbuf \in Buffers
    BY <1>3, Bounds DEF Values, Shape
  <2>3. iobuffer' = [iobuffer EXCEPT ![curbuf] = cells]
    BY <1>1, Zenon DEF whole, end, at
  <2> HIDE DEF under
  <2>4. cells \in [Offsets -> Data]
    BY <2>1, <2>2
  <2> HIDE DEF cells
  <2> QED BY <1>3, <2>2, <2>3, <2>4 DEF Values
<1>17. Values'
  <2>1. /\ status' \in {status, "READ_ERROR", "WRITE_ERROR"} /\ lost' \in BOOLEAN
        /\ bytepos' \in Nat
    BY <1>1, <1>2, <1>3, <1>4, NotMissed DEF Values
  <2> QED BY <1>2, <1>3, <1>16, <2>1 DEF Values, Buffers, Offsets, Data, Old
<1>18. InCall'
  BY <1>2, <1>4 DEF InCall
<1> QED BY <1>14, <1>15, <1>17, <1>18 DEF Rest

(* A direct read keeps the types.                                          *)
LEMMA ReadDirectRest == ASSUME Types, ReadDirect PROVE Rest'
<1>0. PICK missed \in Misses(pos) :
         /\ ffread(Sought(pos, missed), todo) /\ lost' = (lost \/ missed)
         /\ got' = OnFile(Sought(pos, missed), todo)
         /\ answer' = IF status' = "ok" THEN got' ELSE answer
  BY DEF ReadDirect
<1> DEFINE at == Sought(pos, missed)
<1>1. /\ op = "get" /\ stage = "drop" /\ ffread(at, todo)
      /\ got' = OnFile(at, todo)
      /\ answer' = IF status' = "ok" THEN got' ELSE answer
      /\ io_pos' = pos + todo /\ op' = "idle" /\ stage' = "done"
      /\ UNCHANGED <<disk, sure, filesize, logfilesize, bytepos, Cache, dirty, iobuffer, pos, todo, calls>>
  BY <1>0 DEF ReadDirect, Done
<1>2. Shape /\ DiskSizes /\ Sizes /\ Values /\ pos \in Nat /\ todo \in Nat
  BY Facts DEF InCall
<1>3. at \in Nat /\ lost' \in BOOLEAN
  BY <1>0, <1>2, SeekTypes, NotMissed DEF Values
<1> HIDE DEF at
<1>4. /\ ospos' \in Nat /\ status' \in {status, "READ_ERROR"}
      /\ OnFile(at, todo) \in [1..todo -> Data]
  BY <1>1, <1>2, <1>3, ReadTypes
<1>5. DiskSizes'
  <2>1. io_pos' \in Nat
    BY <1>1, <1>2
  <2> QED BY <1>1, <1>2, <1>4, <2>1 DEF DiskSizes, Size, Start, Data, Old
<1>6. Sizes'
  BY <1>1, <1>2, SameRecords DEF Cache
<1>7. got' \in Seq(Data)
  BY <1>1, <1>2, <1>4, IsASeq
<1>8. Values'
  BY <1>1, <1>2, <1>3, <1>4, <1>7 DEF Values, Buffers, Offsets, Data, Old
<1>9. InCall'
  BY <1>1, <1>2 DEF InCall
<1> QED BY <1>5, <1>6, <1>8, <1>9 DEF Rest

(* The end of a truncation keeps the types.                                *)
LEMMA EndTruncateRest == ASSUME Types, EndTruncate PROVE Rest'
<1>0. PICK n \in Taken : /\ disk' = [c \in 0..pos - 1 |-> IF c < n THEN disk[c] ELSE Fill]
                         /\ lost' = (lost \/ n < Size)
  BY DEF EndTruncate
<1>1. /\ op = "truncate" /\ stage = "drop"
      /\ filesize' = Record(pos) /\ logfilesize' = Record(pos)
      /\ io_pos' = pos /\ bytepos' = pos /\ ospos' = pos
      /\ bufrecnum' = [b \in Buffers |-> IF bufrecnum[b] >= Record(pos) THEN -1 ELSE bufrecnum[b]]
      /\ sure' = pos
      /\ status' = "ok" /\ op' = "idle" /\ stage' = "done"
      /\ Unwritten = {}
      /\ UNCHANGED <<curbuf, ageindex, dirty, iobuffer, pos, todo, got, answer, calls>>
  BY DEF EndTruncate, Done, Pending
<1>2. Shape /\ DiskSizes /\ Sizes /\ Values /\ InCall
  BY Facts
<1>3. PICK r \in 0..logfilesize : pos = Start(r)
  BY <1>1, <1>2 DEF InCall, Transfer
<1>4. pos \in Nat /\ todo \in Nat /\ Record(pos) = r /\ r \in Nat /\ r <= MaxRecords
  BY <1>2, <1>3, RecordOrder, Bounds DEF InCall, Sizes
<1>5. DiskSizes'
  <2>1. \A c \in 0..pos - 1 : (IF c < n THEN disk[c] ELSE Fill) \in Data
    BY <1>2, <1>4, Bounds, FlushLeaves DEF DiskSizes, Values
  <2>2. disk' \in [0..pos - 1 -> Data] /\ DOMAIN disk' = 0..pos - 1
    BY <1>0, <2>1
  <2>3. Size' = pos
    BY <1>4, <2>2, RowSize DEF Size
  <2> QED BY <1>1, <1>4, <2>2, <2>3 DEF DiskSizes, Start, Data, Old
<1>6. Sizes'
  <2> SUFFICES ASSUME NEW b \in Buffers
               PROVE  /\ bufrecnum'[b] >= -1 /\ bufrecnum'[b] < logfilesize'
                      /\ dirty'[b] => bufrecnum'[b] >= 0
    BY <1>1, <1>4 DEF Sizes, Buffers
  <2>1. ~dirty[b]
    BY <1>1, <1>2 DEF Unwritten, Sizes
  <2> QED BY <1>1, <1>2, <1>4, <2>1 DEF Shape, Sizes
<1>7. Values'
  <2>1. lost' \in BOOLEAN
    BY <1>0, <1>2, FlushLeaves DEF Values
  <2> QED BY <1>1, <1>2, <1>4, <2>1 DEF Values, Buffers, Offsets, Data, Old
<1>8. InCall'
  BY <1>1, <1>4 DEF InCall
<1> QED BY <1>5, <1>6, <1>7, <1>8 DEF Rest

(* A flush of the stream keeps the types.                                  *)
LEMMA FlushTypes ==
  ASSUME DiskSizes, Values, \E n \in Taken : fflush(n), UNCHANGED <<io_pos, filesize, logfilesize>>
  PROVE  DiskSizes' /\ lost' \in BOOLEAN
<1>1. PICK n \in Taken : fflush(n)
  OBVIOUS
<1>2. disk' \in [0..n - 1 -> Data] /\ lost' \in BOOLEAN /\ n \in Nat
  BY <1>1, FlushLeaves DEF fflush, Values
<1>3. Size' = n
  <2>1. DOMAIN disk' = 0..n - 1
    BY <1>2
  <2> QED BY <1>2, <2>1, RowSize DEF Size
<1>4. ospos' \in Nat
  BY <1>1, <1>2 DEF fflush, Smaller, DiskSizes
<1> QED BY <1>1, <1>2, <1>3, <1>4 DEF DiskSizes, fflush, Data, Old

(* The end of a close keeps the types.                                     *)
LEMMA EndCloseRest == ASSUME Types, EndClose PROVE Rest'
<1>1. /\ op' = "closed" /\ stage' = "done" /\ bufrecnum' = [b \in Buffers |-> -1]
      /\ op = "close" /\ Unwritten = {}
      /\ status' \in {status, "FILE_NOT_CLOSED"}
      /\ UNCHANGED <<io_pos, filesize, logfilesize, bytepos, curbuf, ageindex, dirty, iobuffer,
                   pos, todo, got, answer, calls>>
  BY DEF EndClose, Pending
<1>2. Shape /\ DiskSizes /\ Sizes /\ Values /\ InCall
  BY Facts
<1>3. DiskSizes' /\ lost' \in BOOLEAN
  BY <1>1, <1>2, FlushTypes DEF EndClose
<1>4. Sizes'
  <2>1. \A b \in Buffers : ~dirty[b]
    BY <1>1, <1>2 DEF Unwritten, Sizes
  <2> QED BY <1>1, <1>2, <2>1 DEF Sizes, Buffers
<1>5. Values'
  BY <1>1, <1>2, <1>3 DEF Values, Buffers, Offsets, Data, Old
<1>6. InCall'
  BY <1>1, <1>2 DEF InCall
<1> QED BY <1>3, <1>4, <1>5, <1>6 DEF Rest

(* The steps that move nothing keep the types.                             *)
LEMMA OthersRest ==
  ASSUME Types, EndOfFile \/ Forgive \/ UNCHANGED vars
  PROVE  Rest'
<1>1. Shape /\ DiskSizes /\ Sizes /\ Values /\ InCall
  BY Facts
<1>2. /\ UNCHANGED <<OnDisk, sure, logfilesize, Cache, dirty, iobuffer, pos, todo, got, answer, calls, lost>>
      /\ status' \in {status, "ok", "END_OF_FILE"}
      /\ bytepos' \in {bytepos, pos + todo}
      /\ \/ op' = "idle" /\ stage' = "done"
         \/ UNCHANGED <<op, stage>>
  <2>1. CASE EndOfFile
    BY <2>1 DEF EndOfFile, Done
  <2>3. CASE Forgive
    BY <2>3 DEF Forgive, Call
  <2>4. CASE UNCHANGED vars
    BY <2>4 DEF vars, Call
  <2> QED BY <2>1, <2>3, <2>4
<1>3. DiskSizes' /\ Sizes'
  BY <1>1, <1>2, SameFile, SameRecords DEF Cache
<1>4. pos \in Nat /\ todo \in Nat
  BY <1>1 DEF InCall
<1>5. Values'
  BY <1>1, <1>2, <1>4 DEF Values, Buffers, Offsets, Data, Old
<1>6. InCall'
  <2>1. CASE op' = "idle" /\ stage' = "done"
    BY <1>2, <1>4, <2>1 DEF InCall
  <2>2. CASE UNCHANGED <<op, stage>>
    BY <1>1, <1>2, <2>2 DEF InCall, Transfer, Offset, Start, Record, Cache
  <2> QED BY <1>2, <2>1, <2>2
<1> QED BY <1>3, <1>5, <1>6 DEF Rest

(* The end of a flush keeps the types.                                     *)
LEMMA EndFlushRest == ASSUME Types, EndFlush PROVE Rest'
<1>1. /\ op' = "idle" /\ stage' = "done"
      /\ UNCHANGED <<io_pos, filesize, logfilesize, bytepos, Cache, dirty, iobuffer, status, pos, todo,
                   got, answer, calls>>
  BY DEF EndFlush, Done
<1>2. Shape /\ DiskSizes /\ Sizes /\ Values /\ InCall
  BY Facts
<1>3. DiskSizes' /\ lost' \in BOOLEAN
  BY <1>1, <1>2, FlushTypes DEF EndFlush
<1>4. Sizes'
  BY <1>1, <1>2, SameRecords DEF Cache
<1>5. Values'
  BY <1>1, <1>2, <1>3 DEF Values, Buffers, Offsets, Data, Old
<1>6. InCall'
  BY <1>1, <1>2 DEF InCall
<1> QED BY <1>3, <1>4, <1>5, <1>6 DEF Rest

(* A new file and one just opened are of their types.                      *)
LEMMA InitRest == ASSUME Init PROVE Rest
<1>1. filesize \in Nat /\ filesize <= 2 /\ filesize <= MaxRecords
      /\ logfilesize = Larger(filesize, 1)
      /\ disk = [c \in 0..Start(filesize) - 1 |-> Old] /\ sure = Start(filesize)
      /\ io_pos = (IF filesize = 0 THEN 0 ELSE IOBUFLEN) /\ ospos = io_pos
      /\ bufrecnum = [b \in Buffers |-> IF b = 0 THEN 0 ELSE -1]
      /\ dirty = [b \in Buffers |-> b = 0 /\ filesize = 0]
      /\ iobuffer = [b \in Buffers |-> IF b = 0 /\ filesize > 0
                                       THEN [i \in Offsets |-> Old] ELSE Blank]
      /\ bytepos = 0 /\ status = "ok" /\ op = "idle" /\ stage = "done" /\ pos = 0 /\ todo = 0
      /\ got = <<>> /\ answer = <<>> /\ calls = 0 /\ lost = FALSE
  BY DEF Init
<1>2. Size = Start(filesize) /\ Size \in Nat
  <2>1. Start(filesize) \in Nat
    BY <1>1, Bounds DEF Start
  <2>2. DOMAIN disk = 0..Start(filesize) - 1
    BY <1>1
  <2> QED BY <2>1, <2>2, RowSize DEF Size
<1>3. logfilesize \in Nat /\ logfilesize >= 1 /\ filesize <= logfilesize /\ logfilesize <= MaxRecords
  BY <1>1, Bounds DEF Larger
<1>4. DiskSizes
  <2>1. disk \in [0..Size - 1 -> Data]
    BY <1>1, <1>2, Bounds
  <2> QED BY <1>1, <1>2, <1>3, <2>1, Bounds DEF DiskSizes
<1>5. Sizes
  <2>1. logfilesize \in Nat /\ logfilesize <= MaxRecords
    BY <1>3
  <2>2. ASSUME NEW b \in Buffers
        PROVE  bufrecnum[b] >= -1 /\ bufrecnum[b] < logfilesize /\ (dirty[b] => bufrecnum[b] >= 0)
    <3>1. bufrecnum[b] = (IF b = 0 THEN 0 ELSE -1) /\ (dirty[b] => b = 0)
      BY <1>1
    <3> QED BY <1>3, <3>1
  <2> QED BY <2>1, <2>2 DEF Sizes
<1>6. Values
  <2>1. Blank \in [Offsets -> Data] /\ [i \in Offsets |-> Old] \in [Offsets -> Data]
    BY Bounds DEF Blank
  <2>2. iobuffer \in [Buffers -> [Offsets -> Data]]
    BY <1>1, <2>1
  <2>3. <<>> \in Seq(Data)
    BY EmptySeq
  <2>4. bytepos \in Nat /\ calls \in Nat /\ calls <= MaxCalls
    BY <1>1, BufferAssumption
  <2>5. /\ status \in {"ok", "END_OF_FILE", "READ_ERROR", "WRITE_ERROR", "FILE_NOT_CLOSED"}
        /\ got \in Seq(Data) /\ answer \in Seq(Data) /\ lost \in BOOLEAN
    BY <1>1, <2>3
  <2> QED BY <2>2, <2>4, <2>5 DEF Values
<1>7. InCall
  BY <1>1 DEF InCall
<1> QED BY <1>4, <1>5, <1>6, <1>7 DEF Rest

(* Every step keeps the types.                                             *)
LEMMA TypesKept == Types /\ [Next]_vars => Types'
<1> SUFFICES ASSUME Types, [Next]_vars PROVE Types'
  OBVIOUS
<1>1. WriteInv'
  BY WriteInvKept DEF Types
<1>2. CASE \/ Hit \/ Evict \/ Extend \/ Load
  BY <1>2, HitRest, EvictRest, ExtendRest, LoadRest, <1>1 DEF Types
<1>3. CASE CopyIn \/ CopyOut \/ FillUp \/ WriteBack
  BY <1>3, CopyInRest, CopyOutRest, FillUpRest, WriteBackRest, <1>1 DEF Types
<1>4. CASE WriteDirect \/ ReadDirect \/ EndFlush \/ EndClose \/ EndTruncate
  BY <1>4, WriteDirectRest, ReadDirectRest, EndFlushRest, EndCloseRest, EndTruncateRest, <1>1 DEF Types
<1>5. CASE EndOfFile \/ Forgive \/ UNCHANGED vars
  BY <1>5, OthersRest, <1>1 DEF Types
<1>6. ASSUME calls < MaxCalls, NEW p \in Places, NEW n \in Lengths, p + n - 1 \in Cells,
             Put(p, n) \/ Get(p, n)
      PROVE  Types'
  BY <1>6, PutRest, GetRest, <1>1 DEF Types
<1>7. ASSUME calls < MaxCalls, Flush \/ Close \/ \E r \in 0..MaxRecords : Truncate(r)
      PROVE  Types'
  BY <1>7, OtherCallsRest, <1>1 DEF Types
<1> QED BY <1>2, <1>3, <1>4, <1>5, <1>6, <1>7 DEF Next, Step

(* The same with the invariant of the records.                             *)
LEMMA InitTypes == Init => Types
  BY InitHolds, InitRest DEF Types, WriteInv, Init, AtFill, AtDrop

(* In every state of the buffers, whatever the system refuses, every       *)
(* variable is of its type: no record is numbered past the bound, no       *)
(* buffer is without cells, the file has no holes.                         *)
THEOREM AlwaysTyped == Spec => []TypeOK
<1>1. Types => TypeOK
  <2> SUFFICES ASSUME Types PROVE TypeOK
    OBVIOUS
  <2>1. Shape /\ DiskSizes /\ Sizes /\ Values /\ InCall
    BY Facts
  <2>3. filesize \in 0..MaxRecords /\ logfilesize \in 0..MaxRecords
    BY <2>1, Bounds DEF DiskSizes, Sizes
  <2>4. bufrecnum \in [Buffers -> Records \cup {-1}]
    <3>1. \A b \in Buffers : bufrecnum[b] \in Records \cup {-1}
      BY <2>1, Bounds DEF Shape, Sizes, Records
    <3> QED BY <2>1, <3>1 DEF Shape
  <2>5. /\ op \in {"idle", "put", "get", "flush", "close", "truncate", "closed"}
        /\ stage \in {"done", "move", "load", "copy", "fill", "drop"}
        /\ pos \in Nat /\ todo \in Nat
    BY <2>1 DEF InCall, Transfer
  <2>6. calls \in 0..MaxCalls
    BY <2>1, BufferAssumption DEF Values
  <2> QED BY <2>1, <2>3, <2>4, <2>5, <2>6 DEF TypeOK, DiskSizes, Sizes, Values, Shape
<1> QED BY <1>1, InitTypes, TypesKept, PTL DEF Spec

-----------------------------------------------------------------------------
(* Errors                                                                  *)

(* A refused write is remembered, and is the only error of a write.        *)
LEMMA WriteStatus ==
  ASSUME NEW b \in Buffers, ffbfwt(b)
  PROVE  /\ status' \in {status, "WRITE_ERROR"}
         /\ lost => lost'
         /\ ~lost' => status' = status
<1>1. PICK n, all, missed : Refused(n, all, missed)
  BY Zenon DEF ffbfwt
<1> QED BY <1>1 DEF Refused

(* An error stays for the caller to see whatever the call still does,      *)
(* until a read meets the end of the file; only a truncation, which        *)
(* returns what the driver's returns, forgets it.                          *)
THEOREM ErrorsAreKept == Spec => ErrorIsKept
<1>1. ASSUME [Next]_vars, Failed, op # "truncate" PROVE Failed' \/ status' = "END_OF_FILE"
  <2> USE <1>1 DEF Failed
  <2>0. status \notin {"ok", "END_OF_FILE"}
    OBVIOUS
  <2>1. CASE UNCHANGED vars
    BY <2>1 DEF vars
  <2>2. CASE Forgive
    BY <2>0, <2>2 DEF Forgive
  <2>3. ASSUME NEW p \in Places, NEW n \in Lengths, Put(p, n) \/ Get(p, n) PROVE FALSE
    BY <2>0, <2>3 DEF Put, Get
  <2>4. CASE Flush \/ (\E r \in 0..MaxRecords : Truncate(r))
    BY <2>0, <2>4 DEF Flush, Truncate
  <2>5. CASE Close
    BY <2>5 DEF Close, Begin
  <2>6. CASE Hit \/ EndOfFile \/ Extend \/ CopyIn \/ CopyOut \/ FillUp \/ EndFlush \/ EndClose
    BY <2>6 DEF Hit, EndOfFile, Extend, CopyIn, CopyOut, FillUp, EndFlush, EndClose
  <2>7. CASE Load \/ ReadDirect
    BY <2>7 DEF Load, ReadDirect, ffread
  <2>8. CASE Evict \/ WriteBack
    <3>1. PICK b \in {Victim} \cup Buffers : ffbfwt(b) \/ UNCHANGED status
      BY <2>8, Zenon DEF Evict, WriteBack
    <3>2. CASE ffbfwt(b)
      <4>1. PICK n, all, missed : Refused(n, all, missed)
        BY <3>2, Zenon DEF ffbfwt
      <4> QED BY <4>1 DEF Refused
    <3> QED BY <3>1, <3>2
  <2>9. CASE WriteDirect
    <3>1. PICK short, n, whole : status' = IF short THEN "READ_ERROR"
                                           ELSE IF n < whole THEN "WRITE_ERROR" ELSE status
      BY <2>9, Zenon DEF WriteDirect
    <3> QED BY <3>1
  <2>10. CASE EndTruncate
    BY <2>10 DEF EndTruncate
  <2> QED BY <2>1, <2>2, <2>3, <2>4, <2>5, <2>6, <2>7, <2>8, <2>9, <2>10 DEF Next, Step
<1> QED BY <1>1, PTL DEF Spec, ErrorIsKept

-----------------------------------------------------------------------------
(* What a step does to the cells that the routines above see               *)

SameView == \A c \in Cells : CellAt(c)' = CellAt(c)
Overwritten(a, b) ==
    \A c \in Cells : CellAt(c)' = IF a <= c /\ c < b THEN calls ELSE CellAt(c)
CutFrom(a) == \A c \in Cells : CellAt(c)' = IF c < a THEN CellAt(c) ELSE Fill

(* The call asks for what it asked for before.                             *)
Silent == {"idle", "flush", "close", "closed"}
SameRequest ==
    \/ UNCHANGED <<op, pos, todo, got, calls>>
    \/ op \in Silent /\ op' \in Silent
    \/ /\ op = "get" /\ op' = "get"
       /\ pos' - Len(got') = pos - Len(got) /\ pos' + todo' = pos + todo

(* Nothing changes, as far as they can tell; or a read is answered, with   *)
(* all the cells it asked for or with none; or the next cells of a write   *)
(* are written; or the file is cut.                                        *)
Unseen == SameView /\ UNCHANGED answer /\ SameRequest
ReadEnds ==
    /\ op = "get" /\ op' = "idle" /\ SameView
    /\ \/ answer' = <<>>
       \/ /\ Len(got) <= pos
          /\ answer' = [i \in 1..todo + Len(got) |-> CellAt(pos - Len(got) + i - 1)]
WriteOf(n) ==
    /\ op = "put" /\ UNCHANGED <<answer, calls>> /\ Overwritten(pos, pos + n)
    /\ \/ n = todo /\ op' = "idle"
       \/ n < todo /\ op' = "put" /\ pos' = pos + n /\ todo' = todo - n
CutEnds == op = "truncate" /\ op' = "idle" /\ UNCHANGED answer /\ CutFrom(pos)

Effect == Unseen \/ ReadEnds \/ (\E n \in 1..todo : WriteOf(n)) \/ CutEnds

(* A step of a call that nothing has failed in, and no write does now.     *)
Live == Types /\ Types' /\ Fit /\ Sound /\ ~lost'

(* The parts of the types after a step, by name.                           *)
LEMMA NextFacts ==
  ASSUME Types'
  PROVE  /\ Shape' /\ OneBuffer' /\ Marked'
         /\ DiskSizes' /\ Sizes' /\ Values' /\ InCall'
BY DEF Types, Rest, WriteInv, Inv

(* What the record of a cell is, in the arithmetic the proofs use.         *)
LEMMA CellIs ==
  ASSUME NEW c \in Cells
  PROVE  /\ c \in Nat /\ Record(c) \in Nat /\ Record(c) < MaxRecords
         /\ c - Start(Record(c)) \in Offsets /\ Start(Record(c)) \in Int
         /\ \A f \in Int : Record(c) < f <=> c < Start(f)
<1>1. c \in Nat /\ c < Start(MaxRecords)
  <2>1. c \in 0..Start(MaxRecords) - 1
    BY DEF Cells, Start
  <2> QED BY <2>1, Bounds, StartIs
<1>2. Record(c) \in Nat
  BY <1>1, RecordOf
<1> QED BY <1>1, <1>2, RecordOrder, OffsetOf, StartIs, Bounds

(* A cell whose record is in no buffer is the file's.                      *)
LEMMA UncachedCell ==
  ASSUME NEW recs, NEW cells, NEW size \in Int, NEW file, DOMAIN file = 0..Start(size) - 1,
         NEW c \in Cells, \A b \in Buffers : recs[b] # Record(c)
  PROVE  ViewOf(recs, cells, size, file, c) = IF Record(c) < size THEN file[c] ELSE Fill
<1>1. Record(c) < size <=> c < Start(size)
  BY CellIs
<1>2. c \in Nat /\ Start(size) \in Int
  BY CellIs, StartIs
<1>3. Record(c) < size => c \in DOMAIN file
  BY <1>1, <1>2
<1> QED BY <1>3, ViewUncached

(* The file is as long as the library believes.                            *)
LEMMA FileIs ==
  /\ Types /\ Position => DOMAIN disk = 0..Start(filesize) - 1 /\ Distinct(bufrecnum)
  /\ Types' /\ Position' => DOMAIN disk' = 0..Start(filesize') - 1 /\ Distinct(bufrecnum')
<1>1. ASSUME Types, Position PROVE DOMAIN disk = 0..Start(filesize) - 1 /\ Distinct(bufrecnum)
  BY <1>1, Facts DEF DiskSizes, Position, OneBuffer, Distinct
<1>2. ASSUME Types', Position' PROVE DOMAIN disk' = 0..Start(filesize') - 1 /\ Distinct(bufrecnum')
  <2>1. disk' \in [0..Size' - 1 -> Data'] /\ Size' = Start(filesize')
    BY <1>2, NextFacts DEF DiskSizes, Position, Start
  <2>2. Distinct(bufrecnum')
    BY <1>2, NextFacts, Zenon DEF OneBuffer, Distinct, Buffers
  <2> QED BY <2>1, <2>2
<1> QED BY <1>1, <1>2

(* Nothing of the cells changes, on the file or in the buffers.            *)
LEMMA SameCells ==
  ASSUME Clean, Last, UNCHANGED <<disk, filesize, logfilesize, bufrecnum, dirty, iobuffer>>
  PROVE  SameView /\ Clean' /\ Last'
<1>1. \A c \in Cells : CellAt(c)' = CellAt(c)
  BY Views
<1>2. SameView
  BY <1>1 DEF SameView
<1>3. Clean'
  <2>1. \A r : Due(r)' = Due(r)
    BY DEF Due, Buffers
  <2> QED BY <1>1, <2>1 DEF Clean, Record, Cells
<1>4. Last'
  BY DEF Last, Cached, Buffers
<1> QED BY <1>2, <1>3, <1>4

(* Where neither file nor buffers change, they still fit.                  *)
LEMMA SameFit ==
  ASSUME Fit, UNCHANGED <<OnDisk, logfilesize, bufrecnum, dirty, iobuffer>>
  PROVE  SameView /\ Position' /\ Clean' /\ Last'
<1>1. Position'
  BY DEF Fit, Position, OnDisk, Size, Start
<1>2. Clean /\ Last /\ UNCHANGED <<disk, filesize>>
  BY DEF Fit, OnDisk
<1> QED BY <1>1, <1>2, SameCells

(* The records W were written, and buffers that are not due were dropped.  *)
WroteBack(W) ==
    /\ UNCHANGED <<iobuffer, logfilesize>>
    /\ filesize' >= filesize /\ \A r \in W : r < filesize'
    /\ \A c \in Cells : Record(c) \in W => disk'[c] = CellAt(c)
    /\ \A c \in Cells : Record(c) < filesize' /\ Record(c) \notin W
                          => Record(c) < filesize /\ disk'[c] = disk[c]
    /\ \A x \in Buffers : dirty'[x] = (dirty[x] /\ bufrecnum[x] \notin W)
    /\ \A x \in Buffers : \/ bufrecnum'[x] = bufrecnum[x]
                          \/ bufrecnum'[x] = -1 /\ (bufrecnum[x] \in W \/ ~dirty[x])

(* Buffers written back leave the view alone.                              *)
LEMMA WroteBackFits ==
  ASSUME Types, Types', Position, Clean, Last, Position', NEW W, WroteBack(W)
  PROVE  SameView /\ Clean' /\ Last'
<1>0. /\ Shape /\ OneBuffer /\ Marked /\ Sizes /\ DiskSizes
      /\ Shape' /\ OneBuffer' /\ Marked' /\ Sizes' /\ DiskSizes'
  BY Facts, NextFacts
<1>1. ASSUME NEW c \in Cells
      PROVE  /\ CellAt(c)' = CellAt(c)
             /\ Record(c) < filesize' /\ ~Due(Record(c))' => disk'[c] = CellAt(c)
  <2> DEFINE r == Record(c)
             o == c - Start(r)
             V == CellAt(c)
  <2>1. r \in Nat /\ r # -1
    BY CellIs
  <2>2. /\ V = ViewOf(bufrecnum, iobuffer, filesize, disk, c)
        /\ CellAt(c)' = ViewOf(bufrecnum', iobuffer', filesize', disk', c)
    BY Views
  <2>3. /\ r \in W => r < filesize' /\ disk'[c] = V
        /\ r < filesize' /\ r \notin W => r < filesize /\ disk'[c] = disk[c]
        /\ r < filesize => r < filesize'
    BY <1>0, <2>1 DEF WroteBack, Shape
  <2>4. r < filesize /\ ~Due(r) => disk[c] = V
    BY DEF Clean
  <2>5. /\ DOMAIN disk = 0..Start(filesize) - 1 /\ Distinct(bufrecnum)
        /\ DOMAIN disk' = 0..Start(filesize') - 1 /\ Distinct(bufrecnum')
    BY FileIs
  <2>6. (\A x \in Buffers : bufrecnum'[x] # r) => CellAt(c)' = IF r < filesize' THEN disk'[c] ELSE Fill
    <3>1. filesize' \in Int
      BY <1>0 DEF Shape
    <3> QED BY <2>2, <2>5, <3>1, UncachedCell
  <2>7. (\A x \in Buffers : bufrecnum[x] # r) => V = IF r < filesize THEN disk[c] ELSE Fill
    <3>1. filesize \in Int
      BY <1>0 DEF Shape
    <3> QED BY <2>2, <2>5, <3>1, UncachedCell
  <2> HIDE DEF V
  <2>8. CellAt(c)' = V
    <3>1. CASE \E x \in Buffers : bufrecnum[x] = r /\ bufrecnum'[x] = r
      <4>1. PICK x \in Buffers : bufrecnum[x] = r /\ bufrecnum'[x] = r
        BY <3>1
      <4>2. V = iobuffer[x][o]
        BY <2>1, <2>2, <2>5, <4>1, ViewCached
      <4>3. CellAt(c)' = iobuffer'[x][o]
        BY <2>1, <2>2, <2>5, <4>1, ViewCached
      <4> QED BY <4>2, <4>3 DEF WroteBack
    <3>2. CASE \E x \in Buffers : bufrecnum[x] = r /\ bufrecnum'[x] # r
      <4>1. PICK x \in Buffers : bufrecnum[x] = r /\ bufrecnum'[x] # r
        BY <3>2
      <4>2. bufrecnum[x] \in W \/ ~dirty[x]
        BY <4>1 DEF WroteBack
      <4>3. \A y \in Buffers : bufrecnum[y] = r => y = x
        BY <2>1, <4>1, <1>0 DEF OneBuffer
      <4>4. \A y \in Buffers : bufrecnum'[y] # r
        BY <2>1, <4>1, <4>3 DEF WroteBack
      <4>5. CASE r \in W
        BY <2>3, <2>6, <4>4, <4>5
      <4>6. CASE r \notin W
        <5>1. ~dirty[x] /\ r < filesize
          BY <1>0, <2>1, <4>1, <4>2, <4>6 DEF Marked, Shape
        <5>2. ~Due(r)
          BY <4>3, <5>1 DEF Due
        <5> QED BY <2>3, <2>4, <2>6, <4>4, <4>6, <5>1, <5>2
      <4> QED BY <4>5, <4>6
    <3>3. CASE \A x \in Buffers : bufrecnum[x] # r
      <4>1. \A x \in Buffers : bufrecnum'[x] # r
        BY <2>1, <3>3 DEF WroteBack
      <4>2. CASE r < filesize'
        BY <2>3, <2>6, <2>7, <3>3, <4>1, <4>2
      <4>3. CASE ~(r < filesize')
        BY <2>3, <2>6, <2>7, <3>3, <4>1, <4>3
      <4> QED BY <4>2, <4>3
    <3> QED BY <3>1, <3>2, <3>3
  <2>9. ASSUME r < filesize', ~Due(r)' PROVE disk'[c] = V
    <3>1. CASE r \in W
      BY <2>3, <3>1
    <3>2. CASE r \notin W
      <4>1. ~Due(r)
        <5> SUFFICES ASSUME NEW x \in Buffers, bufrecnum[x] = r, dirty[x] PROVE FALSE
          BY DEF Due
        <5>1. bufrecnum'[x] = r /\ dirty'[x]
          BY <3>2 DEF WroteBack
        <5> QED BY <2>9, <5>1 DEF Due, Buffers, Record
      <4> QED BY <2>3, <2>4, <2>9, <3>2, <4>1
    <3> QED BY <3>1, <3>2
  <2> QED BY <2>8, <2>9 DEF V
<1>2. Clean'
  BY <1>1 DEF Clean, Cells, Record
<1>3. Last'
  <2> SUFFICES ASSUME logfilesize > filesize'
               PROVE  \E x \in Buffers : bufrecnum'[x] = logfilesize - 1
    BY DEF Last, Cached, WroteBack, Buffers
  <2>1. logfilesize > filesize /\ logfilesize \in Nat /\ filesize \in Nat
        /\ filesize' \in Nat /\ filesize' >= filesize
    BY <1>0 DEF WroteBack, DiskSizes, Sizes
  <2>2. PICK x \in Buffers : bufrecnum[x] = logfilesize - 1
    BY <2>1 DEF Last, Cached
  <2>3. bufrecnum[x] # -1 /\ bufrecnum[x] >= filesize /\ ~(bufrecnum[x] < filesize')
    BY <2>1, <2>2
  <2>4. dirty[x] /\ bufrecnum[x] \notin W
    BY <1>0, <2>3 DEF Marked, WroteBack
  <2> QED BY <2>2, <2>4 DEF WroteBack
<1> QED BY <1>1, <1>2, <1>3 DEF SameView

-----------------------------------------------------------------------------
(* Writing a buffer                                                        *)

(* The records that are written with buffer b: its own, and those missing  *)
(* before it.                                                              *)
With(b) == Smaller(bufrecnum[b], filesize)..bufrecnum[b]

(* A cell is the start of its record and the remainder.                    *)
LEMMA RemainderOf == \A i \in Nat : i = Start(Record(i)) + (i % IOBUFLEN)
<1> SUFFICES ASSUME NEW i \in Nat PROVE i = Start(Record(i)) + (i % IOBUFLEN)
  OBVIOUS
<1> DEFINE L == IOBUFLEN
           q == i \div L
<1>1. L \in Nat /\ L > 0
  BY BufferAssumption
<1>2. q \in Int /\ i = (L * q) + (i % L) /\ i % L \in Int
  BY <1>1
<1>3. q * L = L * q
  BY <1>1, <1>2
<1> QED BY <1>2, <1>3 DEF Start, Record

(* The file f has a row of n cells at p, and the old cells elsewhere.      *)
IsRow(f, p, n, row) ==
    /\ f \in [0..SizeAfter(p, n) - 1 -> Data]
    /\ \A c \in 0..SizeAfter(p, n) - 1 :
          f[c] = IF p <= c /\ c < p + n THEN row[c - p] ELSE IF c < Size THEN disk[c] ELSE Fill

(* A write puts its row at its place and leaves the rest.                  *)
LEMMA WrittenRow ==
  ASSUME Size \in Nat, disk \in [0..Size - 1 -> Data], Fill \in Data,
         NEW p \in Nat, NEW n \in Nat, NEW row \in [0..n - 1 -> Data]
  PROVE  SizeAfter(p, n) \in Nat /\ IsRow(Written(p, n, row), p, n, row)
<1>1. /\ SizeAfter(p, n) \in Nat
      /\ Written(p, n, row) \in [0..SizeAfter(p, n) - 1 -> Data]
      /\ \A c \in 0..SizeAfter(p, n) - 1 :
             Written(p, n, row)[c] = IF p <= c /\ c < p + n THEN row[c - p]
                                     ELSE IF c < Size THEN disk[c] ELSE Fill
  BY WrittenIs
<1> QED BY <1>1, Zenon DEF IsRow

(* A write that is not refused appends what is missing and the buffer, and *)
(* leaves the stream where the library believes it is.                     *)
LEMMA WritesBack ==
  ASSUME Types, Position, status = "ok", ~lost', Types',
         NEW b \in Buffers, bufrecnum[b] >= 0, ffbfwt(b), UNCHANGED <<iobuffer, logfilesize>>
  PROVE  /\ Position' /\ status' = "ok" /\ bufrecnum[b] \in With(b) /\ filesize' > bufrecnum[b]
         /\ (\A x \in Buffers : \/ bufrecnum'[x] = bufrecnum[x]
                                \/ bufrecnum'[x] = -1 /\ (bufrecnum[x] \in With(b) \/ ~dirty[x]))
            => WroteBack(With(b))
<1> DEFINE hi == bufrecnum[b]
           lo == Smaller(hi, filesize)
           out == {r \in lo..hi : Cached(r) \/ status = "ok"}
           at == SeekTo(Start(lo))
<1>1. /\ DiskSizes /\ Sizes /\ Values /\ Shape
  BY Facts
<1>2. /\ hi \in Nat /\ lo \in Nat /\ lo <= hi /\ lo <= filesize /\ filesize \in Nat
      /\ lo = hi \/ lo = filesize
      /\ hi + 1 <= MaxRecords
  BY <1>1, Bounds DEF Shape, Sizes, DiskSizes, Smaller
<1>3. PICK n \in Accepted(Cardinality(out)), missed \in Misses(Start(lo)) :
          /\ disk' = Written(Sought(Start(lo), missed), Start(n), [i \in 0..Start(n) - 1 |->
                         CellAt(Start(Nth(out, Record(i))) + (i % IOBUFLEN))])
          /\ ospos' = Sought(Start(lo), missed) + Start(n)
          /\ io_pos' = Start(hi + 1)
          /\ filesize' = Larger(filesize, hi + 1)
          /\ dirty' = [x \in Buffers |-> dirty[x] /\ bufrecnum[x] \notin lo..hi]
          /\ Refused(n, Cardinality(out), missed)
  BY Zenon DEF ffbfwt
<1> DEFINE k == hi - lo + 1
<1>4. out = lo..hi /\ Cardinality(out) = k /\ k \in Nat
  <2>1. Cardinality(lo..hi) = IF lo > hi THEN 0 ELSE hi - lo + 1
    <3>1. lo \in Int /\ hi \in Int
      BY <1>2
    <3> HIDE DEF lo, hi
    <3> QED BY <3>1, FS_Interval, Zenon
  <2>2. out = lo..hi
    BY Zenon
  <2>3. Cardinality(out) = Cardinality(lo..hi)
    BY <2>2, Zenon
  <2> QED BY <1>2, <2>1, <2>2, <2>3
<1>6. With(b) = lo..hi /\ lo + k = hi + 1
  BY <1>2 DEF With
<1> HIDE DEF lo, out, k, hi
<1>5. n = k /\ status' = "ok" /\ ~missed
  <2>1. /\ lost' = (lost \/ missed \/ n < Cardinality(out))
        /\ status' = IF n < Cardinality(out) THEN "WRITE_ERROR" ELSE status
    BY <1>3, Zenon DEF Refused
  <2>2. n \in 0..k
    BY <1>4 DEF Accepted
  <2>3. ~missed /\ ~(n < Cardinality(out))
    BY <2>1, Zenon
  <2>4. status' = status /\ ~(n < k)
    BY <1>4, <2>1, <2>3, Zenon
  <2> QED BY <1>4, <2>2, <2>3, <2>4
<1>7. at = Start(lo) /\ Sought(Start(lo), missed) = at
  BY <1>5, NotMissed, Zenon DEF SeekTo, Position
<1>8. /\ Start(lo) \in Nat /\ Start(k) \in Nat /\ Start(hi + 1) = Start(lo) + Start(k)
      /\ Start(filesize) \in Nat /\ Start(lo) <= Start(filesize) /\ Start(hi + 1) \in Nat
  <2>1. Start(lo + k) = Start(lo) + Start(k) /\ lo + k = hi + 1
    BY <1>2, <1>4, <1>6, StartAdd
  <2>2. Start(lo) \in Nat /\ Start(k) \in Nat /\ Start(filesize) \in Nat /\ Start(hi + 1) \in Nat
    BY <1>2, <1>4, Bounds DEF Start
  <2>3. Start(lo) <= Start(filesize)
    BY <1>2, StartOrder
  <2> QED BY <2>1, <2>2, <2>3
<1> DEFINE row == [i \in 0..Start(n) - 1 |->
                      CellAt(Start(Nth(out, Record(i))) + (i % IOBUFLEN))]
<1>9. /\ row \in [0..Start(k) - 1 -> Data]
      /\ \A i \in 0..Start(k) - 1 : row[i] = CellAt(Start(lo) + i)
  <2>1. ASSUME NEW i \in 0..Start(k) - 1
        PROVE  Start(Nth(out, Record(i))) + (i % IOBUFLEN) = Start(lo) + i
    <3>1. i \in Nat /\ i < Start(k)
      BY <1>8
    <3>2. Record(i) \in Nat /\ Record(i) < k
      BY <1>4, <3>1, RecordOf, RecordOrder
    <3>3. Nth(out, Record(i)) = lo + Record(i)
      <4>1. lo \in Int /\ hi \in Int /\ lo + Record(i) <= hi
        BY <1>2, <1>4, <1>6, <3>2
      <4>2. Nth(lo..hi, Record(i)) = lo + Record(i)
        BY <3>2, <4>1, NthOfInterval
      <4> QED BY <1>4, <4>2, Zenon
    <3>4. Start(lo + Record(i)) = Start(lo) + Start(Record(i))
      BY <1>2, <3>2, StartAdd
    <3>5. i = Start(Record(i)) + (i % IOBUFLEN)
      BY <3>1, RemainderOf
    <3>6. Start(Record(i)) \in Int /\ i % IOBUFLEN \in Int
      BY <3>1, <3>2, StartIs, Bounds
    <3> QED BY <1>4, <1>8, <3>1, <3>3, <3>4, <3>5, <3>6
  <2>2. row = [i \in 0..Start(k) - 1 |-> CellAt(Start(lo) + i)]
    BY <1>5, <2>1, Zenon
  <2>3. \A i \in 0..Start(k) - 1 : CellAt(Start(lo) + i) \in Data
    <3> SUFFICES ASSUME NEW i \in 0..Start(k) - 1 PROVE CellAt(Start(lo) + i) \in Data
      OBVIOUS
    <3>1. Start(lo) + i \in Int
      BY <1>8
    <3> QED BY <1>1, <3>1, CellIsData
  <2> HIDE DEF row
  <2> QED BY <2>2, <2>3
<1>10. disk' = Written(Start(lo), Start(k), row)
  BY <1>3, <1>5, <1>7
<1> HIDE DEF row, at
<1> DEFINE m == SizeAfter(Start(lo), Start(k))
<1>11. /\ m \in Nat
       /\ disk' \in [0..m - 1 -> Data]
       /\ \A c \in 0..m - 1 :
             disk'[c] = IF Start(lo) <= c /\ c < Start(lo) + Start(k) THEN row[c - Start(lo)]
                        ELSE IF c < Size THEN disk[c] ELSE Fill
  <2>1. Size \in Nat /\ disk \in [0..Size - 1 -> Data] /\ Fill \in Data
    BY <1>1, Bounds DEF DiskSizes
  <2>2. m \in Nat /\ IsRow(disk', Start(lo), Start(k), row)
    BY <1>8, <1>9, <1>10, <2>1, WrittenRow
  <2> QED BY <2>2, Zenon DEF IsRow
<1>12. k > 0 /\ Start(k) > 0
  <2>1. k > 0
    BY <1>2, <1>4, <1>6
  <2>2. Start(0) + IOBUFLEN <= Start(k)
    BY <1>4, <2>1, StartOrder
  <2> QED BY <1>8, <2>1, <2>2, StartIs, Bounds
<1>13. filesize' \in Nat /\ filesize' >= filesize /\ filesize' >= hi + 1 /\ filesize' \in {filesize, hi + 1}
  BY <1>2, <1>3 DEF Larger
<1>14. Start(filesize') = m
  <2>1. m = Larger(Start(filesize), Start(hi + 1))
    BY <1>8, <1>12 DEF SizeAfter, Position
  <2>2. Start(filesize) <= Start(filesize') /\ Start(hi + 1) <= Start(filesize')
    BY <1>2, <1>13, StartOrder
  <2>3. Start(filesize') \in {Start(filesize), Start(hi + 1)}
    BY <1>13
  <2> HIDE DEF m
  <2> QED BY <1>8, <2>1, <2>2, <2>3 DEF Larger
<1> HIDE DEF m
<1>15. Position'
  <2>1. DOMAIN disk' = 0..m - 1
    BY <1>11
  <2>2. Size' = m
    BY <1>11, <2>1, RowSize DEF Size
  <2>3. ospos' = io_pos'
    BY <1>3, <1>5, <1>7, <1>8
  <2> QED BY <1>14, <2>2, <2>3 DEF Position, Start
<1>16. ASSUME NEW c \in Cells
       PROVE  /\ Record(c) \in lo..hi => disk'[c] = CellAt(c)
              /\ Record(c) < filesize' /\ Record(c) \notin lo..hi
                   => Record(c) < filesize /\ disk'[c] = disk[c]
  <2>1. /\ c \in Nat /\ Record(c) \in Nat
        /\ Record(c) < lo <=> c < Start(lo)
        /\ Record(c) < hi + 1 <=> c < Start(hi + 1)
        /\ Record(c) < filesize <=> c < Start(filesize)
        /\ Record(c) < filesize' <=> c < Start(filesize')
    <3>1. lo \in Int /\ hi + 1 \in Int /\ filesize \in Int /\ filesize' \in Int
      BY <1>2, <1>13
    <3> QED BY <3>1, CellIs
  <2>2. Record(c) < filesize' => c \in 0..m - 1
    BY <1>11, <1>14, <2>1
  <2>3. ASSUME Record(c) \in lo..hi PROVE disk'[c] = CellAt(c)
    <3>1. Start(lo) <= c /\ c < Start(lo) + Start(k) /\ Record(c) < filesize'
      BY <1>2, <1>8, <1>13, <2>1, <2>3
    <3>2. disk'[c] = row[c - Start(lo)]
      BY <1>11, <2>2, <3>1
    <3>3. c - Start(lo) \in 0..Start(k) - 1 /\ Start(lo) + (c - Start(lo)) = c
      BY <1>8, <2>1, <3>1
    <3> QED BY <1>9, <3>2, <3>3
  <2>4. ASSUME Record(c) < filesize', Record(c) \notin lo..hi
        PROVE  Record(c) < filesize /\ disk'[c] = disk[c]
    <3>1. Record(c) < lo \/ ~(Record(c) < hi + 1)
      BY <1>2, <2>1, <2>4
    <3>2. Record(c) < filesize
      BY <1>2, <1>13, <2>1, <2>4, <3>1
    <3>3. ~(Start(lo) <= c /\ c < Start(lo) + Start(k)) /\ c < Size
      BY <1>8, <2>1, <3>1, <3>2 DEF Position
    <3>4. c \in 0..m - 1
      BY <2>2, <2>4
    <3>5. disk'[c] = IF Start(lo) <= c /\ c < Start(lo) + Start(k) THEN row[c - Start(lo)]
                        ELSE IF c < Size THEN disk[c] ELSE Fill
      BY <1>11, <3>4
    <3> QED BY <3>2, <3>3, <3>5
  <2> QED BY <2>3, <2>4
<1>17. \A x \in Buffers : dirty'[x] = (dirty[x] /\ bufrecnum[x] \notin lo..hi)
  BY <1>3, Zenon
<1>18. \A r \in lo..hi : r < filesize'
  BY <1>2, <1>13
<1>19. hi \in lo..hi /\ filesize' > hi
  BY <1>2, <1>13
<1>20. ASSUME \A x \in Buffers : \/ bufrecnum'[x] = bufrecnum[x]
                                 \/ bufrecnum'[x] = -1 /\ (bufrecnum[x] \in lo..hi \/ ~dirty[x])
       PROVE  WroteBack(lo..hi)
  BY <1>13, <1>16, <1>17, <1>18, <1>20 DEF WroteBack
<1> QED BY <1>5, <1>6, <1>15, <1>19, <1>20 DEF hi

-----------------------------------------------------------------------------
(* What the steps leave of it: those that change no cell                   *)

Kept == (status' # "READ_ERROR" => Fit') /\ Effect

(* What a read has collected is still what the file holds.                 *)
LEMMA StillCollected ==
  ASSUME Types, Collected, SameView, UNCHANGED <<got, pos>>,
         op' = "get" /\ stage' \in {"move", "load", "copy"}
           => op = "get" /\ stage \in {"move", "load", "copy"}
  PROVE  Collected'
<1> SUFFICES ASSUME op = "get", stage \in {"move", "load", "copy"}
             PROVE  \E p \in 0..pos : /\ p + Len(got) = pos
                                      /\ \A c \in p..pos - 1 : got[c - p + 1] = CellAt(c)'
  BY DEF Collected
<1>1. pos \in Nat /\ todo \in Nat /\ pos + todo <= Start(MaxRecords)
  BY Facts DEF InCall, Transfer
<1>2. PICK p \in 0..pos : /\ p + Len(got) = pos
                          /\ \A c \in p..pos - 1 : got[c - p + 1] = CellAt(c)
  BY DEF Collected
<1>3. Start(MaxRecords) \in Int /\ Cells = 0..Start(MaxRecords) - 1
  BY StartIs, Bounds DEF Cells, Start
<1>4. p..pos - 1 \subseteq Cells
  BY <1>1, <1>3
<1>5. \A c \in p..pos - 1 : CellAt(c)' = CellAt(c)
  BY <1>4 DEF SameView
<1> QED BY <1>2, <1>5

(* A call is over: there is nothing collected, and nothing to reach.       *)
LEMMA OverFits ==
  ASSUME Position', Clean', Last', op' = "idle", stage' = "done"
  PROVE  Fit'
BY DEF Fit, Adjoins, Collected, Unanswered

(* Within a call nothing has failed at all.                                *)
LEMMA Busy == ASSUME Live, op # "idle" PROVE status = "ok"
BY DEF Live, Sound

(* A buffer that is found becomes the youngest; nothing else happens.      *)
LEMMA HitFits == ASSUME Live, Hit PROVE Kept
<1>1. /\ UNCHANGED <<OnDisk, logfilesize, bufrecnum, dirty, iobuffer, status, pos, todo, got, answer, calls>>
      /\ Loading
  BY DEF Hit
<1>2. PICK i \in Buffers : Touch(i)
  BY DEF Hit
<1>3. /\ Types /\ Fit /\ Collected /\ Unanswered /\ Sound
  BY DEF Live, Fit
<1>4. SameView /\ Position' /\ Clean' /\ Last'
  BY <1>1, <1>3, SameFit
<1>5. stage' \in {"copy", "fill"} /\ op' = op /\ op # "idle"
  <2>1. op # "idle"
    BY <1>1, <1>3, Facts DEF Loading, InCall, Transfer
  <2>2. status' = "ok"
    BY <1>1, <2>1, Busy
  <2> QED BY <1>1, <1>2, <2>1, <2>2 DEF Touch, Ready, Loading
<1>6. Collected'
  <2>1. op' = "get" /\ stage' \in {"move", "load", "copy"} => op = "get" /\ stage \in {"move", "load", "copy"}
    BY <1>1, <1>5 DEF Loading
  <2> QED BY <1>1, <1>3, <1>4, <2>1, StillCollected
<1>7. Adjoins' /\ Unanswered'
  BY <1>1, <1>3, <1>5 DEF Adjoins, Unanswered
<1>8. Unseen
  BY <1>1, <1>4, <1>5 DEF Unseen, SameRequest
<1> QED BY <1>1, <1>4, <1>6, <1>7, <1>8 DEF Kept, Fit, Effect

(* A read that meets the end of the file, and a flush that is not refused. *)
LEMMA EndsFit ==
  ASSUME Live, EndOfFile \/ EndFlush
  PROVE  Kept
<1>1. /\ UNCHANGED <<OnDisk, logfilesize, bufrecnum, dirty, iobuffer, answer>>
      /\ op' = "idle" /\ stage' = "done"
  <2>1. CASE EndOfFile
    BY <2>1 DEF EndOfFile, Done, Cache
  <2>2. CASE EndFlush
    <3>1. PICK n \in Taken : fflush(n)
      BY <2>2 DEF EndFlush
    <3>2. n = Size /\ [c \in 0..n - 1 |-> disk[c]] = disk
      <4>1. DiskSizes /\ lost \in BOOLEAN /\ ~lost'
        BY Facts DEF Live, Values
      <4> QED BY <3>1, <4>1, FlushLeaves DEF fflush
    <3>3. UNCHANGED <<disk, ospos>>
      BY <3>1, <3>2 DEF fflush
    <3> QED BY <2>2, <3>3 DEF EndFlush, Done, Cache, OnDisk
  <2> QED BY <2>1, <2>2
<1>2. SameView /\ Position' /\ Clean' /\ Last'
  BY <1>1, SameFit DEF Live
<1>3. Effect
  <2>1. CASE EndOfFile
    <3>1. op = "get"
      BY <2>1 DEF EndOfFile, PastEnd
    <3>2. answer' = <<>>
      BY <1>1, <3>1 DEF Live, Fit, Unanswered
    <3> QED BY <1>1, <1>2, <3>1, <3>2 DEF Effect, ReadEnds
  <2>2. CASE EndFlush
    <3>1. op \in Silent /\ op' \in Silent
      BY <1>1, <2>2 DEF EndFlush, Flushed, Silent
    <3> QED BY <1>1, <1>2, <3>1 DEF Effect, Unseen, SameRequest
  <2> QED BY <2>1, <2>2
<1> QED BY <1>1, <1>2, <1>3, OverFits DEF Kept

(* A caller that forgives END_OF_FILE touches no cell.                     *)
LEMMA ForgiveFits ==
  ASSUME Live, Forgive \/ UNCHANGED vars
  PROVE  Kept
<1>1. /\ UNCHANGED <<OnDisk, logfilesize, curbuf, bufrecnum, dirty, iobuffer, answer, op, stage, pos,
                   todo, got, calls>>
  BY DEF Forgive, vars, Cache, Call
<1>2. Fit
  BY DEF Live
<1>3. SameView /\ Position' /\ Clean' /\ Last'
  BY <1>1, <1>2, SameFit
<1>4. Collected'
  BY <1>1, <1>2, <1>3, StillCollected DEF Live, Fit
<1>5. Adjoins' /\ Unanswered'
  BY <1>1, <1>2 DEF Fit, Adjoins, Unanswered, Record, OnDisk
<1>6. Unseen
  BY <1>1, <1>3 DEF Unseen, SameRequest
<1> QED BY <1>1, <1>3, <1>4, <1>5, <1>6 DEF Kept, Fit, Effect

(* A call begins: the last answer is forgotten.                            *)
LEMMA BeginFits ==
  ASSUME Types, Fit, NEW o, NEW st, NEW p \in Nat, NEW n, Begin(o, st, p, n),
         st = "drop" => o # "put"
  PROVE  SameView /\ Fit' /\ got' = <<>> /\ answer' = <<>>
<1>1. /\ UNCHANGED <<OnDisk, logfilesize, bufrecnum, dirty, iobuffer>>
      /\ got' = <<>> /\ answer' = <<>> /\ op' = o /\ stage' = st /\ pos' = p
  BY DEF Begin, Cache
<1>2. SameView /\ Position' /\ Clean' /\ Last'
  BY <1>1, SameFit
<1>3. Adjoins' /\ Unanswered'
  BY <1>1 DEF Adjoins, Unanswered
<1>4. Collected'
  <2>1. Len(got') = 0 /\ pos' \in 0..pos' /\ pos' + Len(got') = pos'
    BY <1>1
  <2>2. \A c \in pos'..pos' - 1 : FALSE
    BY <1>1
  <2> QED BY <2>1, <2>2 DEF Collected
<1> QED BY <1>1, <1>2, <1>3, <1>4 DEF Fit

(* Every call but a close after an error begins like that.                 *)
LEMMA CallsBegin ==
  ASSUME Types,
         \/ \E p \in Places, n \in Lengths : Put(p, n) \/ Get(p, n)
         \/ Flush \/ Close
         \/ \E r \in 0..MaxRecords : Truncate(r)
  PROVE  /\ \E o, st, n : \E p \in Nat : Begin(o, st, p, n) /\ (st = "drop" => o # "put")
         /\ Close \/ (status = "ok" /\ op' # "close")
<1>1. ASSUME NEW p \in Places, NEW n \in Lengths, Put(p, n)
      PROVE  /\ \E st : Begin("put", st, p, n) /\ st # "drop"
             /\ status = "ok" /\ op' # "close"
  BY <1>1 DEF Put, Ready, Begin
<1>2. ASSUME NEW p \in Places, NEW n \in Lengths, Get(p, n)
      PROVE  /\ \E st : Begin("get", st, p, n)
             /\ status = "ok" /\ op' # "close"
  BY <1>2 DEF Get, Begin
<1>3. CASE Flush \/ Close
  BY <1>3 DEF Flush, Close, Begin
<1>4. ASSUME NEW r \in 0..MaxRecords, Truncate(r)
      PROVE  /\ Begin("truncate", "drop", Start(r), 0) /\ Start(r) \in Nat
             /\ status = "ok" /\ op' # "close"
  BY <1>4, Bounds DEF Truncate, Begin, Start
<1>5. Places \subseteq Nat
  BY BufferAssumption
<1> QED BY <1>1, <1>2, <1>3, <1>4, <1>5

(* The oldest buffer is written.                                           *)
LEMMA EvictFits == ASSUME Live, Evict PROVE Kept
<1>1. /\ Loading /\ dirty[Victim] /\ ffbfwt(Victim)
      /\ UNCHANGED <<logfilesize, curbuf, bufrecnum, iobuffer, op, stage, pos, todo, got, answer, calls>>
  BY DEF Evict, Cache, Call
<1>2. /\ Types /\ Types' /\ Fit /\ Position /\ Clean /\ Last /\ Collected /\ Unanswered /\ ~lost'
  BY DEF Live, Fit
<1>3. Shape /\ Sizes /\ InCall /\ Victim \in Buffers
  BY <1>2, Facts, VictimIs
<1>4. bufrecnum[Victim] >= 0 /\ op # "idle" /\ stage # "drop"
  BY <1>1, <1>3 DEF Sizes, InCall, Transfer, Loading
<1>5. status = "ok"
  BY <1>4, Busy
<1>6. Position' /\ WroteBack(With(Victim))
  BY <1>1, <1>2, <1>3, <1>4, <1>5, WritesBack
<1>7. SameView /\ Clean' /\ Last'
  BY <1>2, <1>6, WroteBackFits
<1>8. Collected'
  BY <1>1, <1>2, <1>7, StillCollected
<1>9. Adjoins' /\ Unanswered'
  BY <1>1, <1>2, <1>4 DEF Adjoins, Unanswered
<1>10. Unseen
  BY <1>1, <1>7 DEF Unseen, SameRequest
<1> QED BY <1>1, <1>6, <1>7, <1>8, <1>9, <1>10 DEF Kept, Fit, Effect

(* A buffer that a direct call, a flush or a close reaches is written when *)
(* it is due, and dropped by a write or a close.                           *)
LEMMA WriteBackFits == ASSUME Live, WriteBack PROVE Kept
<1>1. PICK b \in Buffers :
         /\ IsFirst(b, Pending)
         /\ IF dirty[b] THEN ffbfwt(b) ELSE UNCHANGED <<OnDisk, dirty, status, lost>>
         /\ bufrecnum' = [c \in Buffers |->
                IF (op = "put" /\ c = b) \/ (op = "close" /\ c <= b) THEN -1 ELSE bufrecnum[c]]
  BY DEF WriteBack
<1>2. /\ stage = "drop"
      /\ UNCHANGED <<logfilesize, curbuf, iobuffer, op, stage, pos, todo, got, answer, calls>>
  BY DEF WriteBack, Call
<1>3. /\ Types /\ Types' /\ Fit /\ Position /\ Clean /\ Last /\ Adjoins /\ Collected /\ Unanswered
      /\ Sound /\ ~lost'
  BY DEF Live, Fit
<1>4. Shape /\ DiskSizes /\ Sizes /\ InCall /\ Marked
  BY <1>3, Facts
<1>5. op # "idle" /\ op # "closed"
  BY <1>2, <1>4 DEF InCall, Transfer
<1>6. status = "ok"
  BY <1>5, Busy
<1>7. ASSUME NEW x \in Buffers
      PROVE  \/ bufrecnum'[x] = bufrecnum[x]
             \/ bufrecnum'[x] = -1 /\ (x = b \/ ~dirty[x])
  <2>1. CASE op = "put" /\ x = b
    BY <1>1, <2>1
  <2>2. CASE op = "close" /\ x <= b
    <3>1. b \in Unwritten /\ \A y \in Unwritten : b <= y
      BY <1>1, <2>2 DEF IsFirst, Pending
    <3>2. x = b \/ x \notin Unwritten
      BY <2>2, <3>1 DEF Buffers
    <3>3. bufrecnum[x] \in Int /\ bufrecnum[x] >= -1
      BY <1>4 DEF Sizes, Shape
    <3>4. x = b \/ ~dirty[x] \/ bufrecnum[x] = -1
      BY <3>2, <3>3 DEF Unwritten
    <3> QED BY <1>1, <2>2, <3>4
  <2>3. CASE ~(op = "put" /\ x = b) /\ ~(op = "close" /\ x <= b)
    BY <1>1, <2>3
  <2> QED BY <2>1, <2>2, <2>3
<1>8. /\ Position' /\ filesize' >= filesize /\ filesize' \in Int
      /\ bufrecnum[b] >= 0 => filesize' > bufrecnum[b]
      /\ SameView /\ Clean' /\ Last' /\ status' = "ok"
  <2>0. filesize' \in Int /\ filesize \in Int
    BY <1>3, <1>4, NextFacts DEF Shape
  <2>1. CASE dirty[b]
    <3>1. bufrecnum[b] >= 0 /\ ffbfwt(b)
      BY <1>1, <1>4, <2>1 DEF Sizes
    <3>2. Position' /\ bufrecnum[b] \in With(b) /\ filesize' > bufrecnum[b] /\ status' = "ok"
      BY <1>2, <1>3, <1>6, <3>1, WritesBack
    <3>3. \A x \in Buffers : \/ bufrecnum'[x] = bufrecnum[x]
                             \/ bufrecnum'[x] = -1 /\ (bufrecnum[x] \in With(b) \/ ~dirty[x])
      BY <1>7, <3>2
    <3>4. WroteBack(With(b))
      BY <1>2, <1>3, <1>6, <3>1, <3>3, WritesBack
    <3>5. SameView /\ Clean' /\ Last'
      BY <1>3, <3>2, <3>4, WroteBackFits
    <3>6. filesize' >= filesize
      BY <3>4 DEF WroteBack
    <3> QED BY <2>0, <3>2, <3>5, <3>6
  <2>2. CASE ~dirty[b]
    <3>1. UNCHANGED <<disk, ospos, io_pos, filesize, dirty, status>>
      BY <1>1, <2>2 DEF OnDisk
    <3>2. Position'
      BY <1>3, <3>1 DEF Position, Size, Start
    <3>3. WroteBack({})
      <4>1. \A x \in Buffers : bufrecnum'[x] = bufrecnum[x] \/ (bufrecnum'[x] = -1 /\ ~dirty[x])
        BY <1>7, <2>2
      <4>2. \A x \in Buffers : dirty'[x] = (dirty[x] /\ bufrecnum[x] \notin {})
        BY <3>1, <1>4 DEF Shape
      <4> QED BY <1>2, <2>0, <3>1, <4>1, <4>2 DEF WroteBack
    <3>4. SameView /\ Clean' /\ Last'
      BY <1>3, <3>2, <3>3, WroteBackFits
    <3>5. bufrecnum[b] >= 0 => bufrecnum[b] < filesize
      BY <1>4, <2>0, <2>2 DEF Marked, Shape
    <3> QED BY <1>4, <1>6, <2>0, <3>1, <3>2, <3>4, <3>5 DEF Shape
  <2> QED BY <2>1, <2>2
<1>9. Collected'
  BY <1>2, <1>3, <1>8, StillCollected
<1>10. Adjoins'
  <2> SUFFICES ASSUME op = "put", bufrecnum'[curbuf] = -1
               PROVE  filesize' >= Record(pos)
    BY <1>2 DEF Adjoins, Record
  <2>1. curbuf \in Buffers /\ Record(pos) \in Int /\ filesize \in Int
        /\ bufrecnum[curbuf] \in {-1, Record(pos) - 1} /\ pos \in Int
    BY <1>2, <1>4, RecordOf DEF InCall, Shape
  <2>2. CASE bufrecnum[curbuf] = -1
    BY <1>2, <1>3, <1>8, <2>1, <2>2 DEF Adjoins
  <2>3. CASE bufrecnum[curbuf] # -1
    <3>1. curbuf = b
      BY <1>1, <2>1, <2>3
    <3>2. bufrecnum[b] = Record(pos) - 1 /\ bufrecnum[b] >= 0
      BY <1>4, <2>1, <2>3, <3>1 DEF Sizes
    <3> QED BY <1>8, <2>1, <3>2
  <2> QED BY <2>2, <2>3
<1>11. Unanswered'
  BY <1>2, <1>3 DEF Unanswered
<1>12. Unseen
  BY <1>2, <1>8 DEF Unseen, SameRequest
<1> QED BY <1>2, <1>8, <1>9, <1>10, <1>11, <1>12 DEF Kept, Fit, Effect

(* Buffer v, that is not due, takes record w, that is in no buffer, with   *)
(* the cells of the file.                                                  *)
Replaced(v, w, new) ==
    /\ disk' = disk /\ filesize' = filesize
    /\ iobuffer' = [iobuffer EXCEPT ![v] = new]
    /\ bufrecnum' = [bufrecnum EXCEPT ![v] = w]
    /\ \A x \in Buffers : x # v /\ dirty[x] => dirty'[x]

(* A clean buffer that takes another record leaves the view alone.         *)
LEMMA ReplacedFits ==
  ASSUME Types, Types', Position, Position', Clean, NEW v \in Buffers, ~dirty[v],
         NEW w \in Nat, ~Cached(w), NEW new, Replaced(v, w, new),
         \A c \in Cells : Record(c) = w => new[c - Start(w)] = CellAt(c)
  PROVE  SameView /\ Clean'
<1>0. /\ Shape /\ OneBuffer /\ Marked /\ Values /\ Shape'
  BY Facts, NextFacts
<1>1. /\ DOMAIN disk = 0..Start(filesize) - 1 /\ Distinct(bufrecnum)
      /\ DOMAIN disk' = 0..Start(filesize') - 1 /\ Distinct(bufrecnum')
  BY FileIs
<1>2. /\ bufrecnum'[v] = w /\ iobuffer'[v] = new
      /\ \A x \in Buffers : x # v => bufrecnum'[x] = bufrecnum[x] /\ iobuffer'[x] = iobuffer[x]
  BY <1>0 DEF Replaced, Shape, Values
<1>3. ASSUME NEW c \in Cells
      PROVE  /\ CellAt(c)' = CellAt(c)
             /\ Record(c) < filesize' /\ ~Due(Record(c))' => disk'[c] = CellAt(c)
  <2> DEFINE r == Record(c)
             o == c - Start(r)
             V == CellAt(c)
             N == CellAt(c)'
  <2>1. r \in Nat /\ r # -1
    BY CellIs
  <2>2. /\ V = ViewOf(bufrecnum, iobuffer, filesize, disk, c)
        /\ N = ViewOf(bufrecnum', iobuffer', filesize', disk', c)
    BY Views
  <2>3. filesize \in Int /\ filesize' = filesize /\ disk' = disk
    BY <1>0 DEF Shape, Replaced
  <2>4. r < filesize /\ ~Due(r) => disk[c] = V
    BY DEF Clean
  <2>5. (\A x \in Buffers : bufrecnum'[x] # r) => N = IF r < filesize THEN disk[c] ELSE Fill
    BY <1>1, <2>2, <2>3, UncachedCell
  <2>6. (\A x \in Buffers : bufrecnum[x] # r) => V = IF r < filesize THEN disk[c] ELSE Fill
    BY <1>1, <2>2, <2>3, UncachedCell
  <2>7. \A x \in Buffers : bufrecnum[x] = r => V = iobuffer[x][o]
    BY <1>1, <2>1, <2>2, ViewCached
  <2>8. \A x \in Buffers : bufrecnum'[x] = r => N = iobuffer'[x][o]
    BY <1>1, <2>1, <2>2, ViewCached
  <2>9. r = w => new[o] = V
    OBVIOUS
  <2> HIDE DEF V, N
  <2>10. N = V
    <3>1. CASE r = w
      BY <1>2, <2>8, <2>9, <3>1
    <3>2. CASE \E x \in Buffers : x # v /\ bufrecnum[x] = r
      BY <1>2, <2>7, <2>8, <3>2
    <3>3. CASE bufrecnum[v] = r /\ r # w
      <4>1. \A y \in Buffers : bufrecnum[y] = r => y = v
        BY <1>0, <2>1, <3>3 DEF OneBuffer
      <4>2. \A y \in Buffers : bufrecnum'[y] # r
        BY <1>2, <3>3, <4>1
      <4>3. r < filesize
        BY <1>0, <2>1, <2>3, <3>3 DEF Marked
      <4>4. ~Due(r)
        BY <4>1 DEF Due
      <4> QED BY <2>4, <2>5, <4>2, <4>3, <4>4
    <3>4. CASE r # w /\ \A x \in Buffers : bufrecnum[x] # r
      <4>1. \A y \in Buffers : bufrecnum'[y] # r
        BY <1>2, <3>4
      <4> QED BY <2>5, <2>6, <3>4, <4>1
    <3> QED BY <3>1, <3>2, <3>3, <3>4
  <2>11. ASSUME r < filesize', ~Due(r)' PROVE disk'[c] = V
    <3>1. ~Due(r)
      <4> SUFFICES ASSUME NEW x \in Buffers, bufrecnum[x] = r, dirty[x] PROVE FALSE
        BY DEF Due
      <4>1. bufrecnum'[x] = r /\ dirty'[x]
        BY <1>2 DEF Replaced
      <4> QED BY <2>11, <4>1 DEF Due, Buffers, Record
    <3> QED BY <2>3, <2>4, <2>11, <3>1
  <2> QED BY <2>10, <2>11 DEF V, N
<1>4. Clean'
  BY <1>3 DEF Clean, Cells, Record
<1> QED BY <1>3, <1>4 DEF SameView

(* What a transfer leaves when it has its record.                          *)
LEMMA LoadedFits ==
  ASSUME Live, Loading, Touch(0), status' = "ok", UNCHANGED <<pos, todo, got, answer, calls>>,
         SameView, Position', Clean', Last'
  PROVE  Kept
<1>1. /\ Types /\ Collected /\ Unanswered
  BY DEF Live, Fit
<1>2. stage' \in {"copy", "fill"} /\ op' = op /\ op # "idle"
  BY <1>1, Facts DEF Touch, Ready, Loading, InCall, Transfer
<1>3. Collected'
  <2>1. op' = "get" /\ stage' \in {"move", "load", "copy"} => op = "get" /\ stage \in {"move", "load", "copy"}
    BY <1>2 DEF Loading
  <2> QED BY <1>1, <2>1, StillCollected
<1>4. Adjoins' /\ Unanswered'
  BY <1>1, <1>2 DEF Adjoins, Unanswered
<1>5. Unseen
  BY <1>2 DEF Unseen, SameRequest
<1> QED BY <1>3, <1>4, <1>5 DEF Kept, Fit, Effect

(* A record past the end begins as fill.                                   *)
LEMMA ExtendFits == ASSUME Live, Extend PROVE Kept
<1>1. /\ Loading /\ Touch(0) /\ ~Cached(Wanted) /\ ~dirty[Victim] /\ Wanted >= filesize
      /\ UNCHANGED <<disk, ospos, io_pos, filesize, status, pos, todo, got, answer, calls>>
      /\ iobuffer' = [iobuffer EXCEPT ![Victim] = Blank]
      /\ dirty' = [dirty EXCEPT ![Victim] = TRUE]
      /\ bufrecnum' = [bufrecnum EXCEPT ![Victim] = Wanted]
      /\ logfilesize' = Larger(logfilesize, Wanted + 1)
  BY DEF Extend, OnDisk
<1>2. Types /\ Types' /\ Position /\ Clean /\ Last
  BY DEF Live, Fit
<1>3. Shape /\ Marked /\ Sizes /\ DiskSizes /\ Victim \in Buffers /\ Wanted \in Nat
  BY <1>1, <1>2, Facts, VictimIs, WantedIs
<1>4. Position'
  BY <1>1, <1>2 DEF Position, Size, Start
<1>5. Replaced(Victim, Wanted, Blank)
  BY <1>1, <1>3 DEF Replaced, Shape
<1>6. ASSUME NEW c \in Cells, Record(c) = Wanted PROVE Blank[c - Start(Wanted)] = CellAt(c)
  <2>1. c - Start(Wanted) \in Offsets
    BY <1>6, CellIs
  <2>2. CellAt(c) = IF Record(c) < filesize THEN disk[c] ELSE Fill
    <3>1. \A b \in Buffers : bufrecnum[b] # Record(c)
      BY <1>1, <1>6 DEF Cached
    <3>2. filesize \in Int /\ DOMAIN disk = 0..Start(filesize) - 1
      BY <1>2, <1>3, FileIs DEF Shape
    <3> QED BY <3>1, <3>2, Views, UncachedCell
  <2>3. ~(Record(c) < filesize)
    BY <1>1, <1>3, <1>6 DEF Shape
  <2> QED BY <2>1, <2>2, <2>3 DEF Blank
<1>7. SameView /\ Clean'
  BY <1>1, <1>2, <1>3, <1>4, <1>5, <1>6, ReplacedFits
<1>8. Last'
  <2> SUFFICES ASSUME logfilesize' > filesize
               PROVE  \E x \in Buffers : bufrecnum'[x] = logfilesize' - 1
    BY <1>1 DEF Last, Cached, Buffers
  <2>1. CASE logfilesize' = Wanted + 1
    <3>1. bufrecnum'[Victim] = logfilesize' - 1
      BY <1>1, <1>3, <2>1 DEF Shape
    <3> QED BY <1>3, <3>1
  <2>2. CASE logfilesize' = logfilesize
    <3>1. PICK x \in Buffers : bufrecnum[x] = logfilesize - 1
      BY <1>2, <2>2 DEF Last, Cached
    <3>2. dirty[x]
      BY <1>3, <2>2, <3>1 DEF Marked, Sizes, DiskSizes
    <3>3. bufrecnum'[x] = logfilesize' - 1
      BY <1>1, <1>3, <2>2, <3>1, <3>2 DEF Shape
    <3> QED BY <3>3
  <2> QED BY <1>1, <2>1, <2>2 DEF Larger
<1>9. status' = "ok"
  <2>1. op # "idle"
    BY <1>1, <1>2, Facts DEF Loading, InCall, Transfer
  <2> QED BY <1>1, <2>1, Busy
<1> QED BY <1>1, <1>4, <1>7, <1>8, <1>9, LoadedFits

(* What a read gets when the file is as long as the library believes.      *)
LEMMA ReadFits ==
  ASSUME Types, Position, status = "ok", NEW p \in Nat, NEW n \in Nat, ffread(SeekTo(p), n),
         p + n <= Start(filesize)
  PROVE  /\ ospos' = p + n /\ status' = "ok" /\ SeekTo(p) = p
         /\ \A i \in 1..n : OnFile(p, n)[i] = disk[p + i - 1]
<1>1. SeekTo(p) = p
  BY DEF SeekTo, Position
<1>2. Size = Start(filesize) /\ Size \in Nat
  BY Facts DEF Position, DiskSizes
<1>3. ospos' = p + n /\ status' = "ok"
  BY <1>1, <1>2 DEF ffread
<1>4. ASSUME NEW i \in 1..n PROVE OnFile(p, n)[i] = disk[p + i - 1]
  <2>1. OnFile(p, n)[i] = IF p + i - 1 < Size THEN disk[p + i - 1] ELSE Fill
    BY DEF OnFile
  <2>2. p + i - 1 < Size
    BY <1>2
  <2> QED BY <2>1, <2>2
<1> QED BY <1>1, <1>3, <1>4

(* A record of the file is read into the oldest buffer.                    *)
LEMMA LoadFits == ASSUME Live, Load PROVE Kept
<1> DEFINE at == SeekTo(Start(Wanted))
           new == [i \in Offsets |-> OnFile(at, IOBUFLEN)[i + 1]]
<1>1. /\ Loading /\ Touch(0) /\ ~Cached(Wanted) /\ ~dirty[Victim] /\ Wanted < filesize
      /\ UNCHANGED <<disk, filesize, logfilesize, dirty, pos, todo, got, answer, calls>>
      /\ iobuffer' = [iobuffer EXCEPT ![Victim] = new]
      /\ ffread(at, IOBUFLEN)
      /\ io_pos' = Start(Wanted + 1)
      /\ bufrecnum' = [bufrecnum EXCEPT ![Victim] = Wanted]
  <2>1. PICK missed \in Misses(Start(Wanted)) :
           /\ iobuffer' = [iobuffer EXCEPT ![Victim] =
                  [i \in Offsets |-> OnFile(Sought(Start(Wanted), missed), IOBUFLEN)[i + 1]]]
           /\ ffread(Sought(Start(Wanted), missed), IOBUFLEN)
           /\ lost' = (lost \/ missed)
    BY Zenon DEF Load
  <2>2. ~missed
    BY <2>1 DEF Live
  <2>3. Sought(Start(Wanted), missed) = at
    BY <2>2, NotMissed, Zenon
  <2>4. iobuffer' = [iobuffer EXCEPT ![Victim] = new] /\ ffread(at, IOBUFLEN)
    BY <2>1, <2>3, Zenon
  <2> HIDE DEF at, new
  <2> QED BY <2>4 DEF Load
<1>2. Types /\ Types' /\ Position /\ Clean /\ Last
  BY DEF Live, Fit
<1>3. Shape /\ Marked /\ Sizes /\ DiskSizes /\ Victim \in Buffers /\ Wanted \in Nat /\ op # "idle"
  BY <1>1, <1>2, Facts, VictimIs, WantedIs DEF InCall, Transfer, Loading
<1>4. /\ Start(Wanted) \in Nat /\ Start(Wanted + 1) = Start(Wanted) + IOBUFLEN
      /\ Start(Wanted) + IOBUFLEN <= Start(filesize)
  <2>1. filesize \in Int /\ Start(Wanted) \in Nat
    BY <1>3, Bounds DEF Start, Shape
  <2> QED BY <1>1, <1>3, <2>1, StartNext, StartOrder
<1>5. /\ ospos' = Start(Wanted) + IOBUFLEN /\ at = Start(Wanted) /\ status' = "ok"
      /\ \A i \in 1..IOBUFLEN : OnFile(Start(Wanted), IOBUFLEN)[i] = disk[Start(Wanted) + i - 1]
  <2>1. status = "ok"
    BY <1>3, Busy
  <2> QED BY <1>1, <1>2, <1>4, <2>1, Bounds, ReadFits
<1> HIDE DEF at
<1>6. Position'
  BY <1>1, <1>2, <1>4, <1>5 DEF Position, Size, Start
<1>7. Replaced(Victim, Wanted, new)
  BY <1>1 DEF Replaced
<1>8. ASSUME NEW c \in Cells, Record(c) = Wanted PROVE new[c - Start(Wanted)] = CellAt(c)
  <2>1. c - Start(Wanted) \in Offsets /\ c \in Nat
    BY <1>8, CellIs
  <2>2. CellAt(c) = disk[c]
    <3>1. \A b \in Buffers : bufrecnum[b] # Record(c)
      BY <1>1, <1>8 DEF Cached
    <3>2. filesize \in Int /\ DOMAIN disk = 0..Start(filesize) - 1
      BY <1>2, <1>3, FileIs DEF Shape
    <3>3. CellAt(c) = IF Record(c) < filesize THEN disk[c] ELSE Fill
      BY <3>1, <3>2, Views, UncachedCell
    <3> QED BY <1>1, <1>8, <3>3
  <2>3. new[c - Start(Wanted)] = disk[c]
    <3>1. c - Start(Wanted) + 1 \in 1..IOBUFLEN
      BY <1>4, <2>1, Bounds DEF Offsets
    <3>2. OnFile(Start(Wanted), IOBUFLEN)[c - Start(Wanted) + 1] = disk[Start(Wanted) + (c - Start(Wanted) + 1) - 1]
      BY <1>5, <3>1
    <3>3. Start(Wanted) + (c - Start(Wanted) + 1) - 1 = c
      BY <1>4, <2>1
    <3>4. new[c - Start(Wanted)] = OnFile(at, IOBUFLEN)[c - Start(Wanted) + 1]
      BY <2>1
    <3> QED BY <1>5, <3>2, <3>3, <3>4
  <2> QED BY <2>2, <2>3
<1> HIDE DEF new
<1>9. SameView /\ Clean'
  BY <1>1, <1>2, <1>3, <1>6, <1>7, <1>8, ReplacedFits
<1>10. Last'
  <2> SUFFICES ASSUME logfilesize > filesize
               PROVE  \E x \in Buffers : bufrecnum'[x] = logfilesize - 1
    BY <1>1 DEF Last, Cached, Buffers
  <2>1. PICK x \in Buffers : bufrecnum[x] = logfilesize - 1
    BY <1>2 DEF Last, Cached
  <2>2. dirty[x]
    BY <1>3, <2>1 DEF Marked, Sizes, DiskSizes
  <2>3. bufrecnum'[x] = logfilesize - 1
    BY <1>1, <1>3, <2>1, <2>2 DEF Shape
  <2> QED BY <2>3
<1> QED BY <1>1, <1>5, <1>6, <1>9, <1>10, LoadedFits

-----------------------------------------------------------------------------
(* The steps that copy                                                     *)

(* The current buffer's record, and what a piece of it is of the file.     *)
LEMMA InBuffer ==
  ASSUME Types, stage \in {"copy", "fill"}
  PROVE  LET r == bufrecnum[curbuf]
         IN  /\ curbuf \in Buffers /\ r \in Nat /\ pos \in Nat /\ Start(r) \in Int
             /\ Offset \in Nat /\ Offset <= IOBUFLEN /\ pos = Start(r) + Offset
             /\ \A n \in Int : Offset + n <= IOBUFLEN =>
                   \A c \in Int : pos <= c /\ c < pos + n => Record(c) = r
<1> DEFINE r == bufrecnum[curbuf]
<1>1. /\ curbuf \in Buffers /\ r \in Nat /\ pos \in Nat /\ Offset >= 0 /\ Offset <= IOBUFLEN
  BY Facts DEF Shape, InCall
<1>2. Start(r) \in Int /\ Offset = pos - Start(r)
  BY <1>1, StartIs DEF Offset
<1> HIDE DEF r
<1>3. Offset \in Nat /\ pos = Start(r) + Offset
  BY <1>1, <1>2
<1>4. ASSUME NEW n \in Int, Offset + n <= IOBUFLEN, NEW c \in Int, pos <= c, c < pos + n
      PROVE  Record(c) = r
  <2>1. Start(r) <= c /\ c < Start(r) + IOBUFLEN
    BY <1>1, <1>2, <1>3, <1>4, Bounds
  <2> QED BY <1>1, <2>1, RecordIs
<1> QED BY <1>1, <1>2, <1>3, <1>4 DEF r

(* Cells are filled in, and will have to be written.                       *)
LEMMA FilledFits ==
  ASSUME Types, Types', Position, Clean, Last, stage \in {"copy", "fill"},
         NEW n \in Nat, Offset + n <= IOBUFLEN, Fillin(n),
         UNCHANGED <<OnDisk, logfilesize, bufrecnum>>
  PROVE  Overwritten(pos, pos + n) /\ Position' /\ Clean' /\ Last'
<1> DEFINE r == bufrecnum[curbuf]
<1>1. /\ curbuf \in Buffers /\ r \in Nat /\ pos \in Nat /\ Start(r) \in Int
      /\ Offset \in Nat /\ pos = Start(r) + Offset
      /\ \A c \in Int : pos <= c /\ c < pos + n => Record(c) = r
  BY InBuffer
<1>2. /\ iobuffer' = [iobuffer EXCEPT ![curbuf] =
               [i \in Offsets |-> IF Offset <= i /\ i < Offset + n THEN calls ELSE iobuffer[curbuf][i]]]
      /\ dirty' = [dirty EXCEPT ![curbuf] = TRUE]
  BY DEF Fillin
<1>3. /\ UNCHANGED <<disk, ospos, io_pos, filesize, logfilesize, bufrecnum>>
  BY DEF OnDisk
<1>4. Shape /\ OneBuffer /\ Values
  BY Facts
<1>5. Position' /\ Last'
  BY <1>3 DEF Position, Last, Size, Start, Cached, Buffers
<1>6. ASSUME NEW c \in Cells
      PROVE  /\ CellAt(c)' = IF pos <= c /\ c < pos + n THEN calls ELSE CellAt(c)
             /\ Record(c) < filesize' /\ ~Due(Record(c))' => disk'[c] = CellAt(c)'
  <2> DEFINE s == Record(c)
             o == c - Start(s)
             V == CellAt(c)
             N == CellAt(c)'
  <2>1. s \in Nat /\ s # -1 /\ c \in Nat /\ o \in Offsets
    BY CellIs
  <2>2. /\ V = ViewOf(bufrecnum, iobuffer, filesize, disk, c)
        /\ N = ViewOf(bufrecnum, iobuffer', filesize, disk, c)
    BY <1>3, Views
  <2>3. DOMAIN disk = 0..Start(filesize) - 1 /\ Distinct(bufrecnum) /\ filesize \in Int
    BY <1>4, FileIs DEF Shape
  <2>4. \A x \in Buffers : bufrecnum[x] = s => V = iobuffer[x][o] /\ N = iobuffer'[x][o]
    BY <2>1, <2>2, <2>3, ViewCached
  <2>5. (\A x \in Buffers : bufrecnum[x] # s) => N = V
    <3>1. ASSUME \A x \in Buffers : bufrecnum[x] # s PROVE N = V
      <4>1. V = IF s < filesize THEN disk[c] ELSE Fill
        BY <2>2, <2>3, <3>1, UncachedCell
      <4>2. N = IF s < filesize THEN disk[c] ELSE Fill
        BY <2>2, <2>3, <3>1, UncachedCell
      <4> QED BY <4>1, <4>2
    <3> QED BY <3>1
  <2>6. s < filesize /\ ~Due(s) => disk[c] = V
    BY DEF Clean
  <2> HIDE DEF V, N
  <2>7. N = IF pos <= c /\ c < pos + n THEN calls ELSE V
    <3>1. CASE s = r
      <4>1. N = IF Offset <= o /\ o < Offset + n THEN calls ELSE iobuffer[curbuf][o]
        <5>1. N = iobuffer'[curbuf][o]
          BY <1>1, <2>4, <3>1
        <5> HIDE DEF o
        <5>2. iobuffer'[curbuf] = [i \in Offsets |-> IF Offset <= i /\ i < Offset + n THEN calls
                                                      ELSE iobuffer[curbuf][i]]
          BY <1>1, <1>2, <1>4, Zenon DEF Values
        <5> QED BY <2>1, <5>1, <5>2
      <4>2. V = iobuffer[curbuf][o]
        BY <1>1, <2>4, <3>1
      <4>3. (Offset <= o /\ o < Offset + n) <=> (pos <= c /\ c < pos + n)
        BY <1>1, <2>1, <3>1
      <4> HIDE DEF o
      <4> QED BY <4>1, <4>2, <4>3
    <3>2. CASE s # r
      <4>1. ~(pos <= c /\ c < pos + n)
        BY <1>1, <2>1, <3>2
      <4>2. N = V
        <5>1. CASE \E x \in Buffers : bufrecnum[x] = s
          <6>1. PICK x \in Buffers : bufrecnum[x] = s
            BY <5>1
          <6>2. x # curbuf
            BY <3>2, <6>1
          <6>3. iobuffer'[x] = iobuffer[x]
            BY <1>2, <1>4, <6>2 DEF Values
          <6> QED BY <2>4, <6>1, <6>3
        <5>2. CASE \A x \in Buffers : bufrecnum[x] # s
          BY <2>5, <5>2
        <5> QED BY <5>1, <5>2
      <4> QED BY <4>1, <4>2
    <3> QED BY <3>1, <3>2
  <2>8. ASSUME s < filesize', ~Due(s)' PROVE disk'[c] = N
    <3>1. \A x \in Buffers : ~(bufrecnum[x] = s /\ dirty'[x])
      BY <1>3, <2>8 DEF Due, Buffers, Record
    <3>2. s # r
      BY <1>1, <1>2, <1>4, <3>1 DEF Shape
    <3>3. ~Due(s)
      BY <1>1, <1>2, <1>4, <3>1 DEF Due, Shape
    <3>4. ~(pos <= c /\ c < pos + n)
      BY <1>1, <2>1, <3>2
    <3>5. disk[c] = V /\ disk' = disk /\ filesize' = filesize
      BY <1>3, <2>6, <2>8, <3>3
    <3> QED BY <2>7, <3>4, <3>5
  <2> QED BY <2>7, <2>8 DEF V, N
<1>7. Clean'
  BY <1>6 DEF Clean, Cells, Record
<1>8. Overwritten(pos, pos + n)
  BY <1>6 DEF Overwritten
<1> QED BY <1>5, <1>7, <1>8

(* A piece is copied into the current buffer.                              *)
LEMMA CopyInFits == ASSUME Live, CopyIn PROVE Kept
<1>1. /\ op = "put" /\ stage = "copy" /\ Fillin(Piece) /\ Advance(Piece)
      /\ UNCHANGED <<OnDisk, logfilesize, bufrecnum, status, answer, calls>>
  BY DEF CopyIn, Cache
<1>2. Types /\ Types' /\ Position /\ Clean /\ Last /\ Unanswered
  BY DEF Live, Fit
<1>3. Transfer
  BY <1>1 DEF Transfer
<1>4. Piece \in Nat /\ Offset + Piece <= IOBUFLEN
  BY <1>1, <1>2, <1>3, AdvanceRest
<1>5. Overwritten(pos, pos + Piece) /\ Position' /\ Clean' /\ Last'
  BY <1>1, <1>2, <1>4, FilledFits
<1>6. Piece <= todo /\ pos \in Nat /\ todo \in Nat /\ todo >= 1
  BY <1>1, <1>2, <1>3, AdvanceRest, Facts DEF InCall
<1>7. op' \in {"put", "idle"} /\ stage' # "drop"
  BY <1>1 DEF Advance, Done
<1>8. Adjoins' /\ Collected' /\ Unanswered'
  BY <1>1, <1>2, <1>7 DEF Adjoins, Collected, Unanswered
<1>9. Effect
  <2>1. /\ pos' = pos + Piece /\ todo' = todo - Piece
        /\ IF todo = Piece THEN op' = "idle" ELSE op' = op
    BY <1>1 DEF Advance, Done
  <2>2. CASE Piece = 0
    <3>1. UNCHANGED <<op, pos, todo>>
      BY <1>6, <2>1, <2>2
    <3>2. SameView
      BY <1>5, <1>6, <2>2 DEF Overwritten, SameView, Cells
    <3>3. UNCHANGED got
      BY DEF CopyIn
    <3> QED BY <1>1, <3>1, <3>2, <3>3 DEF Effect, Unseen, SameRequest
  <2>3. CASE Piece # 0
    <3>1. Piece \in 1..todo /\ (Piece = todo \/ Piece < todo)
      BY <1>4, <1>6, <2>3
    <3>2. WriteOf(Piece)
      BY <1>1, <1>5, <2>1, <3>1 DEF WriteOf
    <3> QED BY <3>1, <3>2 DEF Effect
  <2> QED BY <2>2, <2>3
<1> QED BY <1>1, <1>5, <1>6, <1>8, <1>9 DEF Kept, Fit, Effect

(* The current buffer is filled up before a direct write.                  *)
LEMMA FillUpFits == ASSUME Live, FillUp PROVE Kept
<1> DEFINE n == IOBUFLEN - Offset
<1>1. /\ stage = "fill" /\ stage' = "drop"
      /\ IF n = 0 THEN UNCHANGED <<iobuffer, dirty>> ELSE Fillin(n)
      /\ pos' = pos + n /\ todo' = todo - n
      /\ UNCHANGED <<OnDisk, logfilesize, curbuf, bufrecnum, op, got, answer, calls>>
  BY DEF FillUp, Cache
<1>2. Types /\ Types' /\ Fit /\ Position /\ Clean /\ Last /\ Unanswered
  BY DEF Live, Fit
<1>3. op = "put" /\ bufrecnum[curbuf] >= 0
  BY <1>1, <1>2, Facts DEF InCall
<1>4. Offset \in Nat /\ Offset <= IOBUFLEN /\ pos \in Nat
  BY <1>1, <1>2, InBuffer
<1>5. n \in Nat /\ Offset + n <= IOBUFLEN
  BY <1>4, Bounds
<1>6. /\ Position' /\ Clean' /\ Last'
      /\ IF n = 0 THEN SameView ELSE Overwritten(pos, pos + n)
  <2>1. CASE n = 0
    BY <1>1, <1>2, <2>1, SameFit
  <2>2. CASE n # 0
    <3>1. Fillin(n)
      BY <1>1, <2>2
    <3> HIDE DEF n
    <3> QED BY <1>1, <1>2, <1>5, <2>2, <3>1, FilledFits
  <2> QED BY <2>1, <2>2
<1>7. todo \in Nat /\ todo' \in Nat /\ todo' >= 1
  <2>1. InCall' /\ InCall
    BY <1>2, Facts, NextFacts
  <2>2. op' = "put" /\ stage' = "drop"
    BY <1>1, <1>3
  <2>3. todo' >= 1
    BY <2>1, <2>2 DEF InCall, Transfer
  <2> QED BY <2>1, <2>3 DEF InCall
<1>8. Adjoins' /\ Collected' /\ Unanswered'
  BY <1>1, <1>2, <1>3 DEF Adjoins, Collected, Unanswered
<1> HIDE DEF n
<1>9. Effect
  <2>1. CASE n = 0
    <3>1. pos' = pos /\ todo' = todo
      BY <1>1, <1>4, <1>7, <2>1
    <3> QED BY <1>1, <1>6, <2>1, <3>1 DEF Effect, Unseen, SameRequest
  <2>2. CASE n # 0
    <3>1. n \in 1..todo /\ n < todo
      BY <1>1, <1>5, <1>7, <2>2
    <3>2. WriteOf(n)
      BY <1>1, <1>3, <1>6, <2>2, <3>1 DEF WriteOf
    <3> QED BY <3>1, <3>2 DEF Effect
  <2> QED BY <2>1, <2>2
<1> QED BY <1>1, <1>6, <1>8, <1>9 DEF Kept, Fit

(* A piece is copied out of the current buffer; the last one ends the read *)
(* with the cells of the file for an answer.                               *)
LEMMA CopyOutFits == ASSUME Live, CopyOut PROVE Kept
<1> DEFINE piece == [i \in 1..Piece |-> iobuffer[curbuf][Offset + i - 1]]
           r == bufrecnum[curbuf]
<1>1. /\ op = "get" /\ stage = "copy" /\ Advance(Piece)
      /\ got' = got \o piece
      /\ answer' = IF todo = Piece /\ status = "ok" THEN got' ELSE <<>>
      /\ UNCHANGED <<OnDisk, logfilesize, bufrecnum, dirty, iobuffer>>
  BY DEF CopyOut, Cache
<1>2. Types /\ Types' /\ Fit /\ Position /\ Collected /\ Unanswered /\ Values /\ Shape /\ OneBuffer
  BY Facts DEF Live, Fit
<1>3. Transfer /\ pos \in Nat /\ todo \in Nat /\ todo >= 1 /\ pos + todo <= Start(MaxRecords)
  BY <1>1, <1>2, Facts DEF Transfer, InCall
<1>4. Piece \in Nat /\ Piece <= todo /\ Offset \in Nat /\ Offset + Piece <= IOBUFLEN
  BY <1>1, <1>2, <1>3, AdvanceRest
<1>5. SameView /\ Position' /\ Clean' /\ Last'
  BY <1>1, <1>2, SameFit
<1>6. /\ pos' = pos + Piece
      /\ todo = Piece => op' = "idle" /\ stage' = "done"
      /\ todo # Piece => op' = "get" /\ stage' = "load"
  BY <1>1 DEF Advance, Done
<1>7. PICK p \in 0..pos : /\ p + Len(got) = pos
                          /\ \A c \in p..pos - 1 : got[c - p + 1] = CellAt(c)
  BY <1>1, <1>2 DEF Collected
<1>8. /\ curbuf \in Buffers /\ r \in Nat /\ Start(r) \in Int /\ pos = Start(r) + Offset
      /\ \A c \in Int : pos <= c /\ c < pos + Piece => Record(c) = r
  BY <1>1, <1>2, <1>4, InBuffer
<1>9. Cells = 0..Start(MaxRecords) - 1 /\ Start(MaxRecords) \in Int
  BY StartIs, Bounds DEF Cells, Start
<1>10. ASSUME NEW c \in Int, pos <= c, c < pos + Piece
       PROVE  iobuffer[curbuf][Offset + (c - pos)] = CellAt(c)
  <2>1. c \in Cells /\ Record(c) = r /\ Record(c) # -1
    <3>1. c >= 0 /\ c < Start(MaxRecords)
      BY <1>3, <1>4, <1>9, <1>10
    <3>2. Record(c) = r /\ r # -1
      BY <1>8, <1>10
    <3> QED BY <1>9, <3>1, <3>2
  <2>2. Distinct(bufrecnum)
    BY <1>2, FileIs
  <2>3. CellAt(c) = iobuffer[curbuf][c - Start(r)]
    BY <1>8, <2>1, <2>2, Views, ViewCached
  <2>4. c - Start(r) = Offset + (c - pos)
    BY <1>4, <1>8, <1>10
  <2> QED BY <2>3, <2>4
<1>11. /\ piece \in Seq(Data) /\ Len(piece) = Piece
       /\ \A i \in 1..Piece : piece[i] = iobuffer[curbuf][Offset + i - 1]
  <2>1. iobuffer[curbuf] \in [Offsets -> Data]
    BY <1>2 DEF Shape, Values
  <2> QED BY <1>4, <2>1, PieceOf
<1> HIDE DEF piece, r
<1>12. /\ got' \in Seq(Data) /\ Len(got') = Len(got) + Piece /\ Len(got) \in Nat
       /\ \A i \in 1..Len(got) + Piece :
             got'[i] = IF i <= Len(got) THEN got[i] ELSE piece[i - Len(got)]
  <2>1. got \in Seq(Data)
    BY <1>2 DEF Values
  <2>2. Len(got) \in Nat
    BY <2>1, LenProperties
  <2> QED BY <1>1, <1>11, <2>1, <2>2, ConcatProperties
<1>14. /\ p \in Nat /\ p <= pos /\ p + Len(got) = pos /\ Len(got) \in Nat
       /\ Len(got') = Len(got) + Piece /\ pos' = pos + Piece
       /\ p + Len(got') = pos' /\ p <= pos'
  <2>1. /\ p \in Nat /\ p <= pos /\ p + Len(got) = pos
    BY <1>3, <1>7
  <2>2. Len(got') = Len(got) + Piece /\ Len(got) \in Nat
    BY <1>12
  <2> QED BY <1>3, <1>4, <1>6, <2>1, <2>2
<1>18. \A c \in p..pos' - 1 : c \in Int /\ p <= c /\ c < pos + Piece
  BY <1>3, <1>4, <1>14
<1>13. ASSUME NEW c \in p..pos' - 1 PROVE got'[c - p + 1] = CellAt(c)
  <2>1. c - p + 1 \in 1..Len(got) + Piece /\ c \in Int
    BY <1>3, <1>4, <1>14
  <2>2. CASE c < pos
    <3>1. c - p + 1 <= Len(got) /\ c \in p..pos - 1
      BY <1>3, <1>14, <2>2
    <3> QED BY <1>7, <1>12, <2>1, <3>1
  <2>3. CASE ~(c < pos)
    <3>1. ~(c - p + 1 <= Len(got)) /\ c - p + 1 - Len(got) = c - pos + 1
          /\ c - pos + 1 \in 1..Piece /\ pos <= c /\ c < pos + Piece
      BY <1>3, <1>4, <1>14, <1>18, <2>3
    <3>2. got'[c - p + 1] = piece[c - pos + 1]
      BY <1>12, <2>1, <3>1
    <3>3. piece[c - pos + 1] = iobuffer[curbuf][Offset + (c - pos + 1) - 1]
      BY <1>11, <3>1
    <3>4. Offset + (c - pos + 1) - 1 = Offset + (c - pos)
      BY <1>3, <1>4, <2>1
    <3> QED BY <1>10, <2>1, <3>1, <3>2, <3>3, <3>4
  <2> QED BY <2>2, <2>3
<1>15. CASE todo # Piece
  <2>1. Collected'
    <3>1. \A c \in p..pos' - 1 : got'[c - p + 1] = CellAt(c)'
      <4> SUFFICES ASSUME NEW c \in p..pos' - 1 PROVE got'[c - p + 1] = CellAt(c)'
        OBVIOUS
      <4>1. c \in 0..Start(MaxRecords) - 1
        BY <1>3, <1>4, <1>9, <1>14, <1>18
      <4>2. c \in Cells
        BY <1>9, <4>1
      <4> QED BY <1>5, <1>13, <4>2 DEF SameView
    <3>2. p \in 0..pos'
      BY <1>3, <1>14
    <3> QED BY <1>14, <3>1, <3>2 DEF Collected
  <2>2. answer' = <<>>
    BY <1>1, <1>15
  <2>3. Adjoins' /\ Unanswered'
    BY <1>6, <1>15, <2>2 DEF Adjoins, Unanswered
  <2>4. UNCHANGED answer
    BY <1>1, <1>2, <2>2 DEF Unanswered
  <2>5. SameRequest
    <3>1. pos' - Len(got') = pos - Len(got) /\ todo' = todo - Piece
      BY <1>1, <1>3, <1>4, <1>14 DEF Advance
    <3>2. pos' + todo' = pos + todo
      BY <1>3, <1>4, <1>6, <3>1
    <3> QED BY <1>1, <1>6, <1>15, <3>1, <3>2 DEF SameRequest
  <2> QED BY <1>5, <2>1, <2>3, <2>4, <2>5 DEF Kept, Fit, Effect, Unseen
<1>16. CASE todo = Piece
  <2>1. Fit'
    BY <1>5, <1>6, <1>16, OverFits
  <2>2. answer' = got'
    <3>1. status = "ok"
      BY <1>1, Busy
    <3> QED BY <1>1, <1>16, <3>1
  <2>4. \A i \in 1..Len(got') : got'[i] = CellAt(p + i - 1)
    <3> SUFFICES ASSUME NEW i \in 1..Len(got') PROVE got'[i] = CellAt(p + i - 1)
      OBVIOUS
    <3>1. p + i - 1 \in p..pos' - 1 /\ (p + i - 1) - p + 1 = i
      BY <1>12, <1>14
    <3> QED BY <1>13, <3>1
  <2>5. got' = [i \in 1..Len(got') |-> CellAt(p + i - 1)]
    <3>1. got' = [i \in 1..Len(got') |-> got'[i]]
      BY <1>12
    <3> QED BY <2>4, <3>1
  <2>6. Len(got') = todo + Len(got) /\ p = pos - Len(got)
    BY <1>3, <1>14, <1>16
  <2>7. answer' = [i \in 1..todo + Len(got) |-> CellAt(pos - Len(got) + i - 1)] /\ Len(got) <= pos
    <3>1. Len(got) <= pos
      BY <1>3, <1>14
    <3> QED BY <2>2, <2>5, <2>6, <3>1, Zenon
  <2>8. ReadEnds
    BY <1>1, <1>5, <1>6, <1>16, <2>7, Zenon DEF ReadEnds
  <2> QED BY <2>1, <2>8 DEF Kept, Effect
<1> QED BY <1>15, <1>16

-----------------------------------------------------------------------------
(* The steps that reach the file directly, and those that end a call       *)

(* A direct read of the file's cells, those in buffers written before.     *)
LEMMA ReadDirectFits == ASSUME Live, ReadDirect PROVE Kept
<1>1. /\ op = "get" /\ stage = "drop" /\ Pending = {}
      /\ ffread(SeekTo(pos), todo) /\ got' = OnFile(SeekTo(pos), todo)
      /\ answer' = IF status' = "ok" THEN got' ELSE answer
      /\ io_pos' = pos + todo /\ op' = "idle" /\ stage' = "done"
      /\ UNCHANGED <<disk, filesize, logfilesize, bufrecnum, dirty, iobuffer>>
  <2>1. PICK missed \in Misses(pos) : /\ ffread(Sought(pos, missed), todo)
                                     /\ lost' = (lost \/ missed)
                                     /\ got' = OnFile(Sought(pos, missed), todo)
                                     /\ answer' = IF status' = "ok" THEN got' ELSE answer
    BY Zenon DEF ReadDirect
  <2>2. ~missed
    BY <2>1 DEF Live
  <2>3. Sought(pos, missed) = SeekTo(pos)
    BY <2>2, NotMissed, Zenon
  <2>4. /\ ffread(SeekTo(pos), todo) /\ got' = OnFile(SeekTo(pos), todo)
        /\ answer' = IF status' = "ok" THEN got' ELSE answer
    BY <2>1, <2>3, Zenon
  <2> QED BY <2>4 DEF ReadDirect, Done, Cache
<1>2. Types /\ Position /\ Clean /\ Last /\ Unanswered
  BY DEF Live, Fit
<1>3. /\ Shape /\ pos \in Nat /\ todo \in Nat /\ todo >= 1 /\ pos + todo <= Start(MaxRecords)
      /\ answer = <<>> /\ todo + Len(got) = todo /\ pos - Len(got) = pos /\ Len(got) <= pos
  <2>1. answer = <<>> /\ got = <<>>
    BY <1>1, <1>2 DEF Unanswered
  <2>2. Len(got) = 0
    BY <2>1
  <2> QED BY <1>1, <1>2, <2>1, <2>2, Facts DEF InCall, Transfer
<1>4. status = "ok"
  BY <1>1, Busy
<1>5. SameView /\ Clean' /\ Last'
  BY <1>1, <1>2, SameCells
<1>6. CASE pos + todo <= Start(filesize)
  <2>1. /\ ospos' = pos + todo /\ status' = "ok" /\ SeekTo(pos) = pos
        /\ \A i \in 1..todo : OnFile(pos, todo)[i] = disk[pos + i - 1]
    BY <1>1, <1>2, <1>3, <1>4, <1>6, ReadFits
  <2>2. Position'
    BY <1>1, <1>2, <2>1 DEF Position, Size, Start
  <2>3. Fit'
    BY <1>1, <1>5, <2>2, OverFits
  <2>4. Cells = 0..Start(MaxRecords) - 1 /\ Start(MaxRecords) \in Int
    BY StartIs, Bounds DEF Cells, Start
  <2>5. ASSUME NEW i \in 1..todo PROVE disk[pos + i - 1] = CellAt(pos + i - 1)
    <3> DEFINE c == pos + i - 1
    <3>1. c \in Int /\ pos <= c /\ c <= pos + todo - 1 /\ c >= 0 /\ c < Start(MaxRecords)
          /\ c < Start(filesize)
      <4>1. filesize \in Int /\ Start(filesize) \in Int
        BY <1>3, StartIs DEF Shape
      <4> QED BY <1>3, <1>6, <2>4, <4>1
    <3> HIDE DEF c
    <3>2. c \in Cells
      BY <2>4, <3>1
    <3>3. Record(c) < filesize
      BY <1>3, <3>1, RecordOrder DEF Shape
    <3>4. Record(c) \in Record(pos)..Record(pos + todo - 1)
      <4>1. pos + todo - 1 \in Int /\ pos \in Int
        BY <1>3
      <4>2. Record(pos) <= Record(c) /\ Record(c) <= Record(pos + todo - 1)
        BY <3>1, <4>1, RecordOrder
      <4> QED BY <3>1, <4>1, <4>2, RecordOf
    <3>5. ~Due(Record(c))
      <4> SUFFICES ASSUME NEW b \in Buffers, bufrecnum[b] = Record(c), dirty[b] PROVE FALSE
        BY DEF Due
      <4>1. Reached = {x \in Buffers : bufrecnum[x] \in Record(pos) - 0..Record(pos + todo - 1)
                                       /\ dirty[x]}
        BY <1>1 DEF Reached
      <4>2. Record(pos) - 0 = Record(pos)
        BY <1>3, RecordOf
      <4>3. b \in Reached
        BY <3>4, <4>1, <4>2
      <4> QED BY <1>1, <4>3 DEF Pending
    <3>6. disk[c] = CellAt(c)
      BY <1>2, <3>2, <3>3, <3>5 DEF Clean
    <3> QED BY <3>6 DEF c
  <2>6. answer' = [i \in 1..todo |-> CellAt(pos + i - 1)]
    <3>1. answer' = OnFile(pos, todo)
      BY <1>1, <2>1
    <3>2. OnFile(pos, todo) = [i \in 1..todo |-> OnFile(pos, todo)[i]]
      BY DEF OnFile
    <3> QED BY <2>1, <2>5, <3>1, <3>2
  <2>7. ReadEnds
    BY <1>1, <1>3, <1>5, <2>6, Zenon DEF ReadEnds
  <2> QED BY <2>3, <2>7 DEF Kept, Effect
<1>7. CASE ~(pos + todo <= Start(filesize))
  <2>1. SeekTo(pos) = pos /\ Size = Start(filesize)
    BY <1>2 DEF SeekTo, Position
  <2>2. status' = "READ_ERROR"
    BY <1>1, <1>7, <2>1 DEF ffread
  <2>3. answer' = <<>>
    BY <1>1, <1>3, <2>2
  <2>4. ReadEnds
    BY <1>1, <1>5, <2>3 DEF ReadEnds
  <2> QED BY <2>2, <2>4 DEF Kept, Effect
<1> QED BY <1>6, <1>7

(* Once no buffer is due all that the routines above see is on the file.   *)
LEMMA AllStored ==
  ASSUME Types, Position, Clean, Last, Unwritten = {}
  PROVE  /\ logfilesize = filesize /\ Size = Start(logfilesize)
         /\ \A b \in Buffers : ~dirty[b] /\ bufrecnum[b] < filesize
         /\ \A c \in Cells : /\ CellAt(c) = IF Record(c) < filesize THEN disk[c] ELSE Fill
                             /\ OnDiskIs(c) = CellAt(c)
<1>1. /\ Shape /\ Marked /\ Sizes /\ DiskSizes
  BY Facts
<1>2. ASSUME NEW b \in Buffers PROVE ~dirty[b] /\ bufrecnum[b] < filesize
  <2>1. ~dirty[b]
    BY <1>1 DEF Unwritten, Sizes
  <2>2. bufrecnum[b] \in Int /\ filesize \in Nat
    BY <1>1 DEF Shape, DiskSizes
  <2>3. bufrecnum[b] = -1 \/ ~(bufrecnum[b] >= filesize)
    BY <1>1, <2>1 DEF Marked
  <2> QED BY <2>1, <2>2, <2>3
<1>3. logfilesize = filesize
  <2>1. ASSUME logfilesize > filesize PROVE FALSE
    <3>1. PICK b \in Buffers : bufrecnum[b] = logfilesize - 1
      BY <2>1 DEF Last, Cached
    <3> QED BY <1>1, <1>2, <2>1, <3>1 DEF Sizes, DiskSizes
  <2> QED BY <1>1, <2>1 DEF Sizes, DiskSizes
<1>4. Size = Start(logfilesize)
  BY <1>3 DEF Position
<1>5. ASSUME NEW c \in Cells
      PROVE  /\ CellAt(c) = IF Record(c) < filesize THEN disk[c] ELSE Fill
             /\ OnDiskIs(c) = CellAt(c)
  <2>1. /\ c \in Nat /\ Record(c) \in Nat
        /\ Record(c) < filesize <=> c < Start(filesize)
    BY <1>1, CellIs DEF DiskSizes
  <2>2. DOMAIN disk = 0..Start(filesize) - 1 /\ Start(filesize) \in Int /\ filesize \in Int
    BY <1>1, FileIs, StartIs DEF DiskSizes
  <2>3. CellAt(c) = IF Record(c) < filesize THEN disk[c] ELSE Fill
    <3>1. CASE Record(c) < filesize
      <4>1. ~Due(Record(c))
        BY <1>2 DEF Due
      <4> QED BY <3>1, <4>1 DEF Clean
    <3>2. CASE ~(Record(c) < filesize)
      <4>1. \A b \in Buffers : bufrecnum[b] # Record(c)
        BY <1>2, <3>2
      <4> QED BY <2>2, <3>2, <4>1, Views, UncachedCell
    <3> QED BY <3>1, <3>2
  <2>4. c \in DOMAIN disk <=> Record(c) < filesize
    BY <2>1, <2>2
  <2>5. OnDiskIs(c) = CellAt(c)
    BY <2>3, <2>4 DEF OnDiskIs
  <2> QED BY <2>3, <2>5
<1> QED BY <1>2, <1>3, <1>4, <1>5

(* A close drops the buffers, which have been written.                     *)
LEMMA EndCloseFits == ASSUME Live, EndClose PROVE Kept
<1>1. /\ op = "close" /\ stage = "drop" /\ Unwritten = {}
      /\ bufrecnum' = [b \in Buffers |-> -1]
      /\ op' = "closed" /\ stage' = "done"
      /\ UNCHANGED <<disk, ospos, io_pos, filesize, logfilesize, dirty, iobuffer, answer>>
  <2>1. PICK n \in Taken : fflush(n)
    BY DEF EndClose
  <2>2. n = Size /\ [c \in 0..n - 1 |-> disk[c]] = disk
    <3>1. DiskSizes /\ lost \in BOOLEAN /\ ~lost'
      BY Facts DEF Live, Values
    <3> QED BY <2>1, <3>1, FlushLeaves DEF fflush
  <2>3. UNCHANGED <<disk, ospos>>
    BY <2>1, <2>2 DEF fflush
  <2> QED BY <2>3 DEF EndClose, Pending
<1>2. Types /\ Types' /\ Position /\ Clean /\ Last /\ Unanswered
  BY DEF Live, Fit
<1>3. Position'
  BY <1>1, <1>2 DEF Position, Size, Start
<1>4. /\ logfilesize = filesize
      /\ \A c \in Cells : CellAt(c) = IF Record(c) < filesize THEN disk[c] ELSE Fill
  BY <1>1, <1>2, AllStored
<1>5. ASSUME NEW c \in Cells PROVE CellAt(c)' = IF Record(c) < filesize THEN disk[c] ELSE Fill
  <2>1. filesize' \in Int /\ DOMAIN disk' = 0..Start(filesize') - 1
    BY <1>2, <1>3, NextFacts, FileIs DEF DiskSizes
  <2>2. \A b \in Buffers : bufrecnum'[b] # Record(c)
    BY <1>1, CellIs
  <2>3. CellAt(c)' = IF Record(c) < filesize' THEN disk'[c] ELSE Fill
    BY <2>1, <2>2, Views, UncachedCell
  <2> QED BY <1>1, <2>3
<1>6. SameView
  BY <1>4, <1>5 DEF SameView
<1>7. Clean'
  BY <1>1, <1>5 DEF Clean, Cells, Record
<1>8. Last'
  <2>1. logfilesize' = filesize' /\ filesize' \in Int
    BY <1>1, <1>2, <1>4, NextFacts DEF DiskSizes
  <2> QED BY <2>1 DEF Last
<1>9. Unanswered' /\ Adjoins' /\ Collected'
  BY <1>1, <1>2 DEF Unanswered, Adjoins, Collected
<1>10. Unseen
  BY <1>1, <1>6 DEF Unseen, SameRequest, Silent
<1> QED BY <1>3, <1>6, <1>7, <1>8, <1>9, <1>10 DEF Kept, Fit, Effect

(* A truncation cuts the cells from its position on.                       *)
LEMMA EndTruncateFits == ASSUME Live, EndTruncate PROVE Kept
<1>1. /\ op = "truncate" /\ stage = "drop" /\ Unwritten = {}
      /\ filesize' = Record(pos) /\ logfilesize' = Record(pos)
      /\ io_pos' = pos /\ ospos' = pos
      /\ bufrecnum' = [b \in Buffers |-> IF bufrecnum[b] >= Record(pos) THEN -1 ELSE bufrecnum[b]]
      /\ disk' = [c \in 0..pos - 1 |-> IF c < Size THEN disk[c] ELSE Fill]
      /\ op' = "idle" /\ stage' = "done"
      /\ UNCHANGED <<dirty, iobuffer, answer>>
  <2>1. PICK n \in Taken : /\ disk' = [c \in 0..pos - 1 |-> IF c < n THEN disk[c] ELSE Fill]
                           /\ lost' = (lost \/ n < Size)
    BY DEF EndTruncate
  <2>2. n = Size
    <3>1. DiskSizes /\ lost \in BOOLEAN /\ ~lost'
      BY Facts DEF Live, Values
    <3> QED BY <2>1, <3>1, FlushLeaves
  <2> QED BY <2>1, <2>2 DEF EndTruncate, Done, Pending
<1>2. Types /\ Types' /\ Position /\ Clean /\ Last /\ Shape /\ DiskSizes /\ Sizes /\ InCall
  BY Facts DEF Live, Fit
<1>3. PICK r \in 0..logfilesize : pos = Start(r)
  BY <1>1, <1>2 DEF InCall, Transfer
<1>4. /\ logfilesize = filesize /\ Size = Start(filesize)
      /\ \A b \in Buffers : ~dirty[b] /\ bufrecnum[b] < filesize
      /\ \A c \in Cells : CellAt(c) = IF Record(c) < filesize THEN disk[c] ELSE Fill
  BY <1>1, <1>2, AllStored
<1>5. pos \in Nat /\ Record(pos) = r /\ r \in Nat /\ r <= filesize /\ pos <= Size /\ Size \in Nat
  <2>1. r \in Nat /\ r <= filesize /\ filesize \in Int
    BY <1>2, <1>3, <1>4 DEF DiskSizes
  <2>2. Start(r) <= Start(filesize) /\ Record(Start(r)) = r
    BY <2>1, StartOrder, RecordOrder
  <2> QED BY <1>2, <1>3, <1>4, <2>1, <2>2 DEF InCall, DiskSizes
<1>6. Size' = pos /\ DOMAIN disk' = 0..pos - 1
  BY <1>1, <1>5, RowSize DEF Size
<1>7. Position'
  BY <1>1, <1>3, <1>5, <1>6 DEF Position, Start
<1>8. ASSUME NEW c \in Cells
      PROVE  /\ CellAt(c)' = IF c < pos THEN CellAt(c) ELSE Fill
             /\ Record(c) < r => disk'[c] = CellAt(c)'
  <2> DEFINE s == Record(c)
             o == c - Start(s)
             V == CellAt(c)
             N == CellAt(c)'
  <2>1. s \in Nat /\ s # -1 /\ c \in Nat /\ (s < r <=> c < pos)
    BY <1>3, CellIs
  <2>2. /\ V = ViewOf(bufrecnum, iobuffer, filesize, disk, c)
        /\ N = ViewOf(bufrecnum', iobuffer', filesize', disk', c)
    BY Views
  <2>3. /\ DOMAIN disk = 0..Start(filesize) - 1 /\ Distinct(bufrecnum) /\ filesize \in Int
        /\ DOMAIN disk' = 0..Start(filesize') - 1 /\ Distinct(bufrecnum') /\ filesize' \in Int
    BY <1>1, <1>2, <1>5, <1>7, FileIs DEF Shape
  <2>4. \A x \in Buffers : bufrecnum[x] = s => V = iobuffer[x][o]
    BY <2>1, <2>2, <2>3, ViewCached
  <2>5. \A x \in Buffers : bufrecnum'[x] = s => N = iobuffer'[x][o]
    BY <2>1, <2>2, <2>3, ViewCached
  <2>6. (\A x \in Buffers : bufrecnum'[x] # s) => N = IF s < filesize' THEN disk'[c] ELSE Fill
    BY <2>2, <2>3, UncachedCell
  <2>7. V = IF s < filesize THEN disk[c] ELSE Fill
    BY <1>4
  <2> HIDE DEF V, N, o
  <2>8. CASE s < r
    <3>1. disk'[c] = disk[c] /\ s < filesize /\ s < filesize'
      <4>1. c \in 0..pos - 1 /\ c < Size /\ s < filesize /\ s < filesize'
        BY <1>1, <1>5, <2>1, <2>3, <2>8
      <4> QED BY <1>1, <4>1
    <3>2. N = V
      <4>1. CASE \E x \in Buffers : bufrecnum'[x] = s
        <5>1. PICK x \in Buffers : bufrecnum'[x] = s
          BY <4>1
        <5>2. bufrecnum[x] = s
          BY <1>1, <2>1, <5>1
        <5> QED BY <1>1, <2>4, <2>5, <5>1, <5>2
      <4>2. CASE \A x \in Buffers : bufrecnum'[x] # s
        BY <2>6, <2>7, <3>1, <4>2
      <4> QED BY <4>1, <4>2
    <3> QED BY <2>1, <2>7, <2>8, <3>1, <3>2 DEF V, N
  <2>9. CASE ~(s < r)
    <3>1. \A x \in Buffers : bufrecnum'[x] # s
      <4> SUFFICES ASSUME NEW x \in Buffers PROVE bufrecnum'[x] # s
        OBVIOUS
      <4>1. bufrecnum[x] \in Int
        BY <1>2 DEF Shape
      <4> QED BY <1>1, <1>5, <2>1, <2>9, <4>1
    <3>2. ~(s < filesize')
      BY <1>1, <1>5, <2>9
    <3> QED BY <2>1, <2>6, <2>9, <3>1, <3>2 DEF V, N
  <2> QED BY <2>8, <2>9
<1>9. CutFrom(pos)
  BY <1>8 DEF CutFrom
<1>10. Clean'
  BY <1>1, <1>5, <1>8 DEF Clean, Cells, Record
<1>11. Last'
  BY <1>1, <1>5 DEF Last
<1>12. Fit' /\ pos \in Int
  BY <1>1, <1>5, <1>7, <1>10, <1>11, OverFits
<1> QED BY <1>1, <1>9, <1>12 DEF Kept, Effect, CutEnds

(* Whole records go straight to the file, what is left to the current      *)
(* buffer, over what the file holds there.                                 *)
LEMMA WriteDirectFits == ASSUME Live, WriteDirect PROVE Kept
<1> DEFINE whole == (todo - 1) \div IOBUFLEN
           end == pos + Start(whole)
           at == SeekTo(pos)
           atEnd == end >= Start(filesize)
           last == Record(pos + todo - 1)
           k == Record(pos)
<1>1. PICK n \in Accepted(whole), missed \in Misses(pos) :
      LET from == Sought(pos, missed)
          next == from + Start(n)
          short == ~atEnd /\ next + IOBUFLEN > Size
          under == IF atEnd THEN Blank ELSE [i \in Offsets |-> OnFile(next, IOBUFLEN)[i + 1]]
      IN /\ disk' = Written(from, Start(n), [i \in 0..Start(n) - 1 |-> calls])
         /\ ospos' = IF atEnd THEN next ELSE IF short THEN Larger(next, Size) ELSE next + IOBUFLEN
         /\ io_pos' = IF atEnd THEN end ELSE end + IOBUFLEN
         /\ filesize' = IF atEnd THEN Record(end) ELSE filesize
         /\ status' = IF short THEN "READ_ERROR" ELSE IF n < whole THEN "WRITE_ERROR" ELSE status
         /\ lost' = (lost \/ missed \/ n < whole)
         /\ iobuffer' = [iobuffer EXCEPT ![curbuf] =
                [i \in Offsets |-> IF i < todo - Start(whole) THEN calls ELSE under[i]]]
  BY Zenon DEF WriteDirect
<1>2. /\ op = "put" /\ stage = "drop" /\ Pending = {}
      /\ dirty' = [dirty EXCEPT ![curbuf] = TRUE]
      /\ bufrecnum' = [bufrecnum EXCEPT ![curbuf] = last]
      /\ logfilesize' = Larger(logfilesize, last + 1)
      /\ op' = "idle" /\ stage' = "done"
      /\ UNCHANGED <<curbuf, answer, calls>>
  BY DEF WriteDirect, Done
<1>3. /\ Types /\ Types' /\ Position /\ Clean /\ Last /\ Adjoins
      /\ Inv /\ Shape /\ DiskSizes /\ Sizes /\ Values /\ InCall /\ Shape' /\ ~lost'
  BY Facts, NextFacts DEF Live, Fit, Types, WriteInv
<1>4. /\ pos \in Nat /\ todo \in Nat /\ todo >= 1 /\ whole \in Nat /\ end \in Nat
      /\ pos = Start(k) /\ k \in Nat /\ end = Start(k + whole) /\ Record(end) = k + whole
      /\ last = k + whole /\ end <= pos + todo - 1 /\ pos + todo - 1 < end + IOBUFLEN
      /\ Start(whole) \in Nat
  <2>1. k \in Nat /\ whole \in Nat /\ Record(end) = k + whole /\ last = Record(end)
    BY <1>2, <1>3, DirectEnds
  <2> QED BY <1>2, <1>3, <2>1, DirectEnds
<1>5. at = pos /\ Size = Start(filesize) /\ Size \in Nat /\ filesize \in Nat
  BY <1>3 DEF SeekTo, Position, DiskSizes
<1>6. \A b \in Buffers : bufrecnum[b] \notin k - 1..k + whole
  BY <1>2, <1>3, <1>4, ReachIsEmpty
<1>7. bufrecnum[curbuf] = -1 /\ curbuf \in Buffers /\ filesize >= k
  <2>1. curbuf \in Buffers /\ bufrecnum[curbuf] \in {-1, k - 1}
    BY <1>2, <1>3 DEF InCall, Shape
  <2>2. k - 1 \in k - 1..k + whole
    BY <1>4
  <2>3. bufrecnum[curbuf] = -1
    BY <1>6, <2>1, <2>2
  <2> QED BY <1>2, <1>3, <2>1, <2>3 DEF Adjoins
<1>8. /\ lost' = (lost \/ missed \/ n < whole)
      /\ n \in 0..whole
  <2>1. n \in 0..whole
    BY <1>4 DEF Accepted
  <2> HIDE DEF whole, at, end, atEnd
  <2> QED BY <1>1, <2>1, Zenon
<1>9. n = whole /\ Sought(pos, missed) = at
  <2>1. ~(n < whole) /\ ~missed
    BY <1>3, <1>8, Zenon
  <2>2. Sought(pos, missed) = at
    BY <2>1, NotMissed, Zenon
  <2> QED BY <1>4, <1>8, <2>1, <2>2
<1> HIDE DEF whole, at, last, k
<1> DEFINE e == k + whole
           m == SizeAfter(pos, Start(whole))
           row == [i \in 0..Start(whole) - 1 |-> calls]
<1>10. /\ at + Start(n) = end /\ end = Start(e) /\ e \in Nat
       /\ atEnd <=> e >= filesize
       /\ ~atEnd => end + IOBUFLEN <= Size
       /\ pos <= Size
  <2>1. at + Start(n) = end /\ end = Start(e) /\ e \in Nat
    BY <1>4, <1>5, <1>9
  <2> HIDE DEF e, end
  <2>2. Start(e) \in Int /\ Start(filesize) \in Int
    BY <1>5, <2>1, StartIs
  <2>3. e < filesize => end + IOBUFLEN <= Start(filesize)
    BY <1>5, <2>1, StartOrder
  <2>4. e >= filesize => end >= Start(filesize)
    BY <1>5, <2>1, StartOrder
  <2>5. pos <= Size
    BY <1>4, <1>5, <1>7, StartOrder
  <2>6. e < filesize => ~(end >= Start(filesize))
    BY <2>1, <2>2, <2>3, Bounds
  <2> QED BY <1>5, <2>1, <2>2, <2>3, <2>4, <2>5, <2>6
<1>11. /\ disk' = Written(pos, Start(whole), row)
       /\ ospos' = IF atEnd THEN end ELSE end + IOBUFLEN
       /\ io_pos' = IF atEnd THEN end ELSE end + IOBUFLEN
       /\ filesize' = IF atEnd THEN e ELSE filesize
       /\ status' = status
       /\ iobuffer' = [iobuffer EXCEPT ![curbuf] =
              [i \in Offsets |-> IF i < todo - Start(whole) THEN calls
                                 ELSE IF atEnd THEN Fill ELSE OnFile(end, IOBUFLEN)[i + 1]]]
  <2> DEFINE next == at + Start(n)
             short == ~atEnd /\ next + IOBUFLEN > Size
             under == IF atEnd THEN Blank ELSE [i \in Offsets |-> OnFile(next, IOBUFLEN)[i + 1]]
  <2>1. next = end
    BY <1>10
  <2> HIDE DEF end, e
  <2>2. ~short
    BY <1>5, <1>10, <2>1, Bounds
  <2>3. \A i \in Offsets : under[i] = IF atEnd THEN Fill ELSE OnFile(end, IOBUFLEN)[i + 1]
    BY <2>1 DEF Blank
  <2>4. /\ disk' = Written(at, Start(n), [i \in 0..Start(n) - 1 |-> calls])
        /\ ospos' = IF atEnd THEN next ELSE IF short THEN Larger(next, Size) ELSE next + IOBUFLEN
        /\ io_pos' = IF atEnd THEN end ELSE end + IOBUFLEN
        /\ filesize' = IF atEnd THEN Record(end) ELSE filesize
        /\ status' = IF short THEN "READ_ERROR" ELSE IF n < whole THEN "WRITE_ERROR" ELSE status
        /\ iobuffer' = [iobuffer EXCEPT ![curbuf] =
               [i \in Offsets |-> IF i < todo - Start(whole) THEN calls ELSE under[i]]]
    BY <1>1, <1>9, Zenon
  <2>5. ~(n < whole)
    BY <1>4, <1>9
  <2> HIDE DEF next, short, under, atEnd
  <2>6. [i \in Offsets |-> IF i < todo - Start(whole) THEN calls ELSE under[i]]
        = [i \in Offsets |-> IF i < todo - Start(whole) THEN calls
                             ELSE IF atEnd THEN Fill ELSE OnFile(end, IOBUFLEN)[i + 1]]
    BY <2>3, Zenon
  <2>7. Record(end) = e
    BY <1>4 DEF e
  <2>8. disk' = Written(pos, Start(whole), row)
    BY <1>5, <1>9, <2>4, Zenon
  <2>9. iobuffer' = [iobuffer EXCEPT ![curbuf] =
               [i \in Offsets |-> IF i < todo - Start(whole) THEN calls
                                  ELSE IF atEnd THEN Fill ELSE OnFile(end, IOBUFLEN)[i + 1]]]
    BY <2>4, <2>6, Zenon
  <2>10. /\ ospos' = IF atEnd THEN end ELSE end + IOBUFLEN
         /\ io_pos' = IF atEnd THEN end ELSE end + IOBUFLEN
         /\ filesize' = IF atEnd THEN e ELSE filesize
         /\ status' = status
    BY <2>1, <2>2, <2>4, <2>5, <2>7, Zenon
  <2> QED BY <2>8, <2>9, <2>10
<1> HIDE DEF atEnd
<1>12. m \in Nat /\ IsRow(disk', pos, Start(whole), row)
       /\ \A i \in 0..Start(whole) - 1 : row[i] = calls
  <2>1. Size \in Nat /\ disk \in [0..Size - 1 -> Data] /\ Fill \in Data
    BY <1>3, Bounds DEF DiskSizes
  <2>2. row \in [0..Start(whole) - 1 -> Data]
    BY <1>3, Bounds DEF Values
  <2> HIDE DEF end, row
  <2>3. m \in Nat /\ IsRow(disk', pos, Start(whole), row)
    BY <1>4, <1>11, <2>1, <2>2, WrittenRow
  <2> QED BY <2>3 DEF row
<1> HIDE DEF row, e
<1>13. /\ filesize' \in Nat /\ filesize' >= filesize /\ Start(filesize') = m
       /\ atEnd => filesize' = e
       /\ ~atEnd => filesize' = filesize /\ e < filesize
  <2>1. end = pos + Start(whole)
    OBVIOUS
  <2> HIDE DEF end
  <2>2. m \in {Size, end} /\ m >= Size /\ (Start(whole) # 0 => m >= end)
    BY <1>4, <1>5, <2>1 DEF SizeAfter, Larger
  <2>3. CASE atEnd
    <3>1. filesize' = e /\ e >= filesize /\ end >= Size
      BY <1>5, <1>10, <1>11, <2>3 DEF atEnd
    <3>2. m = end
      <4>1. CASE Start(whole) = 0
        BY <1>4, <1>5, <1>10, <2>1, <2>2, <3>1, <4>1
      <4>2. CASE Start(whole) # 0
        BY <1>4, <1>5, <2>2, <3>1, <4>2
      <4> QED BY <4>1, <4>2
    <3> QED BY <1>5, <1>10, <2>3, <3>1, <3>2
  <2>4. CASE ~atEnd
    <3>1. filesize' = filesize /\ e < filesize /\ end < Size
      BY <1>4, <1>5, <1>10, <1>11, <2>4, Bounds
    <3>2. m = Size
      <4>1. m = IF Start(whole) = 0 THEN Size ELSE Larger(Size, end)
        BY <2>1 DEF SizeAfter
      <4> QED BY <1>4, <1>5, <3>1, <4>1 DEF Larger
    <3> QED BY <1>5, <2>4, <3>1, <3>2
  <2> QED BY <2>3, <2>4
<1> HIDE DEF m
<1>14. Position' /\ DOMAIN disk' = 0..Start(filesize') - 1
  <2>1. DOMAIN disk' = 0..m - 1
    BY <1>12 DEF IsRow, m
  <2>2. Size' = m
    BY <1>12, <2>1, RowSize DEF Size
  <2> QED BY <1>11, <1>12, <1>13, <2>1, <2>2 DEF Position, Start
<1>15. last = e /\ end = Start(e) /\ e \in Nat /\ e >= k /\ pos = Start(k) /\ k \in Nat
       /\ end = pos + Start(whole) /\ end \in Nat /\ Start(whole) \in Nat /\ todo \in Nat
       /\ end <= pos + todo - 1 /\ pos + todo - 1 < end + IOBUFLEN
  BY <1>4, <1>10 DEF e
<1> HIDE DEF end
<1>16. /\ \A x \in Buffers : x # curbuf => /\ bufrecnum'[x] = bufrecnum[x]
                                           /\ dirty'[x] = dirty[x] /\ iobuffer'[x] = iobuffer[x]
       /\ bufrecnum'[curbuf] = e /\ dirty'[curbuf]
       /\ \A x \in Buffers : bufrecnum[x] \notin k - 1..e
  <2>1. /\ dirty \in [Buffers -> BOOLEAN] /\ DOMAIN bufrecnum = Buffers /\ DOMAIN iobuffer = Buffers
    BY <1>3 DEF Shape, Values
  <2>2. \A x \in Buffers : bufrecnum[x] \notin k - 1..e
    BY <1>6 DEF e
  <2>3. \A x \in Buffers : x # curbuf => iobuffer'[x] = iobuffer[x]
    BY <1>11, <2>1, Zenon
  <2> QED BY <1>2, <1>7, <1>15, <2>1, <2>2, <2>3
<1>17. ASSUME NEW i \in Offsets
       PROVE  iobuffer'[curbuf][i] = IF i < todo - Start(whole) THEN calls
                                     ELSE IF atEnd THEN Fill ELSE OnFile(end, IOBUFLEN)[i + 1]
  <2>1. curbuf \in DOMAIN iobuffer
    BY <1>3, <1>7 DEF Values
  <2> DEFINE f == [j \in Offsets |-> IF j < todo - Start(whole) THEN calls
                                     ELSE IF atEnd THEN Fill ELSE OnFile(end, IOBUFLEN)[j + 1]]
  <2>2. iobuffer' = [iobuffer EXCEPT ![curbuf] = f]
    BY <1>11, Zenon
  <2>3. f[i] = IF i < todo - Start(whole) THEN calls
               ELSE IF atEnd THEN Fill ELSE OnFile(end, IOBUFLEN)[i + 1]
    BY Zenon
  <2> HIDE DEF f
  <2>4. iobuffer'[curbuf] = f
    BY <2>1, <2>2, Zenon
  <2> QED BY <2>3, <2>4
<1>18. ASSUME NEW c \in Cells
       PROVE  /\ CellAt(c)' = IF pos <= c /\ c < pos + todo THEN calls ELSE CellAt(c)
              /\ Record(c) < filesize' /\ ~Due(Record(c))' => disk'[c] = CellAt(c)'
  <2> DEFINE s == Record(c)
             o == c - Start(s)
             V == CellAt(c)
             N == CellAt(c)'
             d == \E x \in Buffers : bufrecnum'[x] = s /\ dirty'[x]
  <2>1. /\ s \in Nat /\ s # -1 /\ c \in Nat /\ o \in Offsets /\ Start(s) \in Int
        /\ (s < k <=> c < pos) /\ (s < e <=> c < end)
        /\ (s < filesize <=> c < Size) /\ (s < filesize' <=> c < m)
        /\ Start(s) <= c
    <3>1. /\ s \in Nat /\ c \in Nat /\ o \in Offsets /\ Start(s) \in Int
          /\ \A f \in Int : s < f <=> c < Start(f)
      BY CellIs
    <3>2. Start(s) <= c
      BY <3>1, RecordOf
    <3> HIDE DEF s, o
    <3>3. s < k <=> c < pos
      BY <1>15, <3>1
    <3>4. s < e <=> c < end
      <4>1. e \in Int /\ end = Start(e)
        BY <1>15
      <4> QED BY <3>1, <4>1
    <3>5. s < filesize <=> c < Size
      BY <1>5, <3>1
    <3>6. s < filesize' <=> c < m
      BY <1>13, <3>1
    <3> QED BY <3>1, <3>2, <3>3, <3>4, <3>5, <3>6
  <2>2. /\ V = ViewOf(bufrecnum, iobuffer, filesize, disk, c)
        /\ N = ViewOf(bufrecnum', iobuffer', filesize', disk', c)
    BY Views
  <2>3. /\ DOMAIN disk = 0..Start(filesize) - 1 /\ Distinct(bufrecnum) /\ filesize \in Int
        /\ DOMAIN disk' = 0..Start(filesize') - 1 /\ Distinct(bufrecnum') /\ filesize' \in Int
    BY <1>3, <1>5, <1>13, <1>14, FileIs
  <2>4. \A x \in Buffers : bufrecnum[x] = s => V = iobuffer[x][o]
    BY <2>1, <2>2, <2>3, ViewCached
  <2>5. \A x \in Buffers : bufrecnum'[x] = s => N = iobuffer'[x][o]
    BY <2>1, <2>2, <2>3, ViewCached
  <2>6. (\A x \in Buffers : bufrecnum[x] # s) => V = IF s < filesize THEN disk[c] ELSE Fill
    BY <2>2, <2>3, UncachedCell
  <2>7. (\A x \in Buffers : bufrecnum'[x] # s) => N = IF s < filesize' THEN disk'[c] ELSE Fill
    BY <2>2, <2>3, UncachedCell
  <2>8. Due(s)' <=> d
    BY Zenon DEF Due, Buffers
  <2>9. s < filesize /\ (\A x \in Buffers : bufrecnum[x] = s => ~dirty[x]) => disk[c] = V
    BY <1>3 DEF Clean, Due
  <2>10. s < filesize' => disk'[c] = IF k <= s /\ s < e THEN calls ELSE disk[c]
    <3> SUFFICES ASSUME s < filesize' PROVE disk'[c] = IF k <= s /\ s < e THEN calls ELSE disk[c]
      OBVIOUS
    <3>1. c \in 0..m - 1
      BY <1>12, <2>1
    <3>2. disk'[c] = IF pos <= c /\ c < pos + Start(whole) THEN row[c - pos]
                     ELSE IF c < Size THEN disk[c] ELSE Fill
      BY <1>12, <3>1 DEF IsRow, m
    <3>3. CASE k <= s /\ s < e
      <4>1. pos <= c /\ c < end /\ c - pos \in 0..Start(whole) - 1
        <5>1. ~(c < pos) /\ c < end
          BY <1>15, <2>1, <3>3
        <5> QED BY <1>15, <2>1, <5>1, <1>4
      <4> QED BY <1>12, <1>15, <3>2, <3>3, <4>1
    <3>4. CASE ~(k <= s /\ s < e)
      <4>1. ~(pos <= c /\ c < end)
        BY <1>15, <2>1, <3>4
      <4>2. s < filesize
        <5> HIDE DEF s
        <5>1. CASE atEnd
          <6>1. filesize' = e /\ e \in Nat /\ k \in Nat /\ filesize >= k
            BY <1>7, <1>13, <1>15, <5>1
          <6>2. s < k
            BY <2>1, <3>4, <6>1
          <6> QED BY <1>5, <2>1, <6>1, <6>2
        <5>2. CASE ~atEnd
          BY <1>13, <5>2
        <5> QED BY <5>1, <5>2
      <4> QED BY <1>15, <2>1, <3>2, <3>4, <4>1, <4>2
    <3> QED BY <3>3, <3>4
  <2>11. /\ s < e => s < filesize'
         /\ s < k \/ s > e => (s < filesize' <=> s < filesize)
    BY <1>5, <1>7, <1>10, <1>13, <1>15, <2>1
  <2> HIDE DEF V, N, d
  <2>12. CASE s = e
    <3>1. N = iobuffer'[curbuf][o]
      BY <1>7, <1>16, <2>5, <2>12
    <3>2. d
      BY <1>7, <1>16, <2>12 DEF d
    <3>3. V = IF s < filesize THEN disk[c] ELSE Fill
      <4>1. e \in k - 1..e
        BY <1>15
      <4> QED BY <1>16, <2>6, <2>12, <4>1
    <3>4. c = end + o /\ ~(c < pos) /\ (o < todo - Start(whole) <=> c < pos + todo) /\ o \in Nat /\ o < IOBUFLEN
      <4>1. c = end + o /\ ~(c < pos)
        <5>1. Start(s) = end
          BY <1>15, <2>12
        <5> QED BY <1>15, <2>1, <5>1
      <4>2. o \in Int
        BY <2>1
      <4> HIDE DEF o
      <4>3. o < todo - Start(whole) <=> c < pos + todo
        BY <1>4, <1>15, <4>1, <4>2
      <4>4. o \in Nat /\ o < IOBUFLEN
        BY <2>1, Bounds DEF Offsets
      <4> QED BY <4>1, <4>3, <4>4
    <3>5. ~atEnd => OnFile(end, IOBUFLEN)[o + 1] = disk[c]
      <4> SUFFICES ASSUME ~atEnd PROVE OnFile(end, IOBUFLEN)[o + 1] = disk[c]
        OBVIOUS
      <4> HIDE DEF o
      <4>1. o + 1 \in 1..IOBUFLEN
        BY <3>4, Bounds
      <4>2. OnFile(end, IOBUFLEN)[o + 1] = IF end + (o + 1) - 1 < Size THEN disk[end + (o + 1) - 1] ELSE Fill
        BY <4>1 DEF OnFile
      <4>3. end + (o + 1) - 1 = c
        BY <1>15, <3>4
      <4>4. c < Size
        BY <1>13, <2>1, <2>12
      <4> QED BY <4>2, <4>3, <4>4
    <3>6. N = IF c < pos + todo THEN calls ELSE V
      <4>1. N = IF o < todo - Start(whole) THEN calls
                ELSE IF atEnd THEN Fill ELSE OnFile(end, IOBUFLEN)[o + 1]
        BY <1>17, <2>1, <3>1
      <4>2. atEnd => ~(s < filesize)
        BY <1>5, <1>10, <1>15, <2>12
      <4>3. ~atEnd => s < filesize
        BY <1>13, <2>12
      <4> QED BY <3>3, <3>4, <3>5, <4>1, <4>2, <4>3
    <3> QED BY <1>4, <2>1, <2>8, <3>2, <3>4, <3>6 DEF N, V
  <2>13. CASE k <= s /\ s < e
    <3>1. \A x \in Buffers : bufrecnum'[x] # s
      <4>1. s \in k - 1..e
        BY <1>15, <2>1, <2>13
      <4> QED BY <1>16, <2>13, <4>1
    <3>2. N = calls /\ disk'[c] = calls
      BY <2>7, <2>10, <2>11, <2>13, <3>1
    <3>3. pos <= c /\ c < pos + todo
      BY <1>4, <1>15, <2>1, <2>13
    <3> QED BY <3>2, <3>3 DEF N, V
  <2>14. CASE s < k \/ s > e
    <3>1. ~(pos <= c /\ c < pos + todo)
      <4>1. CASE s < k
        BY <1>4, <2>1, <4>1
      <4>2. CASE s > e
        <5>1. end + IOBUFLEN <= Start(s)
          <6> HIDE DEF s
          <6>1. e < s /\ e \in Int /\ s \in Int
            BY <1>15, <2>1, <4>2
          <6> QED BY <1>15, <6>1, StartOrder
        <5> QED BY <1>4, <1>15, <2>1, <5>1, Bounds
      <4> QED BY <2>14, <4>1, <4>2
    <3>2. /\ \A x \in Buffers : bufrecnum'[x] = s <=> bufrecnum[x] = s
          /\ \A x \in Buffers : bufrecnum[x] = s => dirty'[x] = dirty[x] /\ iobuffer'[x] = iobuffer[x]
      <4>1. s # e
        BY <1>15, <2>1, <2>14
      <4> QED BY <1>7, <1>16, <2>1, <4>1
    <3>3. disk'[c] = disk[c] \/ ~(s < filesize')
      BY <1>15, <2>1, <2>10, <2>14
    <3>4. N = V
      <4>1. CASE \E x \in Buffers : bufrecnum[x] = s
        BY <2>4, <2>5, <3>2, <4>1
      <4>2. CASE \A x \in Buffers : bufrecnum[x] # s
        BY <2>6, <2>7, <2>11, <2>14, <3>2, <3>3, <4>2
      <4> QED BY <4>1, <4>2
    <3>5. s < filesize' /\ ~d => disk'[c] = N
      <4> SUFFICES ASSUME s < filesize', ~d PROVE disk'[c] = N
        OBVIOUS
      <4>1. \A x \in Buffers : bufrecnum[x] = s => ~dirty[x]
        BY <3>2, Zenon DEF d
      <4> QED BY <2>9, <2>11, <2>14, <3>3, <3>4, <4>1
    <3> QED BY <2>8, <3>1, <3>4, <3>5 DEF N, V
  <2>15. s = e \/ (k <= s /\ s < e) \/ s < k \/ s > e
    BY <1>15, <2>1
  <2> QED BY <2>12, <2>13, <2>14, <2>15
<1>19. Clean'
  BY <1>18 DEF Clean, Cells, Record
<1>20. Last'
  <2> SUFFICES ASSUME logfilesize' > filesize'
               PROVE  \E x \in Buffers : bufrecnum'[x] = logfilesize' - 1
    BY DEF Last, Cached, Buffers
  <2>1. logfilesize \in Nat
    BY <1>3 DEF Sizes
  <2>2. CASE logfilesize > e + 1
    <3>1. logfilesize' = logfilesize /\ logfilesize > filesize /\ logfilesize - 1 # -1
      BY <1>2, <1>5, <1>13, <1>15, <2>1, <2>2 DEF Larger
    <3>2. PICK x \in Buffers : bufrecnum[x] = logfilesize - 1
      BY <1>3, <3>1 DEF Last, Cached
    <3>3. x # curbuf
      BY <1>7, <3>1, <3>2
    <3> QED BY <1>16, <3>1, <3>2, <3>3
  <2>3. CASE ~(logfilesize > e + 1)
    <3>1. logfilesize' = e + 1
      BY <1>2, <1>15, <2>3 DEF Larger
    <3>2. logfilesize' - 1 = e
      BY <1>15, <3>1
    <3> QED BY <1>7, <1>16, <3>2
  <2> QED BY <2>2, <2>3
<1>21. WriteOf(todo) /\ todo \in 1..todo
  BY <1>2, <1>4, <1>18 DEF Overwritten, WriteOf
<1>22. Fit'
  BY <1>2, <1>14, <1>19, <1>20, OverFits
<1> QED BY <1>2, <1>21, <1>22 DEF Kept, Effect

-----------------------------------------------------------------------------
(* The invariant                                                           *)

(* Whatever a call does, it leaves the buffers and the file in accord.     *)
LEMMA StepFits == ASSUME Live, Step \/ Forgive \/ UNCHANGED vars PROVE Kept
<1>1. CASE Hit \/ EndOfFile \/ EndFlush \/ Evict \/ Extend \/ Load
  BY <1>1, HitFits, EndsFit, EvictFits, ExtendFits, LoadFits
<1>2. CASE CopyIn \/ CopyOut \/ FillUp \/ WriteBack \/ WriteDirect \/ ReadDirect
  BY <1>2, CopyInFits, CopyOutFits, FillUpFits, WriteBackFits, WriteDirectFits, ReadDirectFits
<1>3. CASE EndClose \/ EndTruncate \/ Forgive \/ UNCHANGED vars
  BY <1>3, EndCloseFits, EndTruncateFits, ForgiveFits
<1> QED BY <1>1, <1>2, <1>3 DEF Step

(* A new call.                                                             *)
Calls ==
    \/ \E p \in Places, n \in Lengths : Put(p, n) \/ Get(p, n)
    \/ Flush \/ Close
    \/ \E r \in 0..MaxRecords : Truncate(r)

(* A step is the start of a call, a step of one, or the caller's.          *)
LEMMA Steps ==
  ASSUME [Next]_vars
  PROVE  (op = "idle" /\ Calls) \/ Step \/ Forgive \/ UNCHANGED vars
BY DEF Next, Calls

(* What was refused is not forgotten.                                      *)
LEMMA LostStays == ASSUME Types, [Next]_vars, lost PROVE lost'
<1>1. CASE Calls
  <2>1. PICK o, st, n, p : Begin(o, st, p, n)
    BY <1>1, CallsBegin, Zenon DEF Calls
  <2> QED BY <2>1 DEF Begin
<1>2. CASE Hit \/ EndOfFile \/ Extend \/ Load \/ CopyIn \/ CopyOut \/ FillUp \/ ReadDirect
  BY <1>2 DEF Hit, EndOfFile, Extend, Load, CopyIn, CopyOut, FillUp, ReadDirect
<1>3. CASE EndFlush \/ EndClose \/ EndTruncate \/ Forgive \/ UNCHANGED vars
  BY <1>3 DEF EndFlush, EndClose, EndTruncate, fflush, Forgive, vars
<1>4. CASE Evict \/ WriteBack
  <2>1. Victim \in Buffers
    BY Facts, VictimIs
  <2>2. PICK b \in Buffers : ffbfwt(b) \/ UNCHANGED lost
    BY <1>4, <2>1, Zenon DEF Evict, WriteBack
  <2> QED BY <2>2, WriteStatus
<1>5. CASE WriteDirect
  <2>1. PICK n, whole, missed : lost' = (lost \/ missed \/ n < whole)
    BY <1>5, Zenon DEF WriteDirect
  <2> QED BY <2>1, Zenon
<1> QED BY <1>1, <1>2, <1>3, <1>4, <1>5, Steps DEF Step

(* After an error of a call only a close is left, or to forgive the end of *)
(* the file.                                                               *)
LEMMA ErrorSteps ==
  ASSUME Types, [Next]_vars, status # "ok", op \in {"idle", "close", "closed"}
  PROVE  \/ UNCHANGED vars \/ Forgive
         \/ op' \in {"close", "closed"} /\ status' \in {status, "WRITE_ERROR"}
                                        /\ (~lost' => UNCHANGED status)
<1>0. InCall
  BY Facts
<1>1. stage \in {"done", "drop"} /\ (stage = "drop" => op = "close")
  BY <1>0 DEF InCall, Transfer
<1>2. ASSUME Calls PROVE op' = "close" /\ UNCHANGED status
  BY <1>2, CallsBegin DEF Calls, Close, Begin
<1>3. ~(Hit \/ EndOfFile \/ Evict \/ Extend \/ Load \/ CopyIn \/ CopyOut \/ FillUp)
  BY <1>1 DEF Hit, EndOfFile, Evict, Extend, Load, CopyIn, CopyOut, FillUp, Loading
<1>4. ~(WriteDirect \/ ReadDirect \/ EndFlush \/ EndTruncate)
  BY DEF WriteDirect, ReadDirect, EndFlush, Flushed, EndTruncate
<1>5. CASE EndClose
  BY <1>5 DEF EndClose
<1>6. CASE WriteBack
  <2>1. PICK b \in Buffers : ffbfwt(b) \/ UNCHANGED status
    BY <1>6, Zenon DEF WriteBack
  <2>2. op' = op /\ stage = "drop"
    BY <1>6 DEF WriteBack, Call
  <2> QED BY <1>1, <2>1, <2>2, WriteStatus
<1> QED BY <1>2, <1>3, <1>4, <1>5, <1>6, Steps DEF Step

(* A buffer is loaded from the file without an error.                      *)
LEMMA LoadSucceeds ==
  ASSUME Types, Position, status = "ok", ~lost', Load
  PROVE  status' = "ok"
<1>1. Loading /\ Wanted < filesize /\ ffread(SeekTo(Start(Wanted)), IOBUFLEN)
  <2>1. PICK missed \in Misses(Start(Wanted)) :
           ffread(Sought(Start(Wanted), missed), IOBUFLEN) /\ lost' = (lost \/ missed)
    BY Zenon DEF Load
  <2>2. ~missed
    BY <2>1
  <2>3. ffread(SeekTo(Start(Wanted)), IOBUFLEN)
    BY <2>1, <2>2, NotMissed, Zenon
  <2> QED BY <2>3 DEF Load
<1>2. Wanted \in Nat /\ filesize \in Nat
  BY <1>1, Facts, WantedIs DEF DiskSizes
<1>3. Start(Wanted) \in Nat /\ Start(Wanted) + IOBUFLEN <= Start(filesize)
  BY <1>1, <1>2, Bounds, StartOrder DEF Start
<1> QED BY <1>1, <1>3, Bounds, ReadFits

(* In a step without a refused write a call goes on only without an error. *)
LEMMA NoErrors ==
  ASSUME Types, Position, status = "ok", ~lost', Step
  PROVE  status' # "WRITE_ERROR" /\ (status' = "ok" \/ op' \in {"idle", "closed"})
<1>1. CASE Hit \/ Extend \/ CopyIn \/ CopyOut \/ FillUp \/ EndFlush \/ EndClose
  BY <1>1 DEF Hit, Extend, CopyIn, CopyOut, FillUp, EndFlush, EndClose
<1>2. CASE EndOfFile \/ EndTruncate
  BY <1>2 DEF EndOfFile, EndTruncate, Done
<1>3. CASE Evict \/ WriteBack
  <2>1. Victim \in Buffers
    BY Facts, VictimIs
  <2>2. PICK b \in Buffers : ffbfwt(b) \/ UNCHANGED status
    BY <1>3, <2>1, Zenon DEF Evict, WriteBack
  <2> QED BY <2>2, WriteStatus
<1>4. CASE Load
  BY <1>4, LoadSucceeds
<1>5. CASE ReadDirect
  BY <1>5 DEF ReadDirect, ffread, Done
<1>6. CASE WriteDirect
  <2>1. PICK short, n, whole, missed :
           /\ status' = IF short THEN "READ_ERROR" ELSE IF n < whole THEN "WRITE_ERROR" ELSE status
           /\ lost' = (lost \/ missed \/ n < whole)
    BY <1>6, Zenon DEF WriteDirect
  <2>2. ~(n < whole)
    BY <2>1, Zenon
  <2>3. op' = "idle"
    BY <1>6 DEF WriteDirect, Done
  <2> QED BY <2>1, <2>2, <2>3
<1> QED BY <1>1, <1>2, <1>3, <1>4, <1>5, <1>6 DEF Step

(* Every step keeps the statuses.                                          *)
LEMMA StatusesKept == ASSUME FileInv, Types', [Next]_vars PROVE Statuses'
<1> SUFFICES ASSUME ~lost'
             PROVE  /\ status' # "WRITE_ERROR"
                    /\ status' # "ok" => op' \in {"idle", "close", "closed"}
  BY DEF Statuses
<1>1. Types /\ Statuses /\ Coherent /\ ~lost
  BY LostStays DEF FileInv
<1>2. CASE status # "ok"
  <2>1. op \in {"idle", "close", "closed"} /\ status # "WRITE_ERROR"
    BY <1>1, <1>2 DEF Statuses
  <2>2. CASE UNCHANGED vars
    BY <2>1, <2>2 DEF vars, Call
  <2>3. CASE Forgive
    BY <2>3 DEF Forgive
  <2> QED BY <1>1, <1>2, <2>1, <2>2, <2>3, ErrorSteps
<1>3. CASE status = "ok"
  <2>1. Position
    BY <1>1, <1>3 DEF Coherent, Sound, Fit
  <2>2. CASE Calls
    <3>1. PICK o, st, n, p : Begin(o, st, p, n)
      BY <1>1, <2>2, CallsBegin, Zenon DEF Calls
    <3> QED BY <1>3, <3>1 DEF Begin
  <2>3. CASE Step
    BY <1>1, <1>3, <2>1, <2>3, NoErrors
  <2>4. CASE Forgive \/ UNCHANGED vars
    BY <1>3, <2>4 DEF Forgive, vars
  <2> QED BY <2>2, <2>3, <2>4, Steps
<1> QED BY <1>2, <1>3

(* A step from where all is in accord.                                     *)
LEMMA SoundSteps ==
  ASSUME Types, Types', Fit, Sound, ~lost', [Next]_vars
  PROVE  /\ status' # "READ_ERROR" => Fit'
         /\ (op = "idle" /\ Calls /\ SameView /\ got' = <<>> /\ answer' = <<>>) \/ Effect
<1>1. CASE op = "idle" /\ Calls
  <2>1. PICK o, st, n : \E p \in Nat : Begin(o, st, p, n) /\ (st = "drop" => o # "put")
    BY <1>1, CallsBegin, Zenon DEF Calls
  <2> QED BY <1>1, <2>1, BeginFits
<1>2. CASE Step \/ Forgive \/ UNCHANGED vars
  BY <1>2, StepFits DEF Live, Kept
<1> QED BY <1>1, <1>2, Steps

(* Every step keeps the invariant.                                         *)
LEMMA FileInvKept == FileInv /\ [Next]_vars => FileInv'
<1> SUFFICES ASSUME FileInv, [Next]_vars PROVE FileInv'
  OBVIOUS
<1>1. Types' /\ Types /\ Statuses /\ Coherent
  BY TypesKept DEF FileInv
<1>2. Statuses'
  BY <1>1, StatusesKept
<1>3. ASSUME Sound' PROVE Fit'
  <2>1. ~lost' /\ ~lost /\ status' # "READ_ERROR" /\ (status' = "ok" \/ op' = "idle")
    BY <1>1, <1>3, LostStays DEF Sound
  <2>2. Sound
    <3> SUFFICES ASSUME status # "ok" PROVE status # "READ_ERROR" /\ op = "idle"
      BY <2>1 DEF Sound
    <3>1. op \in {"idle", "close", "closed"}
      BY <1>1, <2>1 DEF Statuses
    <3>2. CASE UNCHANGED vars
      BY <2>1, <3>2 DEF vars, Call
    <3>3. CASE Forgive
      BY <3>3 DEF Forgive
    <3>4. CASE op' \in {"close", "closed"} /\ (~lost' => UNCHANGED status)
      BY <2>1, <3>4
    <3> QED BY <1>1, <3>1, <3>2, <3>3, <3>4, ErrorSteps
  <2> QED BY <1>1, <2>1, <2>2, SoundSteps DEF Coherent
<1> QED BY <1>1, <1>2, <1>3 DEF FileInv, Coherent

(* The invariant holds at the start.                                       *)
LEMMA InitFileInv == Init => FileInv
<1> SUFFICES ASSUME Init PROVE FileInv
  OBVIOUS
<1>1. /\ filesize \in Nat
      /\ logfilesize = Larger(filesize, 1)
      /\ disk = [c \in 0..Start(filesize) - 1 |-> Old]
      /\ ospos = io_pos
      /\ bufrecnum = [b \in Buffers |-> IF b = 0 THEN 0 ELSE -1]
      /\ iobuffer = [b \in Buffers |-> IF b = 0 /\ filesize > 0
                                       THEN [i \in Offsets |-> Old] ELSE Blank]
      /\ status = "ok" /\ op = "idle" /\ stage = "done"
  BY DEF Init
<1>2. Types /\ 0 \in Buffers
  BY InitTypes, Facts, VictimIs
<1>3. Start(filesize) \in Nat
  BY <1>1, Bounds DEF Start
<1>4. Position
  <2>1. DOMAIN disk = 0..Start(filesize) - 1
    BY <1>1
  <2>2. Size = Start(filesize)
    BY <1>3, <2>1, RowSize DEF Size
  <2> QED BY <1>1, <2>2 DEF Position
<1>5. ASSUME NEW c \in Cells, Record(c) < filesize PROVE disk[c] = CellAt(c)
  <2>1. /\ c \in Nat /\ Record(c) \in Nat /\ c < Start(filesize)
        /\ c - Start(Record(c)) \in Offsets
    BY <1>1, <1>5, CellIs
  <2>2. disk[c] = Old
    BY <1>1, <1>3, <2>1
  <2>3. DOMAIN disk = 0..Start(filesize) - 1 /\ Distinct(bufrecnum)
    BY <1>2, <1>4, FileIs
  <2>4. CASE Record(c) = 0
    <3>1. bufrecnum[0] = Record(c) /\ Record(c) # -1
      BY <1>1, <1>2, <2>4
    <3>2. CellAt(c) = iobuffer[0][c - Start(Record(c))]
      BY <1>2, <2>3, <3>1, Views, ViewCached
    <3>3. iobuffer[0] = [i \in Offsets |-> Old]
      BY <1>1, <1>2, <1>5, <2>4
    <3> QED BY <2>1, <2>2, <3>2, <3>3
  <2>5. CASE Record(c) # 0
    <3>1. \A b \in Buffers : bufrecnum[b] # Record(c)
      BY <1>1, <2>1, <2>5
    <3>2. filesize \in Int
      BY <1>1
    <3>3. CellAt(c) = IF Record(c) < filesize THEN disk[c] ELSE Fill
      BY <2>3, <3>1, <3>2, Views, UncachedCell
    <3> QED BY <1>5, <3>3
  <2> QED BY <2>4, <2>5
<1>6. Clean
  BY <1>5 DEF Clean
<1>7. Last
  <2> SUFFICES ASSUME logfilesize > filesize PROVE \E b \in Buffers : bufrecnum[b] = logfilesize - 1
    BY DEF Last, Cached
  <2>1. logfilesize = 1
    BY <1>1 DEF Larger
  <2> QED BY <1>1, <1>2, <2>1
<1>8. Adjoins /\ Collected /\ Unanswered
  BY <1>1 DEF Adjoins, Collected, Unanswered
<1> QED BY <1>1, <1>2, <1>4, <1>6, <1>7, <1>8 DEF FileInv, Statuses, Coherent, Fit

(* The invariant always holds.                                             *)
LEMMA FileInvHolds == Spec => []FileInv
  BY InitFileInv, FileInvKept, PTL DEF Spec

(* As long as nothing failed the stream is where the library believes it   *)
(* is, so every seek that ffbfwt, ffldrc and the direct reads and writes   *)
(* leave out is not needed, and the file is as long as the library         *)
(* believes.                                                               *)
THEOREM PositionIsKnown == Spec => []PositionKnown
<1>1. FileInv => PositionKnown
  BY DEF FileInv, Coherent, Sound, Fit, Position, PositionKnown
<1> QED BY <1>1, FileInvHolds, PTL

(* When a flush or a close returns without an error, and the system has    *)
(* refused nothing, not even the last thing either of them asks for, every *)
(* cell the routines above have written has been taken by the system, and  *)
(* the file is as long as they believe.                                    *)
THEOREM FlushesStore == Spec => FlushStores
<1>1. ASSUME FileInv, [Next]_vars PROVE Stored
  <2> SUFFICES ASSUME EndFlush \/ EndClose, status' = "ok", ~lost' PROVE AllOnDisk
    BY DEF Stored
  <2>1. PICK n \in Taken : fflush(n)
    BY DEF EndFlush, EndClose
  <2>2. Types /\ ~lost /\ status = "ok"
    BY <1>1, <2>1 DEF FileInv, fflush, EndFlush, EndClose
  <2>3. Position /\ Clean /\ Last
    BY <1>1, <2>2 DEF FileInv, Coherent, Sound, Fit
  <2>4. Unwritten = {}
    BY DEF EndFlush, Flushed, EndClose, Pending
  <2>5. n = Size /\ [c \in 0..n - 1 |-> disk[c]] = disk
    <3>1. DiskSizes /\ lost \in BOOLEAN
      BY <2>2, Facts DEF Values
    <3> QED BY <2>1, <3>1, FlushLeaves DEF fflush
  <2>6. UNCHANGED disk /\ sure' = Size
    BY <2>1, <2>5 DEF fflush
  <2>7. Size = Start(logfilesize) /\ \A c \in Cells : OnDiskIs(c) = CellAt(c)
    BY <2>2, <2>3, <2>4, AllStored
  <2>8. Size' = Size /\ \A c \in Cells : OnDiskIs(c)' = OnDiskIs(c)
    BY <2>6 DEF Size, OnDiskIs
  <2> QED BY <2>6, <2>7, <2>8 DEF AllOnDisk
<1> QED BY <1>1, FileInvHolds, PTL DEF Spec, FlushStores

(* A read of few cells that stays within the file, counted with what is    *)
(* only in buffers, does not fail: not when it has to write a buffer that  *)
(* makes room, nor when it loads a record that was never read before.      *)
THEOREM ReadsDoSucceed == Spec => ReadsSucceed
<1>1. ASSUME FileInv, [Next]_vars, Within PROVE UNCHANGED status
  <2>1. Types /\ ~lost' /\ ~lost /\ op = "get" /\ stage # "drop" /\ pos + todo <= Start(logfilesize)
    BY <1>1, LostStays DEF FileInv, Within
  <2>2. status = "ok"
    BY <1>1, <2>1 DEF FileInv, Statuses
  <2>3. Position
    BY <1>1, <2>1, <2>2 DEF FileInv, Coherent, Sound, Fit
  <2>4. CASE UNCHANGED vars
    BY <2>4 DEF vars
  <2>5. CASE Hit \/ Extend \/ CopyIn \/ CopyOut \/ FillUp
    BY <2>5 DEF Hit, Extend, CopyIn, CopyOut, FillUp
  <2>6. ~EndOfFile
    <3> SUFFICES ASSUME Loading, Wanted >= logfilesize PROVE FALSE
      BY <2>1 DEF EndOfFile, PastEnd
    <3>1. pos \in Nat /\ todo \in Nat /\ todo >= 1 /\ logfilesize \in Nat
      BY <2>1, Facts DEF InCall, Transfer, Loading, Sizes
    <3>2. Start(logfilesize) \in Int
      BY <3>1, StartIs
    <3>3. pos < Start(logfilesize)
      BY <2>1, <3>1, <3>2
    <3>4. Record(pos) < logfilesize /\ Record(pos) \in Int
      BY <3>1, <3>3, RecordOrder, RecordOf
    <3> QED BY <3>1, <3>4 DEF Wanted
  <2>7. CASE Evict
    <3>1. Victim \in Buffers /\ ffbfwt(Victim)
      BY <2>1, <2>7, Facts, VictimIs DEF Evict
    <3> QED BY <2>1, <3>1, WriteStatus
  <2>8. CASE Load
    BY <2>1, <2>2, <2>3, <2>8, LoadSucceeds
  <2>9. ~(WriteBack \/ WriteDirect \/ ReadDirect \/ EndFlush \/ EndClose \/ EndTruncate \/ Forgive)
    BY <2>1 DEF WriteBack, WriteDirect, ReadDirect, EndFlush, Flushed, EndClose, EndTruncate, Forgive
  <2> QED BY <1>1, <2>1, <2>4, <2>5, <2>6, <2>7, <2>8, <2>9, Steps DEF Step
<1> QED BY <1>1, FileInvHolds, PTL DEF Spec, ReadsSucceed

-----------------------------------------------------------------------------
(* A plain file                                                            *)

(* The cells as a row, and when nothing more is promised of them.          *)
View == [c \in Cells |-> CellAt(c)]
Broken == lost \/ ClosedInError

(* What is broken stays so.                                                *)
LEMMA BrokenStays == ASSUME Types, [Next]_vars, Broken PROVE Broken'
<1>1. CASE lost
  BY <1>1, LostStays DEF Broken
<1>2. CASE ClosedInError
  <2>1. op \in {"close", "closed"} /\ status # "ok"
    BY <1>2 DEF ClosedInError
  <2>2. CASE UNCHANGED vars
    BY <2>1, <2>2 DEF vars, Call, Broken, ClosedInError
  <2>3. ~Forgive
    BY <2>1 DEF Forgive
  <2>4. CASE op' \in {"close", "closed"} /\ status' \in {status, "WRITE_ERROR"}
    BY <2>1, <2>4 DEF Broken, ClosedInError
  <2> QED BY <2>1, <2>2, <2>3, <2>4, ErrorSteps
<1> QED BY <1>1, <1>2 DEF Broken

(* What a call asks for, before a step and after it.                       *)
Asked(o, p, q, v) == [op |-> o, at |-> p, to |-> q, value |-> v]
LEMMA Requests ==
  /\ op = "put" => Request = Asked("write", pos, pos + todo, calls)
  /\ op = "get" => Request = Asked("read", pos - Len(got), pos + todo, Fill)
  /\ op = "truncate" => Request = Asked("cut", pos, pos, Fill)
  /\ op \in Silent => Request = BF!Idle
  /\ op' = "put" => Request' = Asked("write", pos', pos' + todo', calls')
  /\ op' = "get" => Request' = Asked("read", pos' - Len(got'), pos' + todo', Fill)
  /\ op' = "truncate" => Request' = Asked("cut", pos', pos', Fill)
  /\ op' \in Silent => Request' = BF!Idle
BY DEF Request, Asked, Fill, Silent, BF!Idle

LEMMA RequestKept == ASSUME SameRequest PROVE UNCHANGED Request
<1>1. CASE UNCHANGED <<op, pos, todo, got, calls>>
  BY <1>1 DEF Request, Fill
<1>2. CASE op \in Silent /\ op' \in Silent
  BY <1>2, Requests
<1>3. CASE /\ op = "get" /\ op' = "get"
           /\ pos' - Len(got') = pos - Len(got) /\ pos' + todo' = pos + todo
  BY <1>3, Requests
<1> QED BY <1>1, <1>2, <1>3 DEF SameRequest

(* The cells of the file, by number.                                       *)
LEMMA CellsAre == Cells = 0..Start(MaxRecords) - 1 /\ Start(MaxRecords) \in Nat \ {0}
<1>1. Cells = 0..Start(MaxRecords) - 1
  BY DEF Cells, Start
<1>2. Start(MaxRecords) \in Int /\ Start(0) + IOBUFLEN <= Start(MaxRecords)
  BY Bounds, StartIs, StartOrder
<1> QED BY <1>1, <1>2, Bounds, StartIs

(* The last of the cells of a call, and the one behind.                    *)
LEMMA Spans ==
  ASSUME NEW full \in Nat \ {0}, NEW p \in Nat, NEW n \in Nat, p + n <= full
  PROVE  /\ n >= 1 => /\ p \in 0..full - 1 /\ p + n - 1 \in 0..full - 1
                      /\ p <= p + n - 1 /\ p + n - 1 + 1 = p + n
         /\ p \in 0..full - 1 \/ (full - 1 \in 0..full - 1 /\ p = full - 1 + 1)
         /\ p - 0 = p
OBVIOUS

(* A call that begins asks for cells of the file, or for nothing.          *)
LEMMA BeginsFile ==
  ASSUME Types', Request = BF!Idle, got' = <<>>, answer' = <<>>, UNCHANGED View, UNCHANGED Broken
  PROVE  BF!Begin \/ BF!Forget
<1> DEFINE full == Start(MaxRecords)
<1>1. /\ InCall' /\ Values' /\ Sizes'
  BY NextFacts
<1>2. Cells = 0..full - 1 /\ full \in Nat \ {0}
  BY CellsAre
<1> HIDE DEF full
<1>3. pos' \in Nat /\ todo' \in Nat /\ Len(got') = 0
  BY <1>1 DEF InCall
<1>5. ASSUME NEW p, NEW n, p = pos', n = todo', op' \in {"put", "get"} PROVE BF!Begin
  <2>1. p \in Nat /\ n \in Nat /\ n >= 1 /\ p + n <= full
    BY <1>1, <1>5 DEF InCall, Transfer, Start, full
  <2> DEFINE l == p + n - 1
  <2>2. p \in Cells /\ l \in Cells /\ p <= l /\ l + 1 = p + n /\ p - 0 = p
    BY <1>2, <2>1, Spans
  <2> HIDE DEF l
  <2>3. calls' \in Data
    BY <1>1, BufferAssumption DEF Values, Data, Old
  <2>4. \/ Request' = Asked("write", p, l + 1, calls')
        \/ Request' = Asked("read", p, l + 1, Fill)
    <3>1. CASE op' = "put"
      BY <1>5, <2>2, <3>1, Requests
    <3>2. CASE op' = "get"
      BY <1>3, <1>5, <2>2, <3>2, Requests
    <3> QED BY <1>5, <3>1, <3>2
  <2>5. \E a, b \in Cells, v \in Data :
           /\ a <= b
           /\ Request' = Asked("write", a, b + 1, v) \/ Request' = Asked("read", a, b + 1, Fill)
    BY <2>2, <2>3, <2>4, Zenon
  <2> QED BY <2>5, Zenon DEF BF!Begin, Asked, View, Broken
<1>6. ASSUME NEW p, p = pos', op' = "truncate" PROVE BF!Begin
  <2>1. PICK r \in 0..logfilesize' : p = Start(r)
    BY <1>1, <1>6 DEF InCall, Transfer, Start
  <2>2. r \in Int /\ r <= MaxRecords /\ MaxRecords \in Int
    BY <1>1, Bounds DEF Sizes
  <2>3. p <= full
    BY <2>1, <2>2, StartOrder DEF full
  <2>4. p \in Cells \cup {l + 1 : l \in Cells}
    <3>1. p \in Nat
      BY <1>3, <1>6
    <3>2. p + 0 <= full
      BY <1>2, <2>3, <3>1
    <3>3. p \in Cells \/ (full - 1 \in Cells /\ p = full - 1 + 1)
      BY <1>2, <3>1, <3>2, Spans
    <3> QED BY <3>3
  <2>5. Request' = Asked("cut", p, p, Fill)
    BY <1>6, Requests
  <2>6. \E a \in Cells \cup {l + 1 : l \in Cells} : Request' = Asked("cut", a, a, Fill)
    BY <2>4, <2>5
  <2> QED BY <2>6, Zenon DEF BF!Begin, Asked, View, Broken
<1>7. CASE op' \in Silent
  <2>1. Request' = BF!Idle
    BY <1>7, Requests
  <2> QED BY <2>1 DEF BF!Forget, View, Broken
<1>8. op' \in {"put", "get", "truncate"} \cup Silent
  BY <1>1 DEF InCall, Transfer, Silent
<1> QED BY <1>5, <1>6, <1>7, <1>8

(* A read is answered with the cells that are in the file.                 *)
LEMMA ReadsFile ==
  ASSUME Types, Types', ReadEnds, UNCHANGED View, UNCHANGED Broken
  PROVE  BF!Read
<1> DEFINE p == pos - Len(got)
           q == pos + todo
           n == todo + Len(got)
<1>1. Request = Asked("read", p, q, Fill) /\ Request' = BF!Idle
  BY Requests DEF ReadEnds, Silent
<1>4. q - p = n /\ (Len(got) <= pos => p \in Nat /\ n \in Nat /\ p + n <= Start(MaxRecords))
  <2>1. /\ pos \in Nat /\ todo \in Nat /\ pos + todo <= Start(MaxRecords) /\ got \in Seq(Data)
    BY Facts DEF ReadEnds, InCall, Transfer, Values
  <2>2. Len(got) \in Nat /\ Start(MaxRecords) \in Nat
    BY <2>1, LenProperties, CellsAre
  <2> QED BY <2>1, <2>2
<1> HIDE DEF p, q, n
<1>2. Request.op = "read" /\ Request.at = p /\ Request.to - Request.at = n
  BY <1>1, <1>4 DEF Asked
<1>3. answer' \in {<<>>, [i \in 1..n |-> View[p + i - 1]]}
  <2>1. CASE answer' = <<>>
    BY <2>1
  <2>2. CASE answer' # <<>>
    <3>1. answer' = [i \in 1..n |-> CellAt(p + i - 1)]
      BY <2>2 DEF ReadEnds, p, n
    <3>2. \A i \in 1..n : p + i - 1 \in Cells
      <4>1. p \in Nat /\ n \in Nat /\ p + n <= Start(MaxRecords)
        BY <1>4, <2>2 DEF ReadEnds
      <4> QED BY <4>1, CellsAre
    <3>3. \A i \in 1..n : View[p + i - 1] = CellAt(p + i - 1)
      BY <3>2 DEF View
    <3>4. answer' = [i \in 1..n |-> View[p + i - 1]]
      BY <3>1, <3>3, Zenon
    <3> QED BY <3>4
  <2> QED BY <2>1, <2>2
<1> QED BY <1>1, <1>2, <1>3, Zenon DEF BF!Read, View, Broken

(* The next cells of a write take its value.                               *)
LEMMA WritesFile ==
  ASSUME Types, NEW n \in 1..todo, WriteOf(n), UNCHANGED Broken
  PROVE  BF!Write
<1> DEFINE q == pos + n
<1>1. Request = Asked("write", pos, pos + todo, calls) /\ UNCHANGED <<calls, answer>>
  BY Requests DEF WriteOf
<1>2. /\ Request.op = "write" /\ Request.at = pos /\ Request.to = pos + todo /\ Request.value = calls
  BY <1>1 DEF Asked
<1>3. q \in pos + 1..pos + todo /\ (q = pos + todo <=> n = todo)
  BY Facts DEF InCall
<1>4. View' = [c \in Cells |-> IF pos <= c /\ c < q THEN calls ELSE View[c]]
  <2>1. \A c \in Cells : CellAt(c)' = IF pos <= c /\ c < q THEN calls ELSE View[c]
    BY DEF WriteOf, Overwritten, View
  <2> QED BY <2>1, Zenon DEF View, Cells
<1>5. Request' = IF q = pos + todo THEN BF!Idle ELSE [Request EXCEPT !.at = q]
  <2>1. CASE n = todo
    <3>1. op' \in Silent
      BY <2>1 DEF WriteOf, Silent
    <3> QED BY <1>3, <2>1, <3>1, Requests
  <2>2. CASE n # todo
    <3>1. op' = "put" /\ pos' = q /\ pos' + todo' = pos + todo
      BY <2>2, Facts DEF WriteOf, InCall
    <3> HIDE DEF q
    <3>2. Request' = Asked("write", q, pos + todo, calls)
      BY <1>1, <3>1, Requests
    <3>3. [Request EXCEPT !.at = q] = Asked("write", q, pos + todo, calls)
      BY <1>1 DEF Asked
    <3> QED BY <1>3, <2>2, <3>2, <3>3
  <2> QED BY <2>1, <2>2
<1> HIDE DEF q
<1>6. \E r \in Request.at + 1..Request.to :
         /\ View' = [c \in Cells |-> IF Request.at <= c /\ c < r THEN Request.value ELSE View[c]]
         /\ Request' = IF r = Request.to THEN BF!Idle ELSE [Request EXCEPT !.at = r]
  BY <1>2, <1>3, <1>4, <1>5, Zenon
<1> QED BY <1>1, <1>2, <1>6, Zenon DEF BF!Write, View, Broken

(* A truncation cuts the file where it was asked to.                       *)
LEMMA CutsFile ==
  ASSUME CutEnds, UNCHANGED Broken
  PROVE  BF!Cut
<1>1. Request = Asked("cut", pos, pos, Fill) /\ Request' = BF!Idle /\ UNCHANGED answer
  BY Requests DEF CutEnds, Silent
<1>2. Request.op = "cut" /\ Request.at = pos
  BY <1>1 DEF Asked
<1>3. View' = [c \in Cells |-> IF c < pos THEN View[c] ELSE Fill]
  <2>1. \A c \in Cells : CellAt(c)' = IF c < pos THEN View[c] ELSE Fill
    BY DEF CutEnds, CutFrom, View
  <2> QED BY <2>1, Zenon DEF View, Cells
<1> QED BY <1>1, <1>2, <1>3, Zenon DEF BF!Cut, View, Broken

(* Every step is one of a plain file, or is not seen.                      *)
LEMMA ByteFileSteps ==
  ASSUME FileInv, FileInv', [Next]_vars
  PROVE  BF!Next \/ UNCHANGED <<View, Request, answer, Broken>>
<1>1. Types /\ Types' /\ Statuses /\ Coherent
  BY DEF FileInv
<1>2. CASE Broken'
  <2>1. (lost \/ ClosedInError)' = TRUE
    BY <1>2, Zenon DEF Broken
  <2> QED BY <2>1, Zenon DEF BF!Next, BF!Refuse
<1>3. CASE ~Broken'
  <2>1. ~Broken /\ UNCHANGED Broken
    <3>1. ~Broken
      BY <1>1, <1>3, BrokenStays
    <3> QED BY <1>3, <3>1, Zenon DEF Broken
  <2>2. ~lost /\ ~lost' /\ ~ClosedInError /\ ~ClosedInError'
    BY <1>3, <2>1 DEF Broken
  <2>3. status # "ok" => op = "idle"
    BY <1>1, <2>2 DEF Statuses, ClosedInError
  <2>4. ASSUME BF!Begin \/ BF!Write \/ BF!Read \/ BF!Cut \/ BF!Forget PROVE BF!Next
    BY <2>1, <2>4, Zenon DEF BF!Next, Broken
  <2>5. ASSUME SameView PROVE UNCHANGED View
    BY <2>5, Zenon DEF SameView, View, Cells
  <2>6. CASE Sound
    <3>1. (op = "idle" /\ Calls /\ SameView /\ got' = <<>> /\ answer' = <<>>) \/ Effect
      BY <1>1, <2>2, <2>6, SoundSteps DEF Coherent
    <3>2. CASE op = "idle" /\ Calls /\ SameView /\ got' = <<>> /\ answer' = <<>>
      <4>1. Request = BF!Idle
        BY <3>2, Requests DEF Silent
      <4> QED BY <1>1, <2>1, <2>4, <2>5, <3>2, <4>1, BeginsFile
    <3>3. CASE Unseen
      <4>1. UNCHANGED Request
        BY <3>3, RequestKept DEF Unseen
      <4> QED BY <2>1, <2>5, <3>3, <4>1 DEF Unseen
    <3>4. CASE ReadEnds
      BY <1>1, <2>1, <2>4, <2>5, <3>4, ReadsFile DEF ReadEnds
    <3>5. ASSUME NEW n \in 1..todo, WriteOf(n) PROVE BF!Next
      BY <1>1, <2>1, <2>4, <3>5, WritesFile
    <3>6. CASE CutEnds
      BY <2>1, <2>4, <3>6, CutsFile
    <3> QED BY <3>1, <3>2, <3>3, <3>4, <3>5, <3>6 DEF Effect
  <2>7. CASE ~Sound
    <3>1. status = "READ_ERROR" /\ op = "idle"
      BY <1>1, <2>2, <2>3, <2>7 DEF Sound
    <3>2. CASE UNCHANGED vars
      <4>1. UNCHANGED <<disk, filesize, bufrecnum, iobuffer, answer, op, pos, todo, got, calls>>
        BY <3>2 DEF vars, OnDisk, Cache, Call
      <4>2. SameView
        <5>1. \A c \in Cells : CellAt(c)' = CellAt(c)
          BY <4>1, Views
        <5> QED BY <5>1 DEF SameView
      <4>3. UNCHANGED Request
        BY <4>1, RequestKept DEF SameRequest
      <4> QED BY <2>1, <2>5, <4>1, <4>2, <4>3
    <3>3. ~Forgive
      BY <3>1 DEF Forgive
    <3>4. ~(op' \in {"close", "closed"} /\ (~lost' => UNCHANGED status))
      BY <2>2, <3>1 DEF ClosedInError
    <3> QED BY <1>1, <3>1, <3>2, <3>3, <3>4, ErrorSteps
  <2> QED BY <2>6, <2>7
<1> QED BY <1>2, <1>3

(* The buffers are a plain file: whatever was evicted, written or read     *)
(* directly, loaded again or cut meanwhile, a write changes the cells it   *)
(* was asked to and no others, and a read returns all the cells it was     *)
(* asked for, as they were last written, or none; for every number and     *)
(* size of buffers, until the system refuses anything or the file is       *)
(* closed after an error.                                                  *)
THEOREM BuffersImplementFile == Spec => ImplementsByteFile
<1>1. Init => BF!Init
  <2> SUFFICES ASSUME Init PROVE BF!Init
    OBVIOUS
  <2>1. DiskSizes /\ Values
    BY InitTypes, Facts
  <2>2. [c \in Cells |-> CellAt(c)] \in [Cells -> Data]
    <3>1. \A c \in Cells : CellAt(c) \in Data
      BY <2>1, CellIs, CellIsData
    <3> QED BY <3>1
  <2>3. answer = <<>> /\ lost = FALSE /\ ~ClosedInError
    BY DEF Init, ClosedInError
  <2>4. (lost \/ ClosedInError) = FALSE
    BY <2>3, Zenon
  <2>5. Request = BF!Idle
    <3>1. op \in Silent
      BY DEF Init, Silent
    <3> QED BY <3>1, Requests
  <2> QED BY <2>2, <2>3, <2>4, <2>5, Zenon DEF BF!Init
<1>2. ASSUME FileInv, FileInv', [Next]_vars
      PROVE  [BF!Next]_<<[c \in Cells |-> CellAt(c)], Request, answer, lost \/ ClosedInError>>
  BY <1>2, ByteFileSteps, Zenon DEF View, Broken
<1> QED BY <1>1, <1>2, FileInvHolds, PTL DEF Spec, ImplementsByteFile, BF!Spec, BF!vars
=============================================================================
