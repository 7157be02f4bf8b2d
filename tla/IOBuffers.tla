----------------------------- MODULE IOBuffers -----------------------------
(***************************************************************************)
(* The input/output buffers of CFITSIO (buffers.c), through which every    *)
(* byte of the output file passes: NIOBUF buffers of one record each, with *)
(* the order of their ages, over a file that the buffers extend, and that  *)
(* large reads and writes reach directly.  A call is a step for each       *)
(* record it loads, writes back or copies.                                 *)
(*                                                                         *)
(* Positions are in cells, IOBUFLEN to a record; the sizes of the file and *)
(* numbers of records count records, which they are multiples of.  The     *)
(* file is what the stream presents: the system may refuse a write, which  *)
(* leaves the file and its position as they were, as do the other writes   *)
(* of the same loop; a seek, which leaves the stream where it was; or, when*)
(* the stream is flushed, the cells the stream still held.                 *)
(***************************************************************************)
EXTENDS Integers, Sequences, FiniteSets

CONSTANTS NIOBUF,       \* buffers, 40 in the code
          IOBUFLEN,     \* cells in a record, 2880 bytes in the code
          MINDIRECT,    \* size from which the file is reached directly
          MaxRecords,   \* bound on the records of the file
          Places,       \* where a call starts to read or write
          Lengths,      \* how many cells it reads or writes
          MaxCalls,     \* bound on the calls
          Faults        \* may the system refuse anything?

ASSUME BufferAssumption ==
    /\ NIOBUF \in Nat \ {0} /\ IOBUFLEN \in Nat \ {0} /\ MaxRecords \in Nat \ {0}
    /\ MINDIRECT \in Nat /\ MINDIRECT >= 3 * IOBUFLEN
    /\ Places \subseteq Nat /\ Lengths \subseteq Nat \ {0} /\ MaxCalls \in Nat /\ Faults \in BOOLEAN

VARIABLES disk,         \* the cells of the file
          sure,         \* cells of it that the system took with a flush
          ospos,        \* the position of the stream
          io_pos,       \* where the library believes it is
          filesize,     \* records on disk, so it believes
          logfilesize,  \* records including those only in buffers
          bytepos,      \* where the next cell is read or written
          curbuf,       \* the current buffer, -1 for none
          bufrecnum,    \* the record in each buffer, -1 for none
          dirty,        \* buffers changed since they were read or written
          iobuffer,     \* the cells of each buffer
          ageindex,     \* the buffers from oldest to youngest
          status,       \* the inherited status
          op, stage,    \* the call going on and where it is
          pos, todo,    \* where it goes on and the cells left
          got, answer,  \* what it has read; what it returned
          calls,        \* calls made; each writes its own number
          lost          \* something was refused

OnDisk == <<disk, ospos, io_pos, filesize>>
Cache == <<curbuf, bufrecnum, ageindex>>
Call == <<op, stage, pos, todo>>
vars == <<OnDisk, sure, logfilesize, bytepos, Cache, dirty, iobuffer, status, Call, got, answer, calls, lost>>

Buffers == 0..NIOBUF - 1
Offsets == 0..IOBUFLEN - 1
Cells == 0..MaxRecords * IOBUFLEN - 1
Old == MaxCalls + 1     \* what the file held before
Data == 0..Old
Fill == 0
Blank == [i \in Offsets |-> Fill]

Size == Cardinality(DOMAIN disk)
Record(p) == p \div IOBUFLEN
Start(r) == r * IOBUFLEN
Larger(a, b) == IF a > b THEN a ELSE b
Smaller(a, b) == IF a < b THEN a ELSE b

(* A new file, or one on disk that was opened, with its first record       *)
(* loaded.                                                                 *)
Init ==
    /\ filesize \in 0..2 /\ filesize <= MaxRecords
    /\ disk = [c \in 0..Start(filesize) - 1 |-> Old]
    /\ sure = Start(filesize)
    /\ logfilesize = Larger(filesize, 1)
    /\ io_pos = IF filesize = 0 THEN 0 ELSE IOBUFLEN
    /\ ospos = io_pos
    /\ bytepos = 0
    /\ curbuf = 0
    /\ bufrecnum = [b \in Buffers |-> IF b = 0 THEN 0 ELSE -1]
    /\ dirty = [b \in Buffers |-> b = 0 /\ filesize = 0]
    /\ iobuffer = [b \in Buffers |-> IF b = 0 /\ filesize > 0
                                     THEN [i \in Offsets |-> Old] ELSE Blank]
    /\ ageindex = [i \in Buffers |-> (i + 1) % NIOBUF]
    /\ status = "ok"
    /\ op = "idle" /\ stage = "done" /\ pos = 0 /\ todo = 0
    /\ got = <<>> /\ answer = <<>> /\ calls = 0 /\ lost = FALSE

-----------------------------------------------------------------------------
Cached(r) == \E b \in Buffers : bufrecnum[b] = r

(* The cell the routines above see at c: the buffer's, else the file's.    *)
CellAt(c) ==
    LET r == Record(c)
    IN IF Cached(r) THEN iobuffer[CHOOSE b \in Buffers : bufrecnum[b] = r][c - Start(r)]
       ELSE IF r < filesize /\ c \in DOMAIN disk THEN disk[c] ELSE Fill

(* How many of n records a loop of writes gets to the file.                *)
Accepted(n) == IF Faults THEN 0..n ELSE {n}

(* Mutant: the stream is only ever moved on.                               *)
SeekForward(p) == IF io_pos >= p THEN ospos ELSE p

(* ffseek is called only when io_pos is not the position wanted.           *)
SeekTo(p) == IF io_pos = p THEN ospos ELSE p

(* It may fail, and its result is not looked at.                           *)
Misses(p) == {missed \in BOOLEAN : missed => Faults /\ io_pos # p}
Sought(p, missed) == IF missed THEN ospos ELSE SeekTo(p)

(* fflush: the file is left with n cells, all or those before some that    *)
(* the stream held and the system refused.                                 *)
Taken == {Size} \cup (IF Faults THEN sure..Size - 1 ELSE {})
fflush(n) ==
    /\ disk' = [c \in 0..n - 1 |-> disk[c]]
    /\ ospos' = IF n = Size THEN ospos ELSE Smaller(ospos, n)
    /\ sure' = n
    /\ lost' = (lost \/ n < Size)

(* The cells of row, numbered from 0, go to the file at p.                 *)
Written(p, n, row) ==
    IF n = 0 THEN disk
    ELSE [c \in 0..Larger(Size, p + n) - 1 |->
              IF p <= c /\ c < p + n THEN row[c - p] ELSE IF c < Size THEN disk[c] ELSE Fill]

Nth(S, i) == CHOOSE r \in S : Cardinality({q \in S : q < r}) = i

Refused(n, all, missed) ==
    /\ status' = IF n < all THEN "WRITE_ERROR" ELSE status
    /\ lost' = (lost \/ missed \/ n < all)

(* ffbfwt: buffer b goes to the file.  When its record is past the end the *)
(* records between are appended first, from buffers or as fill; but no     *)
(* fill is written once the status is an error.                            *)
ffbfwt(b) ==
    LET hi == bufrecnum[b]
        lo == Smaller(hi, filesize)
        out == {r \in lo..hi : Cached(r) \/ status = "ok"}
    IN \E n \in Accepted(Cardinality(out)), missed \in Misses(Start(lo)) :
       LET at == Sought(Start(lo), missed)
       IN /\ disk' = Written(at, Start(n), [i \in 0..Start(n) - 1 |->
                         CellAt(Start(Nth(out, Record(i))) + (i % IOBUFLEN))])
          /\ ospos' = at + Start(n)
          /\ io_pos' = Start(hi + 1)
          /\ filesize' = Larger(filesize, hi + 1)
          /\ dirty' = [x \in Buffers |-> dirty[x] /\ bufrecnum[x] \notin lo..hi]
          /\ Refused(n, Cardinality(out), missed)

(* Mutant: a read that succeeds resets the status.                         *)
ffreadForgets(p, n) ==
    LET all == p + n <= Size
    IN /\ ospos' = IF all THEN p + n ELSE Larger(p, Size)
       /\ status' = IF all THEN "ok" ELSE "READ_ERROR"

(* n cells are read from p; a short read is an error.                      *)
ffread(p, n) ==
    LET all == p + n <= Size
    IN /\ ospos' = IF all THEN p + n ELSE Larger(p, Size)
       /\ status' = IF all THEN status ELSE "READ_ERROR"

OnFile(p, n) == [i \in 1..n |-> IF p + i - 1 < Size THEN disk[p + i - 1] ELSE Fill]

-----------------------------------------------------------------------------
(* A call begins when none is going on; it ends with op idle again.        *)
Begin(o, st, p, n) ==
    /\ op' = o /\ stage' = st /\ pos' = p /\ todo' = n
    /\ calls' = calls + 1
    /\ got' = <<>> /\ answer' = <<>>
    /\ UNCHANGED <<OnDisk, sure, logfilesize, Cache, dirty, iobuffer, status, lost>>

Ready(n) == IF n >= MINDIRECT THEN "fill" ELSE "copy"
AtRecord(r) == curbuf # -1 /\ bufrecnum[curbuf] = r
InPlace == curbuf # -1 /\ bufrecnum[curbuf] # -1 /\ bytepos - Start(bufrecnum[curbuf]) \in 0..IOBUFLEN

(* ffmbyt and ffpbyt: write n cells at p, or on from where the last call   *)
(* left.                                                                   *)
Put(p, n) ==
    /\ status = "ok"
    /\ \/ /\ AtRecord(Record(p))
          /\ Begin("put", Ready(n), p, n) /\ bytepos' = p
       \/ /\ ~AtRecord(Record(p))
          /\ Begin("put", "move", p, n) /\ UNCHANGED bytepos
       \/ /\ InPlace /\ bytepos = p
          /\ Begin("put", Ready(n), p, n) /\ UNCHANGED bytepos

(* ffmbyt and ffgbyt; the callers move the position themselves before a    *)
(* direct read.                                                            *)
Get(p, n) ==
    /\ status = "ok"
    /\ \/ /\ n >= MINDIRECT
          /\ Begin("get", "drop", p, n) /\ bytepos' = p
       \/ /\ n < MINDIRECT /\ AtRecord(Record(p))
          /\ Begin("get", "copy", p, n) /\ bytepos' = p
       \/ /\ n < MINDIRECT /\ ~AtRecord(Record(p))
          /\ Begin("get", "move", p, n) /\ UNCHANGED bytepos
       \/ /\ n < MINDIRECT /\ InPlace /\ bytepos = p
          /\ Begin("get", "copy", p, n) /\ UNCHANGED bytepos

(* ffflsh; ffclos flushes whatever the status; fftrun flushes, then cuts.  *)
Flush == status = "ok" /\ Begin("flush", "drop", 0, 0) /\ UNCHANGED bytepos
Close == Begin("close", "drop", 0, 0) /\ UNCHANGED bytepos
Truncate(r) ==
    /\ status = "ok" /\ r <= logfilesize
    /\ Begin("truncate", "drop", Start(r), 0) /\ UNCHANGED bytepos

(* A caller that expected the end of the file goes on.                     *)
Forgive ==
    /\ op = "idle" /\ status = "END_OF_FILE"
    /\ status' = "ok"
    /\ UNCHANGED <<OnDisk, sure, logfilesize, bytepos, Cache, dirty, iobuffer, Call, got, answer, calls,
                   lost>>

Done == op' = "idle" /\ stage' = "done"

-----------------------------------------------------------------------------
(* ffldrc loads the record of pos.  Its buffer becomes the current and the *)
(* youngest one; then the call moves on.                                   *)
Touch(i) ==
    /\ curbuf' = ageindex[i]
    /\ ageindex' = [j \in Buffers |-> IF j < i THEN ageindex[j]
                                      ELSE IF j < NIOBUF - 1 THEN ageindex[j + 1] ELSE ageindex[i]]
    /\ \/ /\ stage = "move" /\ status' = "ok"
          /\ stage' = IF op = "put" THEN Ready(todo) ELSE "copy"
          /\ bytepos' = pos
          /\ UNCHANGED op
       \/ /\ stage = "move" /\ status' # "ok"
          /\ Done
          /\ UNCHANGED bytepos
       \/ /\ stage = "load"
          /\ stage' = "copy"
          /\ UNCHANGED <<op, bytepos>>

Loading == stage \in {"move", "load"}
Wanted == Record(pos)
Victim == ageindex[0]
PastEndOnDisk == op = "get" /\ Wanted >= filesize \* mutant: records in buffers forgotten
PastEnd == op = "get" /\ Wanted >= logfilesize

Hit ==
    /\ Loading /\ UNCHANGED status
    /\ \E i \in Buffers :
          /\ bufrecnum[ageindex[i]] = Wanted
          /\ \A j \in Buffers : j > i => bufrecnum[ageindex[j]] # Wanted
          /\ Touch(i)
    /\ UNCHANGED <<OnDisk, sure, logfilesize, bufrecnum, dirty, iobuffer, pos, todo, got,
                   answer, calls, lost>>

(* A read past the end fails; one that began earlier skips what is left.   *)
EndOfFile ==
    /\ Loading /\ ~Cached(Wanted) /\ PastEnd
    /\ status' = "END_OF_FILE"
    /\ bytepos' = IF stage = "load" THEN pos + todo ELSE bytepos
    /\ Done
    /\ UNCHANGED <<OnDisk, sure, logfilesize, Cache, dirty, iobuffer, pos, todo, got, answer, calls, lost>>

(* The oldest buffer makes room, after it is written when it is dirty.     *)
Evict ==
    /\ Loading /\ ~Cached(Wanted) /\ ~PastEnd /\ dirty[Victim]
    /\ ffbfwt(Victim)
    /\ UNCHANGED <<sure, logfilesize, bytepos, Cache, iobuffer, Call, got, answer, calls>>

Extend ==
    /\ Loading /\ ~Cached(Wanted) /\ ~PastEnd /\ ~dirty[Victim]
    /\ Wanted >= filesize /\ UNCHANGED status
    /\ iobuffer' = [iobuffer EXCEPT ![Victim] = Blank]
    /\ dirty' = [dirty EXCEPT ![Victim] = TRUE]
    /\ bufrecnum' = [bufrecnum EXCEPT ![Victim] = Wanted]
    /\ logfilesize' = Larger(logfilesize, Wanted + 1)
    /\ Touch(0)
    /\ UNCHANGED <<OnDisk, sure, pos, todo, got, answer, calls, lost>>

Load ==
    /\ Loading /\ ~Cached(Wanted) /\ ~PastEnd /\ ~dirty[Victim]
    /\ Wanted < filesize
    /\ \E missed \in Misses(Start(Wanted)) :
       LET at == Sought(Start(Wanted), missed)
       IN /\ iobuffer' = [iobuffer EXCEPT ![Victim] =
                             [i \in Offsets |-> OnFile(at, IOBUFLEN)[i + 1]]]
          /\ ffread(at, IOBUFLEN)
          /\ lost' = (lost \/ missed)
    /\ io_pos' = Start(Wanted + 1)
    /\ bufrecnum' = [bufrecnum EXCEPT ![Victim] = Wanted]
    /\ Touch(0)
    /\ UNCHANGED <<disk, sure, filesize, logfilesize, dirty, pos, todo, got, answer, calls>>

-----------------------------------------------------------------------------
(* Copies between the caller and the current buffer, up to its end.        *)
Offset == pos - Start(bufrecnum[curbuf])
PieceWhole == IOBUFLEN - Offset \* mutant: to the end of the buffer, wanted or not
Piece == Smaller(todo, IOBUFLEN - Offset)

Advance(n) ==
    /\ pos' = pos + n /\ bytepos' = pos + n /\ todo' = todo - n
    /\ IF todo = n THEN Done ELSE stage' = "load" /\ UNCHANGED op

Fillin(n) ==
    /\ iobuffer' = [iobuffer EXCEPT ![curbuf] =
                       [i \in Offsets |-> IF Offset <= i /\ i < Offset + n THEN calls ELSE @[i]]]
    /\ dirty' = [dirty EXCEPT ![curbuf] = TRUE]

CopyIn ==
    /\ op = "put" /\ stage = "copy"
    /\ Fillin(Piece)
    /\ Advance(Piece)
    /\ UNCHANGED <<OnDisk, sure, logfilesize, Cache, status, got, answer, calls, lost>>

CopyOut ==
    /\ op = "get" /\ stage = "copy"
    /\ got' = got \o [i \in 1..Piece |-> iobuffer[curbuf][Offset + i - 1]]
    /\ answer' = IF todo = Piece /\ status = "ok" THEN got' ELSE <<>>
    /\ Advance(Piece)
    /\ UNCHANGED <<OnDisk, sure, logfilesize, Cache, dirty, iobuffer, status, calls, lost>>

(* A direct write fills the current buffer up first.                       *)
FillUp ==
    /\ stage = "fill"
    /\ LET n == IOBUFLEN - Offset
       IN /\ IF n = 0 THEN UNCHANGED <<iobuffer, dirty>> ELSE Fillin(n)
          /\ pos' = pos + n /\ todo' = todo - n
    /\ stage' = "drop"
    /\ UNCHANGED <<OnDisk, sure, logfilesize, bytepos, Cache, status, op, got, answer, calls, lost>>

(* Mutant: buffers that were not changed keep their record.                *)
ReachedDirty ==
    LET from == Record(pos) - (IF op = "put" THEN 1 ELSE 0)
    IN {b \in Buffers : bufrecnum[b] \in from..Record(pos + todo - 1) /\ dirty[b]}

(* The buffers of the records a direct call is about to reach: a write     *)
(* writes and drops them, a read writes the dirty ones.                    *)
Reached ==
    LET from == Record(pos) - (IF op = "put" THEN 1 ELSE 0)
    IN {b \in Buffers : bufrecnum[b] \in from..Record(pos + todo - 1)
                        /\ (op = "put" \/ dirty[b])}

(* Mutant: the loop over the buffers ends one early.                       *)
UnwrittenButLast == {b \in Buffers : b # NIOBUF - 1 /\ bufrecnum[b] >= 0 /\ dirty[b]}

(* The buffers that ffflsh writes.                                         *)
Unwritten == {b \in Buffers : bufrecnum[b] >= 0 /\ dirty[b]}

(* Mutant: a direct read does not have the buffers written first.          *)
PendingOfPut == IF op = "put" THEN Reached ELSE IF op = "get" THEN {} ELSE Unwritten

Pending == IF op \in {"put", "get"} THEN Reached ELSE Unwritten
IsFirst(b, S) == b \in S /\ \A c \in S : b <= c

WriteBack ==
    /\ stage = "drop"
    /\ \E b \in Buffers :
          /\ IsFirst(b, Pending)
          /\ IF dirty[b] THEN ffbfwt(b) ELSE UNCHANGED <<OnDisk, dirty, status, lost>>
          /\ bufrecnum' = [c \in Buffers |->
                 IF (op = "put" /\ c = b) \/ (op = "close" /\ c <= b) THEN -1 ELSE bufrecnum[c]]
    /\ UNCHANGED <<sure, logfilesize, bytepos, curbuf, ageindex, iobuffer, Call, got, answer, calls>>

-----------------------------------------------------------------------------
(* Whole records go straight to the file, what is left over to the current *)
(* buffer, over what the file holds there.                                 *)
WriteDirect ==
    /\ op = "put" /\ stage = "drop" /\ Pending = {}
    /\ LET whole == (todo - 1) \div IOBUFLEN
           end == pos + Start(whole)
           atEnd == end >= Start(filesize)
       IN \E n \in Accepted(whole), missed \in Misses(pos) :
          LET at == Sought(pos, missed)
              next == at + Start(n)
              short == ~atEnd /\ next + IOBUFLEN > Size
              under == IF atEnd THEN Blank ELSE [i \in Offsets |-> OnFile(next, IOBUFLEN)[i + 1]]
          IN /\ disk' = Written(at, Start(n), [i \in 0..Start(n) - 1 |-> calls])
             /\ ospos' = IF atEnd THEN next ELSE IF short THEN Larger(next, Size) ELSE next + IOBUFLEN
             /\ io_pos' = IF atEnd THEN end ELSE end + IOBUFLEN
             /\ filesize' = IF atEnd THEN Record(end) ELSE filesize
             /\ status' = IF short THEN "READ_ERROR" ELSE IF n < whole THEN "WRITE_ERROR" ELSE status
             /\ lost' = (lost \/ missed \/ n < whole)
             /\ iobuffer' = [iobuffer EXCEPT ![curbuf] =
                    [i \in Offsets |-> IF i < todo - Start(whole) THEN calls ELSE under[i]]]
    /\ dirty' = [dirty EXCEPT ![curbuf] = TRUE]
    /\ bufrecnum' = [bufrecnum EXCEPT ![curbuf] = Record(pos + todo - 1)]
    /\ logfilesize' = Larger(logfilesize, Record(pos + todo - 1) + 1)
    /\ bytepos' = pos + todo /\ pos' = pos + todo /\ todo' = 0
    /\ Done
    /\ UNCHANGED <<sure, curbuf, ageindex, got, answer, calls>>

ReadDirect ==
    /\ op = "get" /\ stage = "drop" /\ Pending = {}
    /\ \E missed \in Misses(pos) :
       LET at == Sought(pos, missed)
       IN /\ ffread(at, todo)
          /\ lost' = (lost \/ missed)
          /\ got' = OnFile(at, todo)
          /\ answer' = IF status' = "ok" THEN got' ELSE answer
    /\ io_pos' = pos + todo
    /\ Done
    /\ UNCHANGED <<disk, sure, filesize, logfilesize, bytepos, Cache, dirty, iobuffer, pos, todo, calls>>

Flushed == op = "flush" /\ stage = "drop" /\ Pending = {}

(* ffflsh flushes the stream last, and does not look at the result.        *)
EndFlush ==
    /\ Flushed
    /\ \E n \in Taken : fflush(n)
    /\ Done
    /\ UNCHANGED <<io_pos, filesize, logfilesize, bytepos, Cache, dirty, iobuffer, status, pos, todo,
                   got, answer, calls>>

(* Then the stream is closed, which may fail too.                          *)
EndClose ==
    /\ op = "close" /\ stage = "drop" /\ Pending = {}
    /\ \E n \in Taken : fflush(n)
    /\ \/ UNCHANGED status
       \/ Faults /\ status' = IF status = "ok" THEN "FILE_NOT_CLOSED" ELSE status
    /\ bufrecnum' = [b \in Buffers |-> -1]
    /\ op' = "closed" /\ stage' = "done"
    /\ UNCHANGED <<io_pos, filesize, logfilesize, bytepos, curbuf, ageindex, dirty, iobuffer,
                   pos, todo, got, answer, calls>>

(* fftrun sets the sizes, drops the buffers past the new end (ffbfeof) and *)
(* returns what the driver's truncate returns, 0, whatever the flush did.  *)
EndTruncate ==
    /\ op = "truncate" /\ stage = "drop" /\ Pending = {}
    /\ filesize' = Record(pos) /\ logfilesize' = Record(pos)
    /\ io_pos' = pos /\ bytepos' = pos /\ ospos' = pos
    /\ bufrecnum' = [b \in Buffers |-> IF bufrecnum[b] >= Record(pos) THEN -1 ELSE bufrecnum[b]]
    /\ \E n \in Taken :
          /\ disk' = [c \in 0..pos - 1 |-> IF c < n THEN disk[c] ELSE Fill]
          /\ lost' = (lost \/ n < Size)
    /\ sure' = pos
    /\ status' = "ok"
    /\ Done
    /\ UNCHANGED <<curbuf, ageindex, dirty, iobuffer, pos, todo, got, answer, calls>>

Step ==
    \/ Hit \/ EndOfFile \/ Evict \/ Extend \/ Load
    \/ CopyIn \/ CopyOut \/ FillUp
    \/ WriteBack \/ WriteDirect \/ ReadDirect
    \/ EndFlush \/ EndClose \/ EndTruncate

Next ==
    \/ /\ op = "idle" /\ calls < MaxCalls
       /\ \/ \E p \in Places, n \in Lengths :
                p + n - 1 \in Cells /\ (Put(p, n) \/ Get(p, n))
          \/ Flush \/ Close
          \/ \E r \in 0..MaxRecords : Truncate(r)
    \/ Forgive
    \/ Step

(* A call that began runs to its end.                                      *)
Spec == Init /\ [][Next]_vars /\ WF_vars(Step)

-----------------------------------------------------------------------------
Records == 0..MaxRecords - 1

(* Every variable is of its type.                                          *)
TypeOK ==
    /\ disk \in [0..Size - 1 -> Data] /\ sure \in Nat
    /\ ospos \in Nat /\ io_pos \in Nat /\ bytepos \in Nat /\ pos \in Nat /\ todo \in Nat
    /\ filesize \in 0..MaxRecords /\ logfilesize \in 0..MaxRecords
    /\ curbuf \in Buffers
    /\ bufrecnum \in [Buffers -> Records \cup {-1}]
    /\ dirty \in [Buffers -> BOOLEAN]
    /\ iobuffer \in [Buffers -> [Offsets -> Data]]
    /\ ageindex \in [Buffers -> Buffers]
    /\ status \in {"ok", "END_OF_FILE", "READ_ERROR", "WRITE_ERROR", "FILE_NOT_CLOSED"}
    /\ op \in {"idle", "put", "get", "flush", "close", "truncate", "closed"}
    /\ stage \in {"done", "move", "load", "copy", "fill", "drop"}
    /\ got \in Seq(Data) /\ answer \in Seq(Data)
    /\ calls \in 0..MaxCalls /\ lost \in BOOLEAN

(* No record is in two buffers, every buffer is in the order of ages, and  *)
(* a buffer past the end of the file is always due to be written: else a   *)
(* record would have two contents, a buffer would never be reused, or a    *)
(* record would vanish when its buffer is.                                 *)
RecordsOnce ==
    /\ \A b, c \in Buffers : bufrecnum[b] = bufrecnum[c] /\ bufrecnum[b] # -1 => b = c
    /\ \A i, j \in Buffers : ageindex[i] = ageindex[j] => i = j
    /\ \A b \in Buffers : bufrecnum[b] # -1 /\ bufrecnum[b] >= filesize => dirty[b]

(* As long as nothing failed the stream is where the library believes it   *)
(* is, so the seeks it leaves out are not needed, and the file is as long  *)
(* as it believes.                                                         *)
PositionKnown == ~lost /\ status = "ok" => ospos = io_pos /\ Size = Start(filesize)

(* "Fptr->io_pos = Fptr->filesize;  currently positioned at EOF", ffbfwt    *)
(* says after it has appended what was missing (buffers.c:734), with no    *)
(* regard to the status.                                                   *)
PositionedAtEOF == ~lost /\ status # "READ_ERROR" => ospos = io_pos

(* The buffers implement a plain file: a write changes the cells it was    *)
(* told to and no others, a read returns those it was asked for, and       *)
(* evicting, loading, flushing and direct writing change nothing that the  *)
(* routines above can see.  Nothing is promised of a file that is closed   *)
(* after an error.                                                         *)
ClosedInError == op \in {"close", "closed"} /\ status # "ok"
Request ==
    IF op = "put" THEN [op |-> "write", at |-> pos, to |-> pos + todo, value |-> calls]
    ELSE IF op = "get"
         THEN [op |-> "read", at |-> pos - Len(got), to |-> pos + todo, value |-> Fill]
    ELSE IF op = "truncate" THEN [op |-> "cut", at |-> pos, to |-> pos, value |-> Fill]
    ELSE [op |-> "none", at |-> 0, to |-> 0, value |-> Fill]
BF == INSTANCE ByteFile WITH content <- [c \in Cells |-> CellAt(c)],
                             call <- Request,
                             failed <- lost \/ ClosedInError
ImplementsByteFile == BF!Spec

(* After a flush or a close without an error the system has all that was   *)
(* written, unless it refused something.                                   *)
OnDiskIs(c) == IF c \in DOMAIN disk THEN disk[c] ELSE Fill
AllOnDisk ==
    /\ Size' = Start(logfilesize) /\ sure' = Size'
    /\ \A c \in Cells : OnDiskIs(c)' = CellAt(c)

Stored == (EndFlush \/ EndClose) /\ status' = "ok" /\ ~lost' => AllOnDisk
FlushStores == [][Stored]_vars

(* "Flush all the data in the current FITS file to disk", ffflus says of   *)
(* itself, which ends with ffflsh (buffers.c:567): then a flush that       *)
(* returns without an error, in a session without one, has done it.        *)
FlushTells == [][EndFlush /\ status' = "ok" /\ ~lost => AllOnDisk]_vars

(* An error stays for the caller to see, whatever the call still does: but *)
(* a truncation returns what the driver's returns, and a read that meets   *)
(* the end of the file later returns that.                                 *)
Failed == status \in {"READ_ERROR", "WRITE_ERROR"}
ErrorIsKept ==
    [][Failed /\ op # "truncate" => Failed' \/ status' = "END_OF_FILE"]_vars

(* A small read that does not reach past the end of the file succeeds,     *)
(* unless something was refused before.                                    *)
Within == op = "get" /\ stage # "drop" /\ ~lost' /\ pos + todo <= Start(logfilesize)
ReadsSucceed == [][Within => UNCHANGED status]_vars
=============================================================================
