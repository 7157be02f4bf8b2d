------------------------------ MODULE Prf2Fits ------------------------------
(***************************************************************************)
(* The converter: main of Source/third.cpp and class FITS of               *)
(* Source/pfits.hpp, from the opening of the PROF file to fits_close_file. *)
(*                                                                         *)
(* The program is sequential.  What makes it hard is that nothing in it    *)
(* looks at a result: fscanf's is dropped (PROFIO), every fits_* call runs *)
(* after the failure of an earlier one and does nothing then (CFITSIO's    *)
(* inherited status), and the status is only looked at by                  *)
(* ReportAndExitOnError at a few places.  So every fits_* call that has an *)
(* effect is a step that succeeds, fails (status becomes non-zero) or is   *)
(* skipped because status is already non-zero.                             *)
(*                                                                         *)
(* The operator may run the program again, with other arguments, and may   *)
(* delete the output; disk is all that survives a run.                     *)
(***************************************************************************)
EXTENDS PROFIO, ProfFile, FiniteSets

CONSTANTS
  Inputs,    \* what a run may be started on, see InputsAssumption
  Garbage,   \* the contents of an uninitialised struct fromHeader
  Capacity,  \* the rows of SUBINT that fit on the disk
  Faults,    \* TRUE iff fits_* calls may fail for reasons of their own
  MaxRuns,   \* bound: how often the program is started
  ShortMax,  \* the largest number a 1I column holds, 2^15 - 1 in FITS
  Blank      \* a table cell or keyword that was never written

(***************************************************************************)
(* An input is a record of                                                 *)
(*   prof      the tokens of the PROF file (-i)                            *)
(*   exists    whether that file can be opened                             *)
(*   numchans  NUMCHANS of the scan cfg file                               *)
(*   npol      NPOL of the scan cfg file                                   *)
(*   badcfg    the stage of main that is the first to convert a cfg value  *)
(*             that is no number (stoi, stod and stof then throw, nothing    *)
(*             catches), or "none"                                           *)
(*   par       the ephemeris file (-a): whether it was given, whether it   *)
(*             can be opened, and its number of lines                      *)
(* and, for the properties only, subints, the sub-integrations the         *)
(* observer meant the PROF file to contain (see ProfFile).                 *)
(***************************************************************************)
ParFile == [given : BOOLEAN, opens : BOOLEAN, lines : Nat]

CfgStages == {"open", "sanity", "primary", "history", "table"}

ASSUME InputsAssumption ==
  \A i \in Inputs :
    /\ i.prof \in Seq(Token)
    /\ i.exists \in BOOLEAN
    /\ i.numchans \in Int
    /\ i.npol \in Int
    /\ i.badcfg \in CfgStages \cup {"none"}
    /\ i.par \in ParFile
    /\ i.subints \in Seq([hdr : [FieldNames -> Int], cube : Seq(Seq(Int))])
    /\ \A s \in DOMAIN i.subints : \A ch \in DOMAIN i.subints[s].cube :
         DOMAIN i.subints[s].cube[ch] = 1 .. i.subints[s].hdr.numbins

ASSUME GarbageAssumption == Garbage \subseteq [FieldNames -> Int]

ASSUME CapacityAssumption == Capacity \in Nat

ASSUME FaultsAssumption == Faults \in BOOLEAN

ASSUME MaxRunsAssumption == MaxRuns \in Nat

ASSUME ShortMaxAssumption == ShortMax \in Nat \ {0}

ASSUME BlankAssumption == Blank \notin Int

VARIABLES
  input,      \* what this run was started on
  pc,         \* what main does next
  runs,       \* how often the program was started
  exit,       \* "idle", "running" or how the run ended: "ok", "error", "abort"
  warned,     \* the messages of the constructor and sanityCheck
  status,     \* FITS::status, 0 or a CFITSIO error code
  disk,       \* the output file: "absent", "partial" or "complete"
  hdus,       \* the HDUs of the output with their header-derived keywords
  parRows,    \* the rows of PSRPARAM
  width,      \* the repeat counts of the columns of SUBINT
  cells,      \* the rows of SUBINT: what each column of each row holds
  data,       \* the DATA column of SUBINT, all rows end to end
  subint_cnt, \* PutSubint's row counter
  runpulses,  \* the running pulse count of the previous sub-integration
  off_sub,    \* the offset of the current sub-integration
  dval,       \* FITS::dval, TSUBINT while off_sub is written
  col         \* PutSubint's column counter

tableVars == <<width, cells, data>>

outputVars == <<hdus, parRows, tableVars>>

subintVars == <<subint_cnt, runpulses, off_sub, dval, col>>

runVars == <<input, runs>>

vars == <<runVars, pc, exit, warned, status, disk, outputVars, subintVars,
          profVars>>

-----------------------------------------------------------------------------
(* CFITSIO as the program sees it *)

FILE_NOT_CREATED == 105
WRITE_ERROR      == 106
FILE_NOT_CLOSED  == 110
BAD_TFORM        == 261
BAD_TDIM         == 263
BAD_ELEM_NUM     == 308
BAD_F2C          == 402
NUM_OVERFLOW     == 412

StatusCodes == {0, FILE_NOT_CREATED, WRITE_ERROR, FILE_NOT_CLOSED,
                BAD_TFORM, BAD_TDIM, BAD_ELEM_NUM, BAD_F2C, NUM_OVERFLOW}

\* Broken form of MayFail: a call that forgets the status it was given.
MayFailFresh(codes) == status' \in IF Faults THEN {0} \cup codes ELSE {0}

\* The status after a call that the environment alone can make fail.
MayFail(codes) ==
  status' \in IF status # 0 THEN {status}
              ELSE IF Faults THEN {0} \cup codes ELSE {0}

\* Broken form of Keywords: bins and channels swapped.
KeywordsSwapped(name, npol, nbin, nchan, freq) ==
  [name |-> name, npol |-> npol, nbin |-> nchan, nchan |-> nbin, freq |-> freq]

\* The header-derived keywords of a HDU; Blank where it has no such keyword.
Keywords(name, npol, nbin, nchan, freq) ==
  [name |-> name, npol |-> npol, nbin |-> nbin, nchan |-> nchan, freq |-> freq]

\* What a 1I column takes from an int that is passed as TSHORT: its low half,
\* on the little-endian machines the program is built for.
Short(n) == Narrow(n, ShortMax)

\* A count that a 1I column holds.
IsShort(n) == n \in -ShortMax - 1 .. ShortMax

HduNames == {"PRIMARY", "HISTORY", "PSRPARAM", "SUBINT"}

Hdu == [name : HduNames, npol : Int \cup {Blank}, nbin : Int \cup {Blank},
        nchan : Int \cup {Blank}, freq : Int \cup {Blank}]

Columns == 1 .. 21

BlankRow == [k \in Columns |-> Blank]

Zero == [k |-> "zero", v |-> 0]

-----------------------------------------------------------------------------
(* The sizes PutSubint recomputes from the reader for every row, as ints *)

nscl == AsInt(numchans * fh.pol)

ndata == AsInt(fh.numbins * nscl)

\* The largest long, which has twice the bits of an int.
LongMax == 2 * (IntMax + 1) * (IntMax + 1) - 1

IsLong(n) == n \in -LongMax - 1 .. LongMax

\* The elements PutSubint writes to a column of one row.
Elements(k) ==
  CASE k \in {15, 16} -> numchans
    [] k \in {17, 18} -> nscl
    [] k = 19         -> ndata
    [] OTHER          -> 1

\* The last row a write to column k reaches: ffgcprll lets a vector that is
\* longer than the column's repeat count run over into the rows below.
EndRow(k) ==
  IF Elements(k) > 0
    THEN subint_cnt + ((Elements(k) - 1) \div width[k])
    ELSE 0

\* The table with at least n rows; new rows are blank.
Extended(n) ==
  [r \in 1 .. (IF n > Len(cells) THEN n ELSE Len(cells)) |->
     IF r <= Len(cells) THEN cells[r] ELSE BlankRow]

\* DATA with at least n rows, new ones zero, and with elems stored from the
\* start of row r on.
DataAfter(n, r, elems) ==
  LET w == width[19]
      rows == IF n > Len(cells) THEN n ELSE Len(cells)
      first == (r - 1) * w
  IN  [i \in 1 .. rows * w |->
         IF i - first \in 1 .. Len(elems) THEN elems[i - first]
         ELSE IF i <= Len(data) THEN data[i] ELSE Zero]

\* What PutSubint writes to column k.  Of a vector column only what its
\* elements have in common is kept; DATA's elements are in data.
Value(k) ==
  CASE k = 1          -> subint_cnt
    [] k = 3          -> (fh.numpulses - runpulses) * fh.period
    [] k = 4          -> off_sub
    [] k \in 10 .. 14 -> 360
    [] k = 15         -> fh.freq
    [] k \in {16, 18} -> 1
    [] k = 19         -> ndata
    [] k = 20         -> fh.period
    [] k = 21         -> fh.pol
    [] OTHER          -> 0

-----------------------------------------------------------------------------
(* A run starts *)

Init ==
  /\ input \in Inputs
  /\ runs = 0
  /\ pc = "open"
  /\ exit = "idle"
  /\ warned = {}
  /\ status = 0
  /\ disk = "absent"
  /\ hdus = <<>>
  /\ parRows = 0
  /\ width = [k \in Columns |-> 0]
  /\ cells = <<>>
  /\ data = <<>>
  /\ subint_cnt = 1
  /\ runpulses = 0
  /\ off_sub = 0
  /\ dval = 0
  /\ col = 1
  /\ file = <<>>
  /\ feof = FALSE
  /\ fh \in Garbage
  /\ numbins = 0
  /\ numchans = 0
  /\ call = "none"
  /\ fld = 1
  /\ subway = <<>>
  /\ b = 0
  /\ c = -1

\* The operator starts the program, the first time or again, on the same or on
\* another input (Init has chosen the first).  What an earlier run left on the
\* disk is still there.
Launch ==
  /\ exit # "running"
  /\ runs < MaxRuns
  /\ runs' = runs + 1
  /\ input' \in IF runs = 0 THEN {input} ELSE Inputs
  /\ pc' = "open"
  /\ exit' = "running"
  /\ warned' = {}
  /\ status' = 0
  /\ subint_cnt' = 1
  /\ runpulses' = 0
  /\ off_sub' = 0
  /\ dval' = 0
  /\ col' = 1
  /\ file' = <<>>
  /\ feof' = FALSE
  /\ fh' \in IF runs = 0 THEN {fh} ELSE Garbage
  /\ numbins' = 0
  /\ numchans' = 0
  /\ call' = "none"
  /\ fld' = 1
  /\ subway' = <<>>
  /\ b' = 0
  /\ c' = -1
  /\ UNCHANGED <<disk, outputVars>>

\* The operator deletes the output.
RemoveOutput ==
  /\ exit # "running"
  /\ disk # "absent"
  /\ disk' = "absent"
  /\ hdus' = <<>>
  /\ parRows' = 0
  /\ width' = [k \in Columns |-> 0]
  /\ cells' = <<>>
  /\ data' = <<>>
  /\ UNCHANGED <<runVars, pc, exit, warned, status, subintVars, profVars>>

-----------------------------------------------------------------------------
(* main is at label l and no operation of the reader is in progress *)

At(l) == exit = "running" /\ call = "none" /\ pc = l

\* ReportAndExitOnError for the status a step leaves; main goes on to l.
ReportAndExitOnError(l) ==
  /\ exit' = IF status' # 0 THEN "error" ELSE exit
  /\ pc' = IF status' # 0 THEN pc ELSE l

\* Control goes on to l, unless the stage converts a bad cfg value.
GoOn(l) ==
  /\ exit' = IF input.badcfg = pc THEN "abort" ELSE exit
  /\ pc' = IF input.badcfg = pc THEN pc ELSE l

-----------------------------------------------------------------------------
(* The constructor, sanityCheck, createFITS, the primary header, HISTORY   *)
(* and PSRPARAM                                                            *)

\* FITS(...): open the PROF file and call readHeader.  Without a file
\* readHeader calls feof(NULL); a NUMCHANS that is no number throws.
OpenProf ==
  /\ At("open")
  /\ IF input.badcfg = "open" \/ ~input.exists
       THEN /\ exit' = "abort"
            /\ UNCHANGED <<pc, warned, profVars>>
       ELSE /\ file' = input.prof
            /\ numchans' = input.numchans
            /\ IF feof THEN UNCHANGED <<call, fld>>
                       ELSE call' = "header" /\ fld' = 1
            /\ warned' = IF feof THEN {"HEADER"} ELSE {}
            /\ pc' = "sanity"
            /\ UNCHANGED <<exit, feof, fh, numbins, subway, b, c>>
  /\ UNCHANGED <<runVars, status, disk, outputVars, subintVars>>

\* sanityCheck only prints; "DM" and "OBSFREQ" follow the pattern of "NPOL".
SanityCheck ==
  /\ At("sanity")
  /\ warned' = warned
       \cup {w \in {"NUMCHANS"} : input.numchans # numchans}
       \cup {w \in {"NPOL"} : input.npol # fh.pol}
  /\ GoOn("create")
  /\ UNCHANGED <<runVars, status, disk, outputVars, subintVars, profVars>>

\* Broken form of NameTaken: fits_create_file with a "!" overwrites.
NameTakenClobber == FALSE

\* fits_create_file does not overwrite.
NameTaken == disk # "absent"

\* createFITS.  main ignores its result and goes on.
CreateFITS ==
  /\ At("create")
  /\ IF NameTaken
       THEN /\ status' = FILE_NOT_CREATED
            /\ UNCHANGED <<disk, hdus>>
       ELSE /\ MayFail({FILE_NOT_CREATED, WRITE_ERROR})
            /\ disk' = IF status' = FILE_NOT_CREATED THEN disk ELSE "partial"
            /\ hdus' = IF status' = 0
                         THEN << Keywords("PRIMARY", Blank, Blank, Blank, Blank) >>
                         ELSE hdus
  /\ pc' = "primary"
  /\ UNCHANGED <<runVars, exit, warned, parRows, tableVars, subintVars, profVars>>

\* primaryHeader.  What a failure in the middle of a stage leaves of it is
\* not recorded.
PrimaryHeader ==
  /\ At("primary")
  /\ MayFail({WRITE_ERROR})
  /\ hdus' = IF status' = 0 /\ input.badcfg # "primary"
               THEN << Keywords("PRIMARY", fh.pol, Blank, numchans, fh.freq) >>
               ELSE hdus
  /\ GoOn("history")
  /\ UNCHANGED <<runVars, warned, disk, parRows, tableVars, subintVars, profVars>>

\* PutHistoryTable: a table of one row.  The three counts are ints and go to
\* columns of shorts.  OBSBW is converted for column 10.
PutHistoryTable ==
  /\ At("history")
  /\ MayFail({WRITE_ERROR})
  /\ hdus' =
       IF status' = 0
         THEN Append(hdus, Keywords("HISTORY", Short(fh.pol), Short(fh.numbins),
                                    Short(numchans), fh.freq))
         ELSE hdus
  /\ GoOn(IF input.par.given THEN "par" ELSE "table")
  /\ UNCHANGED <<runVars, warned, disk, parRows, tableVars, subintVars, profVars>>

\* PutPar: a table with a row for every line; none when the ephemeris file
\* does not open.
PutPar ==
  /\ At("par")
  /\ MayFail({WRITE_ERROR})
  /\ hdus' =
       IF status' = 0
         THEN Append(hdus, Keywords("PSRPARAM", Blank, Blank, Blank, Blank))
         ELSE hdus
  /\ parRows' =
       IF status' = 0
         THEN IF input.par.opens THEN input.par.lines ELSE 0
         ELSE parRows
  /\ ReportAndExitOnError("table")
  /\ UNCHANGED <<runVars, warned, disk, tableVars, subintVars, profVars>>

-----------------------------------------------------------------------------
(* PutSubint *)

\* Broken form of TableStatus: the counts are not looked at.
TableStatusUnchecked == status

\* The status of fits_create_tbl and fits_write_tdim: a repeat count or an
\* axis of the DATA cube must not be negative, and the axes, multiplied as
\* longs, must give the repeat count.
TableStatus ==
  IF status # 0 THEN status
  ELSE IF numchans < 0 \/ nscl < 0 \/ ndata < 0 THEN BAD_TFORM
  ELSE IF \/ fh.numbins < 0 \/ fh.pol < 0
          \/ Narrow(fh.numbins * numchans * fh.pol, LongMax) # ndata THEN BAD_TDIM
  ELSE 0

\* What the keywords of the table leave: TBIN and CHAN_BW, a division by the
\* bins and one by the channels, are no keyword values when that is by zero.
KeywordStatus == IF fh.numbins = 0 \/ numchans = 0 THEN BAD_F2C ELSE 0

\* The table is created, without rows, and gets its keywords; a bad cfg value
\* is converted once the table is there.
CreateSubint ==
  /\ At("table")
  /\ status' \in IF TableStatus # 0 THEN {TableStatus}
                 ELSE {KeywordStatus} \cup (IF Faults THEN {WRITE_ERROR} ELSE {})
  /\ IF status' = 0
       THEN /\ width' = [k \in Columns |-> Elements(k)]
            /\ hdus' = Append(hdus, Keywords("SUBINT", fh.pol, fh.numbins,
                                            numchans, Blank))
            /\ exit' = IF input.badcfg = "table" THEN "abort" ELSE exit
            /\ pc' = IF input.badcfg = "table" THEN pc ELSE "loop"
       ELSE /\ exit' \in IF input.badcfg # "table" \/ TableStatus # 0 THEN {"error"}
                        ELSE IF status' = BAD_F2C THEN {"abort"}
                        ELSE {"error", "abort"}
            /\ UNCHANGED <<width, hdus, pc>>
  /\ UNCHANGED <<runVars, warned, disk, parRows, cells, data, subintVars, profVars>>

\* while(MoreThere()): allocate for the header last read, and read a
\* sub-integration.  A negative count makes operator new[] throw.
BeginSubint ==
  /\ At("loop")
  /\ ~feof
  /\ IF numchans < 0 \/ nscl < 0 \/ ndata < 0
       THEN /\ exit' = "abort"
            /\ UNCHANGED <<pc, col, profVars>>
       ELSE /\ CallReadSubs(ndata)
            /\ pc' = "cols"
            /\ col' = 1
            /\ UNCHANGED exit
  /\ UNCHANGED <<runVars, warned, status, disk, outputVars, subint_cnt,
                 runpulses, off_sub, dval>>

\* A sample lands outside of subs, and the heap does not survive it.
HeapOverrun ==
  /\ exit = "running"
  /\ call = "subs"
  /\ b < numbins
  /\ c \in 0 .. numchans - 1
  /\ Fits("f")
  /\ Slot \notin 1 .. Len(subway)
  /\ exit' = "abort"
  /\ UNCHANGED <<runVars, pc, warned, status, disk, outputVars, subintVars,
                 profVars>>

\* The status fits_write_col leaves for the current column; NPOL (column 21) is
\* an int that goes to a column of shorts.
ColumnStatus ==
  IF status # 0 THEN status
  ELSE IF width[col] = 0 THEN BAD_ELEM_NUM
  ELSE IF EndRow(col) > Capacity THEN WRITE_ERROR
  ELSE IF col = 21 /\ ~IsShort(fh.pol) THEN NUM_OVERFLOW
  ELSE 0

\* Broken form of OffSubAfter: TSUBINT is assigned, not added.
OffSubAssigned == dval

\* off_sub += dval, when dval is TSUBINT.
OffSubAfter == off_sub + dval

\* One column of the row.  TSUBINT (column 3) is the difference of SIGPROC's
\* running pulse counts; OFFS_SUB (column 4) is the sum of the TSUBINTs before.
\* The status is looked at after DATA (column 19).
WriteCol ==
  /\ At("cols")
  /\ col \in Columns
  /\ IF ColumnStatus # 0 THEN status' = ColumnStatus ELSE MayFail({WRITE_ERROR})
  /\ IF status' = 0 /\ Elements(col) > 0
       THEN /\ cells' = [Extended(EndRow(col)) EXCEPT ![subint_cnt][col] = Value(col)]
            /\ data' = DataAfter(EndRow(col), subint_cnt,
                                 IF col = 19 THEN subway ELSE <<>>)
       ELSE UNCHANGED <<cells, data>>
  /\ runpulses' = IF col = 3 THEN fh.numpulses ELSE runpulses
  /\ dval' = CASE col = 3       -> Value(3)
               [] col \in {2, 5} -> 0
               [] col = 20      -> fh.period
               [] OTHER         -> dval
  /\ off_sub' = IF col = 4 THEN OffSubAfter ELSE off_sub
  /\ col' = col + 1
  /\ IF col = 19 THEN ReportAndExitOnError("cols") ELSE UNCHANGED <<exit, pc>>
  /\ UNCHANGED <<runVars, warned, disk, hdus, parRows, width, subint_cnt,
                 profVars>>

\* The row is done: count it and read the next header, if there is one.
NextSubint ==
  /\ At("cols")
  /\ col \notin Columns
  /\ subint_cnt' = subint_cnt + 1
  /\ CallReadHeader
  /\ pc' = "loop"
  /\ UNCHANGED <<runVars, exit, warned, status, disk, outputVars, runpulses,
                 off_sub, dval, col>>

\* The end of the loop.
EndSubints ==
  /\ At("loop")
  /\ feof
  /\ UNCHANGED status
  /\ ReportAndExitOnError("close")
  /\ UNCHANGED <<runVars, warned, disk, outputVars, subintVars, profVars>>

\* closeFITS, and return 0.
CloseFITS ==
  /\ At("close")
  /\ MayFail({FILE_NOT_CLOSED})
  /\ exit' = IF status' = 0 THEN "ok" ELSE "error"
  /\ disk' = IF status' = 0 THEN "complete" ELSE disk
  /\ UNCHANGED <<runVars, pc, warned, outputVars, subintVars, profVars>>

-----------------------------------------------------------------------------
\* The reader runs while main waits for it.
Reader ==
  /\ exit = "running"
  /\ ReaderStep
  /\ UNCHANGED <<runVars, pc, exit, warned, status, disk, outputVars, subintVars>>

Program ==
  \/ OpenProf \/ SanityCheck \/ CreateFITS \/ PrimaryHeader
  \/ PutHistoryTable \/ PutPar \/ CreateSubint
  \/ BeginSubint \/ WriteCol \/ NextSubint \/ EndSubints \/ CloseFITS
  \/ HeapOverrun \/ Reader

Operator == Launch \/ RemoveOutput

Next == Program \/ Operator

\* A started program gets the processor until it ends; nothing makes the
\* operator act.
Fairness == WF_vars(Program)

Spec == Init /\ [][Next]_vars /\ Fairness

-----------------------------------------------------------------------------
(* What the state has to say. *)
TypeOK ==
  /\ ProfTypeOK
  /\ input \in Inputs
  /\ runs \in 0 .. MaxRuns
  /\ pc \in {"open", "sanity", "create", "primary", "history", "par", "table",
             "loop", "cols", "close"}
  /\ exit \in {"idle", "running", "ok", "error", "abort"}
  /\ warned \subseteq {"HEADER", "NUMCHANS", "NPOL"}
  /\ status \in StatusCodes
  /\ disk \in {"absent", "partial", "complete"}
  /\ hdus \in Seq(Hdu)
  /\ parRows \in Nat
  /\ width \in [Columns -> Nat]
  /\ cells \in Seq([Columns -> Int \cup {Blank}])
  /\ data \in Seq(Sample)
  /\ subint_cnt \in Nat \ {0}
  /\ runpulses \in Int
  /\ off_sub \in Int
  /\ dval \in Int
  /\ col \in 1 .. 22

-----------------------------------------------------------------------------
(* Inputs the properties tell apart *)

\* A PROF file that holds the whole of every sub-integration.
Complete(i) ==
  /\ i.exists
  /\ i.subints # <<>>
  /\ i.prof = Render(i.subints)
  /\ \A s \in DOMAIN i.subints : i.subints[s].hdr.numbins >= 1

\* A PROF file that is good as far as it goes.
Cut(i) == IsPrefix(i.prof, Render(i.subints))

\* Every sub-integration has the shape of the first, NUMCHANS says how many
\* channels that is, and the sizes are ints.
Uniform(i) ==
  /\ i.numchans >= 1
  /\ \A s \in DOMAIN i.subints :
       /\ i.subints[s].hdr.numbins = i.subints[1].hdr.numbins
       /\ i.subints[s].hdr.pol = i.subints[1].hdr.pol
       /\ Len(i.subints[s].cube) = i.numchans
       /\ IsInt(i.numchans * i.subints[s].hdr.pol)
       /\ IsInt(i.subints[s].hdr.numbins * (i.numchans * i.subints[s].hdr.pol))

\* What the program is made for: a complete, uniform file of one polarisation,
\* and cfg files with numbers where numbers are wanted.
Faithful(i) ==
  Complete(i) /\ Uniform(i) /\ i.subints[1].hdr.pol = 1 /\ i.badcfg = "none"

\* The tokens of a file up to the bins of sub-integration s.
HeaderEnd(i, s) == Len(Render(SubSeq(i.subints, 1, s - 1))) + 1 + Len(HeaderOrder)

\* The sub-integrations of which the file has more than the header.
Begun(i) == {s \in DOMAIN i.subints : HeaderEnd(i, s) < Len(i.prof)}

-----------------------------------------------------------------------------
(* Safety *)

\* readSubs stores inside the buffer that PutSubint sized, however the header
\* and NUMCHANS were come by, as long as the header's pol is positive and the
\* size is an int: it is computed from fh->numbins and pol, the index from
\* PROFIO::numbins, which readHeader has to keep in step, and neither may wrap.
SampleInBuffer ==
  (/\ call = "subs" /\ b < numbins /\ c \in 0 .. numchans - 1
   /\ fh.pol >= 1 /\ IsInt(fh.numbins * numchans * fh.pol))
    => Slot \in 1 .. Len(subway)

\* In the rows of a run that has seen no error, ISUBINT counts the rows, and
\* OFFS_SUB is the sum of the TSUBINTs above: PutSubint adds TSUBINT to off_sub
\* after it wrote it, and keeps the running pulse count across rows.
OffsTelescopes ==
  exit = "running" /\ status = 0 =>
    \A r \in 1 .. subint_cnt - 1 :
      /\ r \in DOMAIN cells
      /\ cells[r][1] = r
      /\ cells[r][4] = IF r = 1 THEN 0 ELSE cells[r - 1][4] + cells[r - 1][3]

\* When the program returns 0 there was no error, the file is complete, it has
\* all the HDUs that were asked for in main's order, the ephemeris with every
\* line, and every sub-integration counted is a row with its scalar columns.
ExitOkMeansComplete ==
  exit = "ok" =>
    /\ status = 0
    /\ \/ disk = "complete"
       \/ disk = "absent"  \* removed since
    /\ disk = "complete" =>
         /\ [h \in DOMAIN hdus |-> hdus[h].name] =
              << "PRIMARY", "HISTORY" >>
              \o (IF input.par.given THEN << "PSRPARAM" >> ELSE <<>>)
              \o << "SUBINT" >>
         /\ parRows = IF input.par.given /\ input.par.opens
                        THEN input.par.lines ELSE 0
         /\ \A r \in 1 .. subint_cnt - 1 :
              \A k \in Columns \ 15 .. 19 : cells[r][k] # Blank

\* In a file the program is done with, all HDUs describe the same header, it is
\* the first one of the PROF file, and the DATA column has its size: primary
\* header, HISTORY and SUBINT each ask the reader again, and nothing may have
\* made it move on in between.  Only a count that does not fit HISTORY's columns
\* is another one there, and none of the other HDUs is the worse for it.  A size
\* that wraps as an int is no column: fits_write_tdim multiplies again.
HdusDescribeFirstHeader ==
  exit = "ok" /\ disk = "complete" /\ Complete(input) =>
    \A h \in DOMAIN hdus :
      LET hdr == input.subints[1].hdr
          says(value, field) ==
            \/ value \in {Blank, field}
            \/ /\ hdus[h].name = "HISTORY" /\ ~IsShort(field)
               /\ (value - field) % (2 * (ShortMax + 1)) = 0
      IN  /\ says(hdus[h].npol, hdr.pol)
          /\ says(hdus[h].nbin, hdr.numbins)
          /\ says(hdus[h].nchan, numchans)
          /\ says(hdus[h].freq, hdr.freq)
          /\ hdus[h].name = "SUBINT" =>
               LET size == hdus[h].nbin * hdus[h].nchan * hdus[h].npol
               IN  IsLong(size) => width[19] = size

\* However early a file ends, PutSubint writes a row for every sub-integration
\* that was begun and none for one that was not: the loop tests the end of the
\* file at the one place where the white space after a header or a bin has just
\* been skipped.
RowPerSubint ==
  exit = "running" /\ Uniform(input) /\ Cut(input) =>
    /\ subint_cnt - 1 <= Cardinality(Begun(input))
    /\ pc = "close" => subint_cnt - 1 = Cardinality(Begun(input))

\* However early a file of one shape ends, each sample that is in it is in the
\* row of its sub-integration and at the place of its bin and channel: the
\* reader finds the next header again, and readSubs, whose buffer may come with
\* the samples of the row before, stores over every one it has a sample for.
RowsHoldTheirSamples ==
  (exit = "running" /\ status = 0 /\ pc \in {"loop", "cols"}
     /\ Uniform(input) /\ Cut(input)) =>
    \A r \in 1 .. subint_cnt - 1 :
      /\ r \in DOMAIN input.subints
      /\ LET bins == input.subints[r].hdr.numbins
             cube == input.subints[r].cube
             left == Len(input.prof) - HeaderEnd(input, r)
         IN  \A ch \in DOMAIN cube : \A bn \in DOMAIN cube[ch] :
               (bn - 1) * (Len(cube) + 1) + 1 + ch <= left =>
                 data[(r - 1) * width[19] + (ch - 1) * bins + bn] =
                   [k |-> "real", v |-> cube[ch][bn]]

-----------------------------------------------------------------------------
(* What a step may never do *)

\* After the first error a run writes nothing any more, keeps the error and
\* does not return 0: every fits_* call inherits status, and no path from an
\* error to return 0 misses ReportAndExitOnError.
ErrorIsFinal ==
  [][exit = "running" /\ status # 0 =>
       UNCHANGED <<status, outputVars>> /\ exit' # "ok"]_vars

\* A complete file is never touched by a later run.
CompleteIsKept ==
  [][disk = "complete" =>
       \/ disk' = "absent"
       \/ UNCHANGED <<disk, outputVars>>]_vars

-----------------------------------------------------------------------------
(* What has to happen *)

\* Every run ends: the loop of PutSubint is left at the end of the file, or,
\* when the reader is stuck, for want of space.
Terminates == (exit = "running") ~> (exit # "running")

\* A faithful input is converted, when there is room for it and no old file.
Converts ==
  (exit = "running" /\ pc = "open" /\ disk = "absent" /\ Faithful(input))
    ~> (exit = "ok")

-----------------------------------------------------------------------------
(* What the repository says and the code does not do *)

\* The DATA of a complete file is data, for all of NBIN x NCHAN x NPOL.
DataIsInitialised ==
  exit = "ok" /\ disk = "complete" /\ Complete(input) /\ Uniform(input) =>
    \A n \in DOMAIN data : data[n].k # "uninit"

\* Every row of SUBINT is a sub-integration: its ISUBINT is its number.
EveryRowIsNumbered ==
  exit = "ok" /\ disk = "complete" /\ Complete(input) =>
    \A r \in DOMAIN cells : cells[r][1] = r
=============================================================================
