# A specification of prf2fits

`prf2fits` converts a PROF file, the folded profiles that SIGPROC writes, to a
PSRFITS file. These modules model the program, TLC checks them on small
instances, and TLAPS proves the most important properties for all instances.

## The system

All of the program is in `Source/`; `cfitsio/` is the vendored library.

| component | code | state | operations |
|---|---|---|---|
| PROF reader | `PROFIO`, pfits.hpp 6-73 | the stream and its end-of-file flag, the header last scanned, `numbins`, `numchans` | `readHeader`, `readSubs`, `MoreThere`, getters |
| Converter | `FITS`, pfits.hpp 75-783; `main`, third.cpp 66-84 | the CFITSIO status, the output (HDUs, PSRPARAM and SUBINT rows), scratch values reused from column to column, row counter, `off_sub`, `runpulses` | constructor, `sanityCheck`, `createFITS`, `primaryHeader`, `PutHistoryTable`, `PutPar`, `PutSubint`, `closeFITS` |
| Command line | `main`, third.cpp 23-59 | five file names, `parfile` | getopt |
| Cfg reader | `IOer`, ioer.hpp; `parse`, parser.hpp | a map from key to value per file | `LoadFile`, `operator[]` |
| Cfg generator | generator.hpp, testgenerator.cpp | four maps of defaults, a file name each | `takeio`, `outputfile` |
| Date conversion | `ManageMJD`, mjder.hpp | none | constructor, `getDateTime` |
| CFITSIO: input/output buffers | buffers.c; `ffclos`, `fftrun`, `ffread`, `ffwrite` of cfileio.c; drvrfile.c | 40 buffers of a record each with their ages and marks, the current one, the sizes of the file on disk and with the buffers, two file positions | `ffmbyt`, `ffpbyt`, `ffgbyt`, `ffldrc`, `ffbfwt`, `ffflsh`, `fftrun`, `ffclos` |
| CFITSIO: error messages | `ffxmsg` and its wrappers, fitscore.c 655-852; `ffrprt`, cfileio.c | 25 message buffers and the pointers to those in use | `ffpmsg`, `ffpmrk`, `ffcmrk`, `ffcmsg`, `ffgmsg`, `ffrprt` |
| CFITSIO: the rest | `cfitsio/`, 130 files | HDU structures, the file | `fits_*` |

How they interact: `main` calls the operations of `FITS` in one fixed order.
`FITS` pulls from the reader: the constructor reads the first header, and
`PutSubint` alternates `readSubs` and `readHeader` until the stream's
end-of-file flag is up. It asks the cfg maps for keyword values. All output goes
through CFITSIO, every call of which gets a pointer to `FITS::status` and does
nothing when that is already non-zero. Below its routines all bytes of the file go
through the input/output buffers, and all messages into the message stack, which
`fits_report_error` (`ffrprt`) empties when `ReportAndExitOnError` ends the program.

`cfgen` runs before, by itself: it asks for values on the terminal and writes the
four cfg files, which the operator may edit, and which `FITS` loads.

No program has more than one thread. What is hard is elsewhere:

* **Nobody looks at results.** The value of `fscanf` is dropped, so a format
  that stops in the middle leaves the rest of the header as it was (at the
  start: as `malloc` left it), and a conversion that never matches leaves the
  stream where it is for ever. The results of `createFITS` and of the stages
  after it are dropped too; only `ReportAndExitOnError` looks at the status, at
  six places.
* **End of file.** The loop of `PutSubint` tests `feof`, which is up only after
  a read tried to go past the end: it relies on the `"\n"` at the end of each
  format, which skips white space and meets the end.
* **Sizes computed twice.** The columns are sized for the first header, the
  buffer and the vectors for the current one, and the index into the buffer uses
  `PROFIO::numbins`, a copy. All of them are products of ints from two files, and wrap.
* **A buffer for every row.** It is deleted and allocated again uninitialised, so it may come
  with the samples of the row before.
* **State carried from row to row.** TSUBINT is the difference of SIGPROC's
  *running* pulse counts, OFFS_SUB the running sum of TSUBINTs; both pass through
  variables that are reused for other columns.
* **Buffers under direct access.** Small reads and writes go to the buffers, large ones
  past them to the file; a buffer may hold a record the file does not have yet, or one
  that a direct write is about to replace. Seeks are left out where the library believes
  it is at the right place.
* **Errors within a call.** The status is inherited between calls, but within one
  the library goes on after an error: it advances sizes and positions, and sometimes assigns
  another status on top.
* **Failures.** The disk may fill up, any CFITSIO call may fail, a cfg value that
  is no number throws and nothing catches it. What is on the disk stays there,
  and the operator runs the program again.

* **Text and dates by hand.** `parse` adds to positions that may be `npos`; `cfgen`
  looks at the variable `getline` reads into and not at the stream; the date is
  computed in chained truncations and a rounding.
* **Two lists of keys.** What `cfgen` writes and what the converter looks up are
  kept in two programs, and four file names go by position from `main` to the
  constructor.

What makes each component right: the reader finds the next header again and
stores inside the buffer; the converter describes one and the same header in all
HDUs, writes one row per sub-integration with consistent times, never returns 0
after an error, never touches a complete output, and ends; DATE-OBS is the day of
the observation and gives the time of STT_SMJD, to the second; the answers given to `cfgen` reach the keys
they were asked for, and the cfg reader gets what `cfgen` wrote, which is all that
the converter looks up, from the file named for each class; the buffers are a plain file to
the routines above, and the message stack a bounded sequence. The list of hazards,
each with its line and with the properties that cover it, is in `PROJECT.json`.

## Modules

| module | what it is |
|---|---|
| `PROFIO` | the reader, a set of action fragments; one step per `fscanf` conversion |
| `ProfFile` | the PROF format: the tokens a sequence of sub-integrations is written as |
| `Prf2Fits` | the program: `main` and `FITS` on top of `PROFIO`, with the operator who starts it and removes its output; the properties |
| `PsrFits` | what a conversion promises: begin, create, append a row, finish or fail (`Steps`), and that one of these comes (`Progress`) |
| `Prf2FitsRefinement` | the refinement mapping from `Prf2Fits` to `PsrFits` |
| `MCPrf2Fits`, `MCPrf2FitsRefinement` | inputs and constants for TLC |
| `ManageMJD` | the date conversion, with the rounding of its time of day, and the start time keywords; a behaviour is a sequence of observations |
| `Calendar` | the reference it is compared with: days counted by a table of months |
| `CfgFile` | `parse` and `IOer`: a set of action fragments, one step per line |
| `Cfgen` | the generator: the dialogue, and the files it writes |
| `CommandLine` | the options of `prf2fits` and the strings they set |
| `Configuration` | the three with the operator's editor in between, the constructor's loading of the four files, and the converter's lookups |
| `IOBuffers` | CFITSIO's input/output buffers, a step for each record a call loads, writes back or copies |
| `ByteFile` | what they promise: calls that write, read or cut the cells they name, one at a time |
| `MessageStack` | CFITSIO's message buffers, the trials that mark and erase, and the report |
| `ErrorStack` | what they promise: a bounded sequence of messages and marks |
| `MCManageMJD`, `MCConfiguration`, `MCIOBuffers`, `MCMessageStack` | days, times, tables, dialogues and command lines for TLC |
| `ManageMJD_proofs` | the calendar, the order of dates and the time of day, proved |
| `Prf2Fits_proofs` | type correctness, inductive invariants and the safety properties, with what exit status 0 says of the output, proved |
| `Prf2FitsReader_proofs` | the reader as the inverse of `Render`, and with it what the output says of the observation, proved |
| `Prf2FitsRefinement_proofs` | what the table holds at each column of each row, and that `Prf2Fits` implements `PsrFits`, proved |
| `MessageStack_proofs` | all four safety properties of the message stack, the refinement included |
| `IOBuffers_proofs` | the records, marks and ages of the buffers, proved |
| `IOBuffersFile_proofs` | on top of it: the types, the position, flushes, reads, and that the buffers are a plain file |
| `Configuration_proofs` | all four safety properties of the configuration: answers, lines written and loaded, files named, lookups |

**The stream.** The reader never looks at lines, so a PROF file is the sequence of
tokens still to be read: `#`, integers, reals, the fraction that `%d` leaves of a
real, and junk. `Accepts` and `Leftover` say which tokens a conversion matches and
what it leaves. The `' '` and `'\n'` of the formats are folded into the steps
after whose tokens they stand: after them `feof` is up exactly when no token is
left. A one-character conversion (`%c`) takes the token when it is one
character long, which is how SIGPROC writes the telescope id.

**The caller and the callee.** `call` says that `readHeader` or `readSubs` is in
progress; `main`'s actions wait for `call = "none"`. `pc` is the stage of `main`
(`open`, `sanity`, `create`, `primary`, `history`, `par`, `table`, `loop`, `cols`,
`close`); `col` is `PutSubint`'s own column counter. An action is one stage up to
the table, and one `fits_write_col` in the loop of `PutSubint`, because
`dval`, `off_sub` and `runpulses` change between columns.

**CFITSIO.** A call succeeds, fails with a code of its own, or does nothing because
`status` is non-zero (`MayFail`). Creating the file fails when it exists. Writing
a column follows `ffgcprll` (fitscore.c): `BAD_ELEM_NUM` when the repeat count is 0,
otherwise the last row reached is `firstrow + (nelem-1)/repeat`, and the table
grows to it, also when that is more than one row. Creating a table fails for
negative repeat counts, `fits_write_tdim` for negative axes and when the axes, multiplied as
`long`, are not the repeat count. With no bins or no channels TBIN or CHAN_BW is a division by
zero, which is no keyword value (`BAD_F2C`); NPOL of a row, an `int` given as such to a 1I
column, fails when a short does not hold it (`NUM_OVERFLOW`). `Capacity` is the number of
SUBINT rows that fit on the disk. HISTORY's NPOL, NBIN and NCHAN are 1I columns given an
`int` as `TSHORT`: they take its low half (`Short`), whose largest value is `ShortMax`.

**Sizes.** `nscl`, `ndata` and the index of a sample (`Slot`) are `int` products. Overflow of an
`int` is undefined; the Makefile asks for no optimisation, so the instructions keep the low bits,
and the model does (`AsInt`, with `IntMax` for the largest int). A size that wraps to a negative
number makes `fits_create_tbl` or `operator new[]` fail; one that wraps to a small one is caught by
`fits_write_tdim` in the first header, but not in a later one, and then the samples run over the
end of the buffer (`HeapOverrun`).

**The sample buffer** is allocated for every row without being initialised. `CallReadSubs` lets the
allocator return the memory of the buffer before, of which it has used none, some or all at the
front for its own lists, or other memory: an element is what it was, or `Uninit`. So the elements of
a row for which the file has no sample may be samples of the row before, and nothing
here says otherwise.

**Ends.** `exit` is `ok` (return 0), `error` (`ReportAndExitOnError`) or `abort`
(an exception nothing catches, `feof(NULL)`, or a store outside the heap block,
`HeapOverrun`). `disk` is `absent`, `partial` or `complete`.

**A run's input** is the PROF file, NUMCHANS and NPOL of the scan cfg, the first
stage that meets a cfg value that is no number, and the ephemeris file. It also
carries, for the properties only, the sub-integrations the file was meant to hold.

**The date.** `ManageMJD` counts half seconds, a half standing for any
fraction that is no rounding error, and writes each constant as a fraction: `(B - 122.1)/365.25` is `(20B - 2442) \div 7305`. The code works in
doubles. A Julian date as a double is off by up to 40 microseconds; of it only the day is used, and
whether it is before noon, which are exact at noon and midnight. The time of day is another
matter: it is cut off products of the fraction of the day with 24, 60 and 60, and where such a product
is a little less than a whole number, the number before comes out. So the model keeps of each double on
which side of the exact number it lies (`side`): the quotient `fm/86400` is exact for the multiples of
675 half seconds and otherwise on either side; a product keeps its side or is rounded to the whole
number (`Product`), and never across it, since whole numbers are doubles; `modf` cuts it off (`Whole`,
`Fraction`). `Clock` is the set of all times that may come out this way. It has more than the
processor's rounding gives for one given second, and nothing that contradicts the rules of rounding.

**Texts** of `CfgFile` and `Cfgen` are sequences of tokens, of which only `=`, `;` and
"begins like a number" are told apart. Positions count from 0 modulo `Size`, the
number of values of `size_t`, and `npos` is `Size - 1`: this is what gives a line
without a separator the key and value it has. `Cfgen` has the end-of-file bit of `cin`
and the variable `line`; `dialogue.cut` says that the input ends in the middle of its
last line. The keys come in the order of `std::map`.

**Configuration** runs `cfgen`, lets the operator edit lines (how many, `dialogue.edits`
says), starts the converter with a command line, handles its options one by one,
loads the four files as `FITS::FITS` does, and makes the lookups of the conversion in
their order. A command line is what getopt makes of it, a sequence of options with
arguments, and words that are neither, which the program ignores: with a word alone it goes on
with no option set, with nothing at all it prints the help. How getopt finds the options among the words is
external. The stage that meets a
value that is no number is `badcfg` in
`Prf2Fits`. A missing key makes `operator[]` return nothing, which is undefined; the
model stops there.

**The buffers.** `IOBuffers` has the fields of `FITSfile` under their own names. A file is
a function from cells to what they hold, and a record is `IOBUFLEN` cells. Every write has
its own number as data, so a cell tells which write it is from. `op`, `stage`, `pos` and `todo`
are the call going on, its place in the code, and the local variables that say where it is and
what is left: `move` is `ffldrc` called by `ffmbyt`, `load` the same from within the loop of
`ffpbyt` or `ffgbyt`, `copy` a copy between the caller and the current buffer, `fill` and `drop`
the two halves of a direct access, of which `drop` is also the loop of `ffflsh`. `Init` is a new
file, or one just opened with its first record loaded. `ospos` is the stream's own position, which
`io_pos` is the library's idea of: `SeekTo` moves it only where the code compares the two.

With `Faults` the system may refuse anything. A write that is refused leaves the file and the stream alone,
returns WRITE_ERROR, and the call goes on, as in the code. A seek that fails leaves the stream where it
was (`Sought`), which nobody looks at. What `fwrite` took the stream may still hold: `sure` is how much
of the file the system has for certain, and when the stream is flushed (`fflush`) cells behind that
may be lost. `ffflsh` does that last and drops the result; `ffclos` does look at what closing the stream
returns (FILE_NOT_CLOSED), but after a flush that lost its cells there may be nothing left to
fail. `lost` records that anything was refused. Errors of the device in reading are not modelled; a short read
behind the end of the file is. `Forgive` is a caller that expected END_OF_FILE.

**The messages.** `errbuff` and `txtbuff` are the arrays of `ffxmsg`; `Garbled` is what `strncat`
makes of a buffer that was not empty. A message of more than 80 characters is stored in pieces
(`rest`). A trial is a pair of `ffpmrk` and, when it fails, `ffcmrk`, as in modkey.c and
imcompress.c; one that succeeds leaves its mark. `trial` remembers what was on the
stack before, for the property only.

## What is checked

| run | instance | shows |
|---|---|---|
| `files` | whole files of 1-3 sub-integrations, 1-2 bins, 1-2 channels, no / missing / two-line ephemeris, right and wrong NPOL; and a file of two sub-integrations cut at every token, with every token lost, with junk put in front of every token; NUMCHANS from -1 to 3; second headers of other and impossible shapes; counts that do not fit a short of three bits, first and second headers whose sizes wrap an int of five bits, to less than the samples or to nothing; bad cfg values at every stage; five contents of the uninitialised header struct | `HdusDescribeFirstHeader`: primary header, HISTORY and SUBINT agree with the first header, HISTORY modulo the width of its columns, and the DATA column has the size they say; `Converts`: a good file is converted; `SampleInBuffer`: no store is outside the buffer as long as its size is an int; `RowsHoldTheirSamples`: each sample in the file is in the row of its sub-integration and at its place; `OffsTelescopes`, `RowPerSubint`, `Terminates`, `TypeOK` |
| `rerun` | two runs on whole files of one polarisation, one of them with a cfg value that is no number; any call may fail, disk of two rows, output removed or not | `ImplementsPsrFits`: the output only ever changes as `PsrFits` lets it; `GoesOnAsPsrFits`: and it goes on to the next row, the end or a failure; `ExitOkMeansComplete`, `ErrorIsFinal`, `CompleteIsKept` |
| `dates` | every day of 1900, 2000, 2016, 2017 and 2100 and the days around; midnight and the seconds after it, 01:00:00, 01:01:00, 01:01:02, half a second before and after noon and before midnight, all with every rounding that is possible | `DateIsRight`: DATE-OBS is the day of the observation; `StartTimesAgree`: its time is that of STT_SMJD or, only when the observation began with a second, the second before; `LaterSortsLater`: dates grow with time, across noon, months and years, and only observations within one second may have the same |
| `cfg_files` | seven keys; every dialogue of up to three lines in mode 1 and two in mode 2, lines with separators in them, longer dialogues, each with and without a newline at its end; two edits of the default files, one of those of mode 2; the program's own 72 keys; six command lines: plain, empty, a word alone, with `-h`, with a file named for two classes and `-n` given twice, with swapped files, one that is not there, and an option getopt rejects | `AnswersInOrder`: the answers reach the keys asked for; `LoadedIsWritten`: `IOer` has what `cfgen` had, an edited line does not affect other keys or files, and of two lines of a key the first counts; `FilesAsTold`: each class has the file the command line names for it; `FilesOfCfgenSuffice`: all lookups of a conversion succeed |
| `messages` | four message buffers, two texts, messages of one and two pieces, trials, reading, clearing and reports in any order | `BuffersOwned`: no two messages share a buffer, none is free while in use, no text is garbled; `TrialLeavesOlder`: erasing a trial leaves what was there before; `ImplementsErrorStack`; `ReportEnds`; `TypeOK` |
| `buffers` | two buffers of two cells, a file of up to four records, empty or with one or two records at first; any three calls of small and direct reads and writes from four places, flushes, truncations, a close; any write, seek, flush or close may be refused | `ImplementsByteFile`: a read returns the cells it was asked for with what was last written to them; `FlushStores`: after a flush or close all is on the disk, unless anything was refused; `RecordsOnce`; `PositionKnown`: the seeks left out are not needed; `ErrorIsKept`; `ReadsSucceed`; `TypeOK` |

Six runs show where the code does not do what the repository says:

| run | the repository says | the code does |
|---|---|---|
| `two_pols` | "Dimensions of data table = (NBIN,NCHAN,NPOL)" (pfits.hpp:720) | `readSubs` fills NBIN x NCHAN; the other polarisations are uninitialised memory, exit 0 |
| `spill` | ISUBINT is the "Subint number" (pfits.hpp:404) | a sub-integration of more bins than the first spills into a further row without ISUBINT, exit 0 |
| `day_of_month` | "UTC date of observation (YYYY-MM-DDThh:mm:ss)" (pfits.hpp:210) | in the morning of the first of a month, the month before with one day too many: `2014-12-32` |
| `enter` | "If user punches ENTER Default is taken Else user input is read" (generator.hpp:42-45) | an input without a newline at its end gives its last line to all questions that follow in that file |
| `close_in_error` | "currently positioned at EOF" (buffers.c:734) | with an error status `ffbfwt` skips the fill records but counts them, and writes the buffer where the stream is; `ffclos` flushes whatever the status is |
| `lost_flush` | "Flush all the data in the current FITS file to disk" (buffers.c:567) | `ffflsh` drops what the flush of the stream returns: status 0, and a record is not in the file |

Smaller disagreements that need no run; the models have all but the second:

* Two comments call OFFS_SUB the offset of the "subint centre" (pfits.hpp:413 and 588). The code sums
  the TSUBINTs before, which is the offset of its beginning, as the longer comment at 606-616
  decides; `OffsTelescopes` is that decision.
* `%02.3ld` (mjder.hpp:92) prints the seconds of DATE-OBS with three digits.
* "Unable to read Header" (pfits.hpp:103) is never printed: `readHeader` returns 1 only when
  `feof` is set before it reads, which it is not right after `fopen`.
* "Overiding NUMCHANS in cfg to what is read from PROF" (pfits.hpp:121) neither: `sanityCheck`
  compares the cfg value with itself, and nothing is read from the PROF file.
* `outputfile` (generator.hpp:102) looks at the line before it reads it, so the file name
  typed is dropped.
* Mode 2 of `cfgen` asks for NPOL too (testgenerator.cpp:41), which doc/manual.tex:179-185
  does not list.
* A line without `=` is loaded without a message (parser.hpp:8, and ioer.hpp:25 "Requiring any
  file to be parsed by this class to be KEY VALUE format").
* When an observation begins with a second, DATE-OBS may have the second before, and STT_SMJD has not
  (mjder.hpp:74-85, pfits.hpp:210 and 276): compiled, the class makes 01:00:059 of 3660.0 s, and errs for
  42813 of the 86400 whole seconds. `StartTimesAgree` states what is left: one second, and only then.
* `fftrun` assigns the driver's 0 over the WRITE_ERROR of its flush (cfileio.c:7048), where
  docs/cfitsio.doc:1174 says "whenever an error is detected all further CFITSIO processing will cease".
* A small read that continues after an eviction failed may return END_OF_FILE (buffers.c:503) on
  top of WRITE_ERROR, which callers that look for the end of the file forgive. `ErrorIsKept`
  states what is left: only these two take an error away.
* A direct read of records that exist only as a gap behind the end of the disk file fails with
  READ_ERROR where small reads return fill; `ReadsSucceed` excepts direct reads.

**Bounds.** Two sub-integrations of two bins and two channels are the smallest file
with every transition of the reader (next channel, next bin, next header) taken
more than once and with a wrong stride distinguishable from the right one; three
sub-integrations make OFFS_SUB a sum of more than one term. Pulse counts grow
quadratically, so that no two TSUBINTs are equal, and all samples differ. `ShortMax` = 3
in `files` makes the counts 4 and more those that do not fit a column of shorts, and `IntMax` = 15 the sizes
16 and more those that do not fit an int: 36 and 40 wrap to fewer elements than there are samples, 32
to none. `Capacity`
is above the rows a whole file needs in `files` (4) and below those of one
of the files in `rerun` (2); for damaged files it is what ends a stuck
reader. `MaxRuns` = 2 is one run after another one. In `dates`, `MaxGap` = 1 lets the next
observation be of the same or the next day, from which the order of later ones follows; the years
are the four kinds of the Gregorian rule. In the cfg runs `Size` = 32 is more than the
tokens of any line, as `size_t` is more than the characters; an edited line is not
edited again, and two edits are enough for two lines of one file and for one
line of two files; seven keys give three files with a first and a later key and one with
a single key. In `messages`, four buffers are enough for a full stack that holds a mark between
two messages and is then given one of two pieces; `MaxPieces` bounds a message. In `buffers`,
two buffers for four records make every third record evict one, and leave gaps; `Lengths` are a cell,
a small access over three records and the smallest direct one (`MINDIRECT` is three records in the
code, too), and `Places` the start, the middle and the end of records; `MaxCalls` = 3 lets a
call write what a second evicts or reaches past and a third reads or flushes; the theorems below are for
any number of calls. Counters have no other bound.

**Fairness.** `WF_vars(Program)`: a started process goes on until it ends. Each
step of it is a finite piece of sequential code, and it waits for nothing but
file reads. Nothing is assumed of the operator. The date and cfg modules state no fairness and no
liveness. `MessageStack` assumes that a routine of CFITSIO that has begun goes on
(`WF_vars(NextPiece)`, `WF_vars(reporting /\ ffgmsg)`), and `IOBuffers` the same (`WF_vars(Step)`):
they are sequential code that waits for nobody. Nothing is assumed of their callers. `Converts` is checked without
faults and with enough space, as it must; `Terminates` is not a matter of luck only
because a stuck reader fills the disk.

Every property of a passing run has a mutant in `PROJECT.json`: an operator named after
the one it breaks, with the comment "Broken form of ..." or "Mutant: ...".

## What is proved

For all inputs, header garbage, capacities, faults and numbers of runs that satisfy
the named assumptions of `Prf2Fits` (which only give the constants their types):

* `TypeCorrect`: `Spec => []TypeOK`.
* `ControlIsRight`: no error before `createFITS`; after it, while there is no
  error, the partial output on the disk is this run's.
* `SamplesStayInBuffer`: `Spec => []SampleInBuffer`. The invariant it needs
  (`BufferInv`) says that `numbins` and `fh->numbins` agree whenever no header is
  being read, and that the buffer's length is what `PutSubint` computed as ints. When the product of
  the three counts is an int, no partial product and no index wraps (`AsIntIs`, `SlotIs`), whatever the
  width, and the index `c * numbins + b` is in the buffer by non-linear arithmetic (`SlotIsInBuffer`).
* `OffsetsTelescope`: `Spec => []OffsTelescopes`. The property speaks of finished
  rows only and is not inductive; `OffsInv` adds what `off_sub` and `dval` hold at
  each column of the row being written.
* `ErrorStaysFinal` and `CompleteStaysKept`: the two action properties, from
  `ControlInv`.

* `OkMeansComplete`: `Spec => []ExitOkMeansComplete`. `HdusInv` says which HDUs the output has at
  each stage while the status is 0, and `RowsInv` which columns of which rows have been
  written; what the last step needs follows from `ControlInv`.

* `HdusDescribeHeader`, `RowsMatchSubints` and `RowsKeepTheirSamples`: `HdusDescribeFirstHeader`,
  `RowPerSubint` and `RowsHoldTheirSamples`, for files of any number of sub-integrations, bins, channels and
  polarisations, cut anywhere. The one thing that `InputsAssumption` says beyond types is that a cube has a
  sample for every bin of its header. The reader never knows where it is, so the proofs say it for it:
  * `RenderIs` gives the token at every position of a file whose sub-integrations have one shape, as a
    function of sub-integration, bin and channel. `Render` folds over a sequence, and what a fold computes is an induction;
    the library's induction theorem cannot be used, so `UpTo` states induction for a *set* of numbers,
    from the well-ordering of `<` (`LeastOf`).
  * `ScanField` and `ScanReturn` follow the ten conversions of `readHeader` over a header, `TakeToken` one
    conversion of `readSubs`: each takes a token whole, or the file is over and stays so.
  * `PlaceInv` puts these together: at each label of `main` the stream is at the header or the bin that
    the row counter, `fld`, `b` and `c` say, and `feof` is up exactly where the white space that was skipped
    last ends the file. `Quiet` says that the reader runs only where `main` called it. `RowPerSubint`
    follows, because the loop's test of `feof` is made at such a place.
  * `FirstInv` and `DescribedInv` say that the first header is what the reader has until the loop
    begins, and what the HDUs made from it say.
  * `SubwayInv` and `DataInv`: the buffer, whatever it held when it was allocated, is as long as a row and
    has every sample read so far at its place, and the rows of DATA that are written hold all samples of their
    sub-integration that are in the file (`RowHeld`). No two samples go to one place, the write of a row
    ends in that row, by the division lemma, because all rows have the width of the first, and so the rows
    before keep theirs.

* `ConverterImplementsPsrFits`: `Spec => ImplementsPsrFits`, if every input is `Convertible`: a whole file
  of one shape and one polarisation, of any size. Of its other parts (ephemeris, NPOL, bad cfg values), of faults,
  capacity and the number of runs nothing is assumed. The hypothesis is needed: for two polarisations `two_pols` and for a
  larger second sub-integration `spill` shows that the program does something else. The invariants:
  * `PulsesInv`: `runpulses` is the pulse count of the sub-integration before until column 3 is written,
    and of this one afterwards.
  * `StoredInv`: the slots of the buffer that the loops of `readSubs` have been through hold the samples of their
    bins and channels. No two bins and channels have one slot (`SlotsDiffer`), so a store keeps the others.
  * `TableInv`: while the run has seen no error the columns are as wide as a row (`SizesRight`), every cell behind
    the place where `PutSubint` writes is blank and every one before it has the value of `Row`
    (`CellsRight`, with `ValueIs` for the value written), and DATA has the samples in the order of the file (`DataRight`).

  `RowsAre` follows: what the refinement mapping calls rows are the first `Done` rows of the abstract conversion.
  So of the 21 column writes of a row the last is `WriteRow` and the others change nothing (`WriteColStep`),
  `CloseFITS` is `Finish` because the loop ended at the last sub-integration (`CloseStep`), `CreateFITS` is
  `Create` unless the file was refused, and every other step ends the run with a failure or leaves the
  output as it is (`SilentStep`).

* Of `ManageMJD`, for every set of days from the beginning of the count in 1858, every set of times of
  day, and whatever the doubles are rounded to (see *The date*): `StartTimesAlwaysAgree`, because each product
  stays below what it is taken of (`ProductBelow`), each `modf` leaves a fraction that is again a
  double with a side (`ModfIs`), and a double a little below a whole number is cut to the number
  before, which can only happen at a whole second and makes one second in all (`ClockIsTold`);
  `DateIsAlwaysRight`; and `LaterAlwaysSortsLater`, in which two observations within one second may have one
  date (`TimesInOrder`). The fractions the
  code cuts off are shown to be a count in years that begin in March (`FromMarch`, `ToFebruary`: in such a
  year the leap day is the last, and `MonthTable` is the same straight line in all of them, which is what
  30.6001 is for); `DateOfDay` then says that the three numbers name the day `DayNumber` counts. Two dates
  so named are in the order of their days (`DatesInOrder`), also when noon, the end of a month or the end of
  a year is between them (`NoonInOrder`).
* Of `MessageStack`, for any number of buffers: `TypeAlways`, `BuffersAlwaysOwned`,
  `TrialsLeaveOlder` and `StackImplementsSequence`. The first two are one inductive invariant, from
  which every operation's effect on `Stack` follows (`PushStack`, `EraseStack`, `PopStack`); with those
  `trial` is shown to be the oldest part of the stack, followed by the trial's mark, with no newer
  mark (`TrialInv`), and every step to be one of `ErrorStack` or a stutter.
* Of `IOBuffers`, for any number and size of buffers: `RecordsAreOnce`. `RecordsOnce` is not inductive:
  a direct write gives its buffer a record that no other may hold, which needs that
  the records it drops (`Reached`) include that one, and so that it has cells left to write
  (`AtFill`, `AtDrop`).
* Of `IOBuffers`, for any number and size of buffers, any places and lengths of calls, and a file of any
  size (`MaxRecords`, at least one, bounds what it may grow to):
  `AlwaysTyped`, `ErrorsAreKept`, `PositionIsKnown`, `FlushesStore`, `ReadsDoSucceed` and
  `BuffersImplementFile`, the refinement. The invariant `FileInv` has three parts. `Types` adds to the
  invariant above what a call going on has left to do, and that the stream is never past where the library
  believes it is. `Statuses` says that before anything is refused no status is WRITE_ERROR, and that
  a call with an error is over. `Coherent` says that as long as nothing failed file and buffers fit
  together: the stream is at `io_pos` (`Position`), what is in no dirty buffer is on the disk (`Clean`),
  the last record is in a buffer when the disk file ends before it (`Last`: otherwise the end of the file
  would be forgotten), a direct write begins on the file or where it ends (`Adjoins`: otherwise it would
  leave a hole), and a read going on has collected what the file holds there (`Collected`, `Unanswered`).
  Each step is shown to keep `Fit` and to have one of four effects on the cells the callers see: none, a row
  overwritten, the end cut, or a read answered (`Effect`). `ByteFile` is told what a call asks for when
  it begins (`Request`: the operation, the cells from which and up to which, and the value), so a write
  must write just these cells in order, and a read must return just these: `BeginsFile`, `WritesFile`,
  `ReadsFile` and `CutsFile` match the four effects with its actions, and a step without an effect leaves
  contents and request alone. Once anything was refused, or a
  file is closed in error, `ByteFile` promises nothing, and `BrokenStays` says that this is for good.
  `FlushesStore` needs no more: a flush that lost nothing leaves the file as the callers see it.

* Of `Cfgen` and `Configuration`, for any tables whose keys differ and are no separators, and any dialogues,
  edits and command lines, as long as lines are shorter than `size_t` can say: `AnswersReachTheirKeys`,
  `ValuesArriveAsWritten`, `ClassesGetTheirFiles` and `GeneratedFilesSuffice`. (`TablesAssumption`,
  `DialoguesAssumption`, `LinesAssumption`, `SizeAssumption`, `EditsAssumption`, `CommandLinesAssumption`;
  `ProgramAssumption` only fixes what the table called "program" is.) The way of a value is followed through
  six invariants, each about a place where it is kept:
  * `DialogueInv`, `kv` of the generator: a value is its default or a line typed.
  * `AnswersInv`, `cin`: the next line is the answer to the next question. `AnswersInOrder` then needs that
    no question is asked twice (`AskedOnce`, for the lists of all three modes), or a later answer would
    overwrite an earlier one.
  * `DiskInv`: a file that nobody edited is what `outputfile` wrote; in an edited one the line of a key
    not edited still stands, and is the first of its key (`FirstFor`). The editor changes, removes and adds
    lines; for each it is shown that the lines of other keys stay first.
  * `ArgInv`: a string of `main` is the argument of the last of its options handled.
  * `LoadInv`: the keys of a map are those of the lines read that parse, and the first line of a key gives
    its value (`ReadInv`); lines that all parse, with different keys, give no message (`Good`).
  * `LookInv`: no lookup so far failed.

  Writing and loading meet in `ParseLine`: of `key = value;` `parse` makes the key and the value again if
  the value is not empty, has no `;`, and the line is shorter than `size_t` can say, so that neither
  `find_first_of` returns `npos` nor the subtraction of positions wraps. A step loads one line, so this
  needs no induction over the file.
  `GeneratedFilesSuffice` goes through the lookups of all the stages (`LookupsProvided`)
  and finds each in the generator's tables, of the kind the conversion needs.

TLC checked the inductive invariants before they were proved. All proofs split on the
disjuncts of `Next`, with one step per action.

Only model-checked: the liveness properties `GoesOnAsPsrFits`, `Terminates`, `Converts` and `ReportEnds`
(liveness under fairness is out of the prover's reach). All other properties of the passing runs are proved.

## What is not modelled

* The keywords that are copied from the cfg files to the output as they are, and
  single `fits_update_key` calls: a stage of the header is one step, and what a failure in the
  middle of it leaves is not recorded (a reader of an incomplete file cannot rely on it).
* `!` in front of the output name, by which CFITSIO overwrites.
* In `Prf2Fits` a write reaches the file when it is made; that the buffers of CFITSIO allow
  this view as long as no error occurs is what `IOBuffers` shows.
* `IOer::operator[]` without a value to return is undefined; in `Prf2Fits` a missing
  number is a bad value.
* What the time of day in DATE-OBS is for a given second, where rounding decides: the model has both.
* Input errors of the device, and a lack of memory.
* Output names of `cfgen` other than the defaults (it has none), and
  failures to open or write cfg files.
* `PROFIO::isubs`, `PROFIO::LoadFile`, `FITS::configure` and `struct Header` are dead code.
* Build files and examples.
* Most of CFITSIO, a vendored library of 130 files and nearly all of the repository's lines:
  header parsing and keyword formatting, data conversion (getcol*.c, putcol*.c), tile compression,
  expressions, groups, iterators, the network and memory drivers. They are pure data
  transformation, or nothing the converter calls, and no model that is shorter than them
  would be faithful; the share of the repository's lines that the modules cover stays small for that
  reason. `ffpbytoff` and `ffgbytoff` of buffers.c, which read and write cells with gaps, are not
  modelled: they repeat `ffpbyt` and `ffgbyt` piece by piece.

## Plan

1. *Done:* the reader, the format, the converter, the abstract specification and the
   refinement; type correctness and the first four safety properties proved.
2. *Done:* `ManageMJD` against a reference calendar; the calendar and the time of day proved.
3. *Done:* `CfgFile`, `Cfgen` and their composition in `Configuration`; all four safety properties proved.
4. *Done:* the command line, composed with them.
5. *Done:* HISTORY's 16-bit columns; CFITSIO's message stack and its refinement, proved;
   CFITSIO's buffers and their refinement, proved.
6. *Done:* `ExitOkMeansComplete`, proved.
7. *Done:* the reader as the inverse of `Render`, and the three invariants of `Prf2Fits` that need it, proved.
8. *Done:* the refinement of `Prf2Fits`, proved.
9. *Left:* the header block of an HDU (inserting keywords, moving what
   follows) as a further module on top of `ByteFile`.
