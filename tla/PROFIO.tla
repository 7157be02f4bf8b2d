------------------------------- MODULE PROFIO -------------------------------
(***************************************************************************)
(* The PROF reader: class PROFIO of Source/pfits.hpp.                      *)
(*                                                                         *)
(* A PROF file is a sequence of sub-integrations, each a header line that  *)
(* begins with '#' followed by one line per phase bin (an index and one    *)
(* sample per channel).  The reader never looks at lines: it consumes the  *)
(* stream with fscanf conversions, and nothing looks at what fscanf        *)
(* returns.  So the stream is modelled as the sequence of lexical tokens   *)
(* that is still to be read, and every conversion as one step that matches *)
(* and consumes the first token or leaves the stream alone.                *)
(*                                                                         *)
(* A token is one of                                                       *)
(*   "hash"   the '#' that opens a header                                  *)
(*   "int"    an integer                                                   *)
(*   "real"   a number with a fraction                                     *)
(*   "frac"   the ".ddd" that is left of a real after %d took its digits   *)
(*   "junk"   anything that is no number                                   *)
(* with v its value; of a numeral that is too large for an int the program *)
(* reads the low bits, and the token is that number.  In the sample buffer *)
(* two more kinds of element occur: "uninit" (what the allocator left      *)
(* there) and, in a FITS table, "zero".                                    *)
(*                                                                         *)
(* The module has the reader's state and its operations as action          *)
(* fragments; Prf2Fits is the program that calls them.  A call in progress *)
(* is recorded in the variable call, on which the caller waits.            *)
(***************************************************************************)
EXTENDS Integers, Sequences

CONSTANT IntMax  \* the largest int, 2^31 - 1 in the code

ASSUME IntMaxAssumption == IntMax \in Nat \ {0}

VARIABLES
  file,     \* the tokens of the PROF file that are still to be read
  feof,     \* the end-of-file indicator of the stream
  fh,       \* the header fields last scanned (struct fromHeader)
  numbins,  \* PROFIO::numbins, the bins readSubs will read
  numchans, \* PROFIO::numchans, the channels readSubs will read
  call,     \* the operation in progress: "none", "header" or "subs"
  fld,      \* the next conversion of readHeader's fscanf
  subway,   \* the sample buffer readSubs fills
  b,        \* readSubs's bin index
  c         \* readSubs's channel index; -1 while the bin's index is read

profVars == <<file, feof, fh, numbins, numchans, call, fld, subway, b, c>>

Kinds == {"hash", "int", "real", "frac", "junk"}

Token == [k : Kinds, v : Int]

\* What an element is that readSubs has not stored into in this run.
Uninit == [k |-> "uninit", v |-> 0]

Sample == [k : Kinds \cup {"uninit", "zero"}, v : Int]

\* What is kept of n by a signed type whose largest number is max.
Narrow(n, max) == ((n + max + 1) % (2 * (max + 1))) - (max + 1)

\* The result of int arithmetic: without optimisation, as the Makefile builds
\* the program, the instructions keep the low 32 bits.
AsInt(n) == Narrow(n, IntMax)

IsInt(n) == n \in -IntMax - 1 .. IntMax

(***************************************************************************)
(* The format string of readHeader: the literal '#' and nine conversions.  *)
(***************************************************************************)
Conversions == {"#", "f", "d", "c"}

HeaderFormat ==
  << [name |-> "",          conv |-> "#"],
     [name |-> "mjd",       conv |-> "f"],
     [name |-> "fract",     conv |-> "f"],
     [name |-> "period",    conv |-> "f"],
     [name |-> "numpulses", conv |-> "d"],
     [name |-> "freq",      conv |-> "f"],
     [name |-> "dm",        conv |-> "f"],
     [name |-> "numbins",   conv |-> "d"],
     [name |-> "tid",       conv |-> "c"],
     [name |-> "pol",       conv |-> "d"] >>

FieldNames == {"mjd", "fract", "period", "numpulses", "freq", "dm",
               "numbins", "tid", "pol"}

-----------------------------------------------------------------------------
(* fscanf, one conversion at a time *)

AtEnd == file = <<>>

\* The kinds of token a conversion matches.  White space before the token is
\* skipped by every conversion the reader uses.
Accepts(conv) ==
  CASE conv = "#" -> {"hash"}
    [] conv = "f" -> {"int", "real", "frac"}
    [] conv = "d" -> {"int", "real"}
    [] conv = "c" -> Kinds

Fits(conv) == ~AtEnd /\ Head(file).k \in Accepts(conv)

\* What a conversion leaves of the token it matched: %d stops at the point of
\* a real, %c takes one character (digits are single in this abstraction).
Leftover(conv, t) ==
  CASE conv \in {"d", "c"} /\ t.k = "real" -> <<[t EXCEPT !.k = "frac"]>>
    [] conv = "c" /\ t.k = "frac"          -> <<[t EXCEPT !.k = "int"]>>
    [] OTHER                               -> <<>>

AfterConversion(conv) == Leftover(conv, Head(file)) \o Tail(file)

-----------------------------------------------------------------------------
(* readHeader *)

\* Broken form of CallReadHeader: MoreThere as its comment has it.
CallReadHeaderInverted ==
  /\ IF feof THEN call' = "header" /\ fld' = 1 ELSE UNCHANGED <<call, fld>>
  /\ UNCHANGED <<file, feof, fh, numbins, numchans, subway, b, c>>

\* The call.  At end of file it returns 1 at once and nothing changes.
CallReadHeader ==
  /\ IF feof
       THEN UNCHANGED <<call, fld>>
       ELSE call' = "header" /\ fld' = 1
  /\ UNCHANGED <<file, feof, fh, numbins, numchans, subway, b, c>>

\* One conversion of the format matches; the field is stored.
HeaderField ==
  /\ call = "header"
  /\ fld \in DOMAIN HeaderFormat
  /\ Fits(HeaderFormat[fld].conv)
  /\ file' = AfterConversion(HeaderFormat[fld].conv)
  /\ fh' = [f \in FieldNames |->
              IF f = HeaderFormat[fld].name THEN Head(file).v ELSE fh[f]]
  /\ fld' = fld + 1
  /\ UNCHANGED <<feof, numbins, numchans, call, subway, b, c>>

\* fscanf is over: all fields are read, or a conversion did not match and the
\* remaining fields keep their old values.  Either way numbins is copied from
\* the header and 0 is returned.
HeaderReturn ==
  /\ call = "header"
  /\ fld \in DOMAIN HeaderFormat => ~Fits(HeaderFormat[fld].conv)
  /\ feof' = (feof \/ AtEnd)
  /\ numbins' = fh.numbins
  /\ call' = "none"
  /\ UNCHANGED <<file, fh, numchans, fld, subway, b, c>>

-----------------------------------------------------------------------------
(* readSubs *)

\* The call, with a buffer of n floats from operator new.  The memory is that
\* of the buffer before, which has just been deleted, or other memory; of the
\* old samples the first m are lost to the allocator's bookkeeping, or all.
CallReadSubs(n) ==
  /\ \E m \in 0 .. n :
       subway' = [i \in 1 .. n |->
                    IF i > m /\ i <= Len(subway) THEN subway[i] ELSE Uninit]
  /\ b' = 0
  /\ c' = -1
  /\ call' = "subs"
  /\ UNCHANGED <<file, feof, fh, numbins, numchans, fld>>

\* fscanf("%d") of the bin's index; its value is not used.
ReadIndex ==
  /\ call = "subs"
  /\ b < numbins
  /\ c = -1
  /\ file' = IF Fits("d") THEN AfterConversion("d") ELSE file
  /\ feof' = (feof \/ AtEnd)
  /\ c' = 0
  /\ UNCHANGED <<fh, numbins, numchans, call, fld, subway, b>>

\* Broken forms of Slot: the channels as stride; channel fastest.
SlotChannelStride == AsInt(AsInt(c * numchans) + b) + 1
SlotChannelFastest == AsInt(AsInt(b * numchans) + c) + 1

\* The element of the buffer that bin b of channel c goes to.
Slot == AsInt(AsInt(c * numbins) + b) + 1

\* fscanf(" %f") of one sample.  A conversion that does not match stores
\* nothing; a store outside the buffer is lost (or fatal, see Prf2Fits).
ReadSample ==
  /\ call = "subs"
  /\ b < numbins
  /\ c >= 0
  /\ c < numchans
  /\ IF Fits("f")
       THEN /\ file' = AfterConversion("f")
            /\ subway' = [i \in 1 .. Len(subway) |->
                            IF i = Slot THEN Head(file) ELSE subway[i]]
       ELSE UNCHANGED <<file, subway>>
  /\ feof' = (feof \/ AtEnd)
  /\ c' = c + 1
  /\ UNCHANGED <<fh, numbins, numchans, call, fld, b>>

\* Broken form of EndBin: the bin is not counted.
EndBinUncounted ==
  /\ call = "subs"
  /\ b < numbins
  /\ c >= 0
  /\ c >= numchans
  /\ feof' = (feof \/ AtEnd)
  /\ c' = -1
  /\ UNCHANGED <<file, fh, numbins, numchans, call, fld, subway, b>>

\* fscanf("\n"): skip the white space up to the next token or end of file.
EndBin ==
  /\ call = "subs"
  /\ b < numbins
  /\ c >= 0
  /\ c >= numchans
  /\ feof' = (feof \/ AtEnd)
  /\ b' = b + 1
  /\ c' = -1
  /\ UNCHANGED <<file, fh, numbins, numchans, call, fld, subway>>

SubsReturn ==
  /\ call = "subs"
  /\ b >= numbins
  /\ call' = "none"
  /\ UNCHANGED <<file, feof, fh, numbins, numchans, fld, subway, b, c>>

ReaderStep ==
  \/ HeaderField \/ HeaderReturn
  \/ ReadIndex \/ ReadSample \/ EndBin \/ SubsReturn

-----------------------------------------------------------------------------
(* What a complete description of the reader's state has to say. *)
ProfTypeOK ==
  /\ file \in Seq(Token)
  /\ feof \in BOOLEAN
  /\ fh \in [FieldNames -> Int]
  /\ numbins \in Int
  /\ numchans \in Int
  /\ call \in {"none", "header", "subs"}
  /\ fld \in 1 .. Len(HeaderFormat) + 1
  /\ subway \in Seq(Sample)
  /\ b \in Nat
  /\ c \in Int /\ c >= -1
=============================================================================
