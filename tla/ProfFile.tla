------------------------------ MODULE ProfFile ------------------------------
(***************************************************************************)
(* The PROF file format, as the reader's format strings (Source/pfits.hpp) *)
(* and Test/test.prof show it: how a sequence of sub-integrations is       *)
(* written down as tokens (see PROFIO).  It is what readHeader and         *)
(* readSubs are the inverse of, and says what an input means.              *)
(***************************************************************************)
EXTENDS Integers, SequencesExt

HeaderOrder == <<"mjd", "fract", "period", "numpulses", "freq", "dm",
                 "numbins", "tid", "pol">>

\* The kind of token a header field is written as; tid is a letter or '?'.
KindOf(field) ==
  CASE field \in {"numpulses", "numbins", "pol"} -> "int"
    [] field = "tid"                             -> "junk"
    [] OTHER                                     -> "real"

HeaderTokens(hdr) ==
  << [k |-> "hash", v |-> 0] >> \o
  [i \in 1 .. 9 |-> [k |-> KindOf(HeaderOrder[i]), v |-> hdr[HeaderOrder[i]]]]

\* The lines of the bins 1 .. bins: each its index and a sample of every channel.
BinTokens(cube, bins) ==
  LET line == Len(cube) + 1
  IN  [n \in 1 .. bins * line |->
         LET bin == ((n - 1) \div line) + 1
             ch  == (n - 1) % line
         IN  IF ch = 0 THEN [k |-> "int", v |-> bin]
                       ELSE [k |-> "real", v |-> cube[ch][bin]]]

\* A sub-integration is [hdr, cube], cube[channel][bin] being a sample.
SubintTokens(s) == HeaderTokens(s.hdr) \o BinTokens(s.cube, s.hdr.numbins)

Render(subints) == FlattenSeq([i \in DOMAIN subints |-> SubintTokens(subints[i])])
=============================================================================
