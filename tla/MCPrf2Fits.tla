----------------------------- MODULE MCPrf2Fits -----------------------------
(***************************************************************************)
(* Instances of Prf2Fits for TLC: small PROF files, whole and damaged, and *)
(* the arguments and cfg values a run can be given with them.              *)
(***************************************************************************)
EXTENDS Prf2Fits

\* Sub-integration s of a file: bins x channels samples, every sample with a
\* value of its own, and SIGPROC's running pulse count.
Subint(s, pol, bins, chans) ==
  [hdr |-> [mjd |-> 57607, fract |-> 7, period |-> 2, numpulses |-> 3 * s + s * s,
            freq |-> 1300, dm |-> 9, numbins |-> bins, tid |-> 0, pol |-> pol],
   cube |-> [ch \in 1 .. chans |-> [bn \in 1 .. bins |-> 100 * s + 10 * ch + bn]]]

NoPar   == [given |-> FALSE, opens |-> FALSE, lines |-> 0]
LostPar == [given |-> TRUE, opens |-> FALSE, lines |-> 0]
Par(n)  == [given |-> TRUE, opens |-> TRUE, lines |-> n]

\* The input of a run on a file of these sub-integrations, whole and with the
\* cfg values that go with it.
Whole(subints, par) ==
  [prof |-> Render(subints), exists |-> TRUE, numchans |-> Len(subints[1].cube),
   npol |-> subints[1].hdr.pol, badcfg |-> "none", par |-> par, subints |-> subints]

File(n, pol, bins, chans) == [s \in 1 .. n |-> Subint(s, pol, bins, chans)]

Shapes == (1 .. 2) \X (1 .. 2)

\* Whole files of up to three sub-integrations of one shape, with the right and
\* with a wrong NPOL in the cfg file.
WholeInputs ==
  {[Whole(File(n, 1, sh[1], sh[2]), p) EXCEPT !.npol = np] :
     n \in 1 .. 3, sh \in Shapes, p \in {NoPar, LostPar, Par(2)}, np \in 1 .. 2}

Base == Whole(File(2, 1, 2, 2), NoPar)

\* A file that ends early, at every token.
CutInputs == {[Base EXCEPT !.prof = SubSeq(Base.prof, 1, n)] : n \in 0 .. Len(Base.prof)}

\* A token lost, anywhere, or junk put in front of a token.
LossInputs ==
  {[Base EXCEPT !.prof = SubSeq(Base.prof, 1, n - 1) \o SubSeq(Base.prof, n + 1, Len(Base.prof))] :
     n \in 1 .. Len(Base.prof)}

Junk == << [k |-> "junk", v |-> 0] >>

JunkInputs ==
  {[Base EXCEPT !.prof = SubSeq(Base.prof, 1, n) \o Junk \o SubSeq(Base.prof, n + 1, Len(Base.prof))] :
     n \in 0 .. Len(Base.prof)}

\* NUMCHANS, NPOL or a shape that is not the file's.
OddInputs ==
  {[Base EXCEPT !.numchans = n] : n \in -1 .. 3}
  \cup {[Base EXCEPT !.npol = 2], [Base EXCEPT !.exists = FALSE]}
  \cup {Whole(<< Subint(1, p, m, 2), Subint(2, q, n, 2) >>, NoPar) :
          p \in 0 .. 2, q \in -1 .. 2, m \in 1 .. 2, n \in 0 .. 2}

\* Counts a short does not hold, and sizes an int of five bits does not: 36 and
\* 40 wrap to less than the samples there are, 32 wraps to nothing.
LargeInputs ==
  {Whole(File(1, p, n, 1), NoPar) : p \in {1, 4}, n \in {1, 4}}
  \cup {Whole(<< Subint(1, p, 1, sh[3]), Subint(2, sh[1], sh[2], sh[3]) >>, NoPar) :
          p \in 1 .. 2, sh \in {<< 4, 3, 3 >>, << 4, 4, 2 >>, << 2, 4, 5 >>}}
  \cup {Whole(<< Subint(1, sh[1], sh[2], sh[3]) >>, NoPar) :
          sh \in {<< 4, 3, 3 >>, << 4, 4, 2 >>}}

\* A last sub-integration of more, or of fewer, bins than the first.
GrowingInputs ==
  {Whole(<< Subint(1, 1, m, 2), Subint(2, 1, n, 2) >>, NoPar) : m \in 1 .. 2, n \in 1 .. 2}

\* A cfg value that is no number, also with a file of no bins.
CfgInputs ==
  {[Base EXCEPT !.badcfg = st, !.par = p] : st \in CfgStages, p \in {NoPar, Par(1)}}
  \cup {[Whole(File(1, 1, 0, 2), NoPar) EXCEPT !.badcfg = "table"]}

EveryInput ==
  WholeInputs \cup CutInputs \cup LossInputs \cup JunkInputs \cup OddInputs
    \cup LargeInputs \cup CfgInputs

\* A definition that is only a name is evaluated once by TLC, its set once.
FileInputs == EveryInput

\* What malloc may leave in the header struct: <<numbins, pol>>.
ZeroHeader == {[f \in FieldNames |-> 0]}

OddHeaders ==
  {[f \in FieldNames |-> IF f = "numbins" THEN o[1] ELSE IF f = "pol" THEN o[2] ELSE 0] :
     o \in {<< 0, 0 >>, << -1, 1 >>, << 1, 1 >>, << 2, 1 >>, << 2, 2 >>}}

\* Whole files of one polarisation to run one after the other.  One does not fit
\* on a disk of two rows, and one comes with a cfg value that is no number.
RefinementInputs ==
  {Whole(File(1, 1, 2, 2), Par(2)), Whole(File(2, 1, 2, 1), NoPar),
   Whole(File(3, 1, 1, 1), NoPar),
   [Whole(File(1, 1, 1, 2), NoPar) EXCEPT !.badcfg = "table"]}
=============================================================================
