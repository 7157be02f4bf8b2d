------------------------------- MODULE PsrFits -------------------------------
(***************************************************************************)
(* What the conversion promises, without readers, columns and status       *)
(* codes: a run on a PROF file either ends with an output that has, for    *)
(* every sub-integration in order, one row with its own samples and times, *)
(* or it fails; an output that is there already makes it fail and is left  *)
(* alone.                                                                  *)
(*                                                                         *)
(* A job is a sequence of sub-integrations [hdr, cube] as in ProfFile, all *)
(* of the same number of bins and channels.                                *)
(***************************************************************************)
EXTENDS Integers, Sequences

CONSTANT Jobs

VARIABLES
  job,     \* what is being converted
  phase,   \* "idle", "started", "writing", "ok" or "failed"
  present, \* whether the output file exists
  rows     \* its rows

absVars == <<job, phase, present, rows>>

\* TSUBINT: numpulses is a running count.
Length(j, s) ==
  (j[s].hdr.numpulses - (IF s = 1 THEN 0 ELSE j[s - 1].hdr.numpulses))
    * j[s].hdr.period

\* OFFS_SUB: the time from the start of the first sub-integration.
Offset(j, s) ==
  LET offset[q \in 1 .. Len(j)] ==
        IF q = 1 THEN 0 ELSE offset[q - 1] + Length(j, q - 1)
  IN  offset[s]

\* DATA: the samples, bin fastest, then channel.
Samples(s) ==
  [n \in 1 .. s.hdr.numbins * Len(s.cube) |->
     s.cube[((n - 1) \div s.hdr.numbins) + 1][((n - 1) % s.hdr.numbins) + 1]]

Row(j, s) ==
  [isubint |-> s, tsubint |-> Length(j, s), offs_sub |-> Offset(j, s),
   freq |-> j[s].hdr.freq, period |-> j[s].hdr.period, npol |-> j[s].hdr.pol,
   data |-> Samples(j[s])]

Busy == phase \in {"started", "writing"}

Init ==
  /\ job \in Jobs
  /\ phase = "idle"
  /\ present = FALSE
  /\ rows = <<>>

Begin ==
  /\ ~Busy
  /\ job' \in Jobs
  /\ phase' = "started"
  /\ UNCHANGED <<present, rows>>

Create ==
  /\ phase = "started"
  /\ ~present
  /\ phase' = "writing"
  /\ present' = TRUE
  /\ UNCHANGED <<job, rows>>

WriteRow ==
  /\ phase = "writing"
  /\ Len(rows) < Len(job)
  /\ rows' = Append(rows, Row(job, Len(rows) + 1))
  /\ UNCHANGED <<job, phase, present>>

Finish ==
  /\ phase = "writing"
  /\ Len(rows) = Len(job)
  /\ phase' = "ok"
  /\ UNCHANGED <<job, present, rows>>

Fail ==
  /\ Busy
  /\ phase' = "failed"
  /\ UNCHANGED <<job, present, rows>>

Remove ==
  /\ ~Busy
  /\ present' = FALSE
  /\ rows' = <<>>
  /\ UNCHANGED <<job, phase>>

Work == Create \/ WriteRow \/ Finish \/ Fail

Next == Begin \/ Work \/ Remove

\* What may happen to the output, and what has to.
Steps == Init /\ [][Next]_absVars

Progress == WF_absVars(Work)

Spec == Steps /\ Progress
=============================================================================
